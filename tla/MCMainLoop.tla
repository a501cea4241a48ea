----------------------------- MODULE MCMainLoop -----------------------------
(* Small instance of MainLoop: one kind of operation, one sender. *)
EXTENDS MainLoop

CONSTANTS op1, e1

=============================================================================
