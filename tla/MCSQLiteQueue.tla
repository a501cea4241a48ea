--------------------------- MODULE MCSQLiteQueue ---------------------------
(* A small instance of SQLiteQueue. *)
EXTENDS SQLiteQueue

CONSTANTS c1, c2

MCCommands == {c1, c2}
=============================================================================
