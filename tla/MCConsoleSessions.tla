------------------------- MODULE MCConsoleSessions -------------------------
(* TLC instance of ConsoleSessions. *)
EXTENDS ConsoleSessions
=============================================================================
