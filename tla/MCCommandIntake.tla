-------------------------- MODULE MCCommandIntake --------------------------
(* Small instances of CommandIntake for TLC. *)
EXTENDS CommandIntake

CONSTANTS c1, c2

MCCommands == {c1, c2}
=============================================================================
