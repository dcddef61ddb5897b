---------------------------- MODULE MCBridgeBoot ----------------------------
(* Small instances of BridgeBoot for TLC. *)
EXTENDS BridgeBoot

CONSTANTS p1, p2, p3

MCTwo == {p1, p2}
MCThree == {p1, p2, p3}
=============================================================================
