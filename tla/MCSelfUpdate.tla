---------------------------- MODULE MCSelfUpdate ----------------------------
(* TLC instance of SelfUpdate. *)
EXTENDS SelfUpdate
=============================================================================
