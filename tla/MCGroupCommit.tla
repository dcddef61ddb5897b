--------------------------- MODULE MCGroupCommit ---------------------------
(* Small instances of GroupCommit for TLC: a queue that two submitters can *)
(* fill, and batches smaller than the backlog.                             *)
EXTENDS GroupCommit

CONSTANTS s1, s2

MCSubmitters == {s1, s2}
=============================================================================
