-------------------------- MODULE OplogImplements --------------------------
(* The segmented, crash-prone log of module Oplog implements DurableLog.   *)
EXTENDS Oplog

Abstract == INSTANCE DurableLog WITH log <- history, recovered <- Replay

(* lib.rs, durability contract: every step of the writer, of recovery, of  *)
(* compaction and of a crash is an append, an announcement or the loss of  *)
(* an unannounced tail, and bounded replay recovers the fold of all of it. *)
ImplementsDurableLog == Abstract!Spec
=============================================================================
