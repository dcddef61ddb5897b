------------------------------ MODULE MCOplog ------------------------------
(* Small instances of Oplog for TLC. *)
EXTENDS OplogImplements

CONSTANTS t1, th, h1

MCTokens == {t1}
MCThreads == {th}
MCHashes == {h1}

(* A command effect: what a fold of it leaves depends on the rev it had. *)
MCKind == {[type |-> "CommandEffect", token |-> t1]}

(* A command effect and a thread's creation: enough for a checkpoint to    *)
(* carry a seen token and a roster entry.                                  *)
MCKinds == {[type |-> "CommandEffect", token |-> t1],
            [type |-> "ThreadCreated", thread |-> th, status |-> "MyTurn"]}

(* Frames of one length, or one kind's longer than the other's. *)
MCFrame == [kind \in MCKind |-> 1]
MCFrames == [kind \in MCKinds |-> IF kind \in MCKind THEN 2 ELSE 1]
=============================================================================
