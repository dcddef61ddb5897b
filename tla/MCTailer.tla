------------------------------ MODULE MCTailer ------------------------------
(* Small instances of Tailer for TLC. *)
EXTENDS Tailer

CONSTANTS th, h1

MCThreads == {th}
MCHashes == {h1}

MCKind == {[type |-> "ThreadCreated", thread |-> th, status |-> "MyTurn"]}

(* A thread and a message in it: the roster and the heads both change. *)
MCKinds == {[type |-> "ThreadCreated", thread |-> th, status |-> "MyTurn"],
            [type |-> "MessageCreated", thread |-> th, head |-> h1]}

(* Frames of one length. *)
MCFrame == [kind \in MCKind |-> 1]
=============================================================================
