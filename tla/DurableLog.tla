----------------------------- MODULE DurableLog -----------------------------
(***************************************************************************)
(* What cp-oplog promises its callers, without files, segments or syncs    *)
(* (the durability contract of cp-oplog/src/lib.rs): entries get           *)
(* consecutive revs; a crash loses at most a tail of the log, and no entry *)
(* whose rev was announced; what a replay recovers is the fold of every    *)
(* record of the log, although checkpoints and compaction let it read only *)
(* the newest segment.                                                     *)
(***************************************************************************)
EXTENDS Recovered

VARIABLES
  log,        \* the entries a reader of the log can reach, or has a checkpoint of
  recovered,  \* the snapshot a replay would return
  announced   \* entries whose rev was returned to a caller

vars == <<log, recovered, announced>>

(* The fold of the records alone: checkpoints must add nothing to it. *)
FoldRecords(entries) ==
  LET fold[k \in 0..Len(entries)] ==
        IF k = 0 THEN EmptySnapshot
        ELSE IF IsCheckpoint(entries[k]) THEN fold[k - 1]
        ELSE FoldEntry(fold[k - 1], entries[k])
  IN  fold[Len(entries)]

NextRev == IF log = <<>> THEN 0 ELSE Last(log).rev + 1

Init == log = <<>> /\ recovered = EmptySnapshot /\ announced = {}

(* An append: the entry gets the next rev. *)
Extend ==
  /\ Len(log') = Len(log) + 1
  /\ log = SubSeq(log', 1, Len(log))
  /\ Last(log').rev = NextRev
  /\ UNCHANGED announced

(* Some appends return their revs. *)
Announce ==
  /\ UNCHANGED log
  /\ announced \subseteq announced'
  /\ announced' \subseteq announced \cup Range(log)

(* A crash: a tail of the log is lost, nothing announced with it. *)
Lose ==
  /\ log' = SubSeq(log, 1, Len(log'))
  /\ announced \subseteq Range(log')
  /\ UNCHANGED announced

Next == (Extend \/ Announce \/ Lose) /\ recovered' = FoldRecords(log')

Spec == Init /\ [][Next]_vars
=============================================================================
