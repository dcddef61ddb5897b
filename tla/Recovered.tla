----------------------------- MODULE Recovered -----------------------------
(***************************************************************************)
(* What the operation log folds to: `Recovered` (cp-oplog/src/replay.rs)   *)
(* and the pieces of a `Snapshot` it is made of (cp-wire, snapshot/mod.rs).*)
(*                                                                         *)
(* The Vecs of the code (heads.threads, seen.entries, roster) are searched *)
(* by key and never hold a key twice, so each is a function whose domain   *)
(* is the set of keys present.  A thread's name and its last-activity      *)
(* timestamp are display data and are left out.                            *)
(***************************************************************************)
EXTENDS Integers, Sequences, SequencesExt

CONSTANTS Tokens,    \* dedup tokens of commands
          Threads,   \* thread ids
          Hashes     \* content hashes of message bodies

Turns == {"MyTurn", "TheirTurn"}

RosterThread == [status : Turns, archived : BOOLEAN, paused : BOOLEAN, msg_count : Nat]

PartialFunctions(S, T) == UNION {[D -> T] : D \in SUBSET S}

Snapshot == [heads  : PartialFunctions(Threads, Hashes),
             seen   : PartialFunctions(Tokens, Nat),
             roster : PartialFunctions(Threads, RosterThread)]

(* Recovered::default(): nothing folded yet. *)
EmptySnapshot == [heads |-> <<>>, seen |-> <<>>, roster |-> <<>>]

-----------------------------------------------------------------------------
(* OpEntryKind, restricted to the variants some fold reads.  The variants  *)
(* no fold of this module reads (phase, lifecycle, cost, context, focus,   *)
(* message-delete, unknown) are the single type "other".                   *)

RecordKind ==
  [type : {"CommandEffect"}, token : Tokens]
    \cup [type : {"MessageCreated"}, thread : Threads, head : Hashes]
    \cup [type : {"ThreadCreated", "ThreadStatusChanged"}, thread : Threads, status : Turns]
    \cup [type : {"ThreadArchived", "ThreadRestored", "ThreadPaused", "ThreadResumed",
                  "ThreadDeleted"}, thread : Threads]
    \cup [type : {"other"}]

IsCheckpoint(entry) == entry.kind.type = "Checkpoint"

-----------------------------------------------------------------------------
(* SeenSet::mark keeps the rev of the first commit of a token. *)
Mark(seen, token, rev) == IF token \in DOMAIN seen THEN seen ELSE (token :> rev) @@ seen

(* The RosterThread folds: all but fold_created ignore an absent thread. *)
FoldCreated(roster, thread, status) ==
  IF thread \in DOMAIN roster
  THEN [roster EXCEPT ![thread].status = status, ![thread].archived = FALSE]
  ELSE (thread :> [status |-> status, archived |-> FALSE, paused |-> FALSE, msg_count |-> 0])
         @@ roster

OnPresent(roster, thread, Update(_)) ==
  IF thread \in DOMAIN roster THEN [roster EXCEPT ![thread] = Update(@)] ELSE roster

FoldArchived(roster, thread, flag) ==
  OnPresent(roster, thread, LAMBDA r : [r EXCEPT !.archived = flag])

FoldPaused(roster, thread, flag) ==
  OnPresent(roster, thread, LAMBDA r : [r EXCEPT !.paused = flag])

FoldStatus(roster, thread, status) ==
  OnPresent(roster, thread, LAMBDA r : [r EXCEPT !.status = status])

FoldMessage(roster, thread) ==
  OnPresent(roster, thread, LAMBDA r : [r EXCEPT !.msg_count = @ + 1])

FoldDeleted(roster, thread) == [t \in DOMAIN roster \ {thread} |-> roster[t]]

(* The roster half of fold_entry, shared with AgentView::apply. *)
FoldRoster(roster, kind) ==
  CASE kind.type = "MessageCreated"      -> FoldMessage(roster, kind.thread)
    [] kind.type = "ThreadCreated"       -> FoldCreated(roster, kind.thread, kind.status)
    [] kind.type = "ThreadStatusChanged" -> FoldStatus(roster, kind.thread, kind.status)
    [] kind.type = "ThreadArchived"      -> FoldArchived(roster, kind.thread, TRUE)
    [] kind.type = "ThreadRestored"      -> FoldArchived(roster, kind.thread, FALSE)
    [] kind.type = "ThreadPaused"        -> FoldPaused(roster, kind.thread, TRUE)
    [] kind.type = "ThreadResumed"       -> FoldPaused(roster, kind.thread, FALSE)
    [] kind.type = "ThreadDeleted"       -> FoldDeleted(roster, kind.thread)
    [] OTHER                             -> roster

(* Heads::set_thread_head. *)
FoldHeads(heads, kind) ==
  IF kind.type = "MessageCreated" THEN (kind.thread :> kind.head) @@ heads ELSE heads

(* fold_entry: a checkpoint replaces the whole snapshot, anything else adds to it. *)
FoldEntry(snapshot, entry) ==
  IF IsCheckpoint(entry)
  THEN entry.kind.snapshot
  ELSE [heads  |-> FoldHeads(snapshot.heads, entry.kind),
        seen   |-> IF entry.kind.type = "CommandEffect"
                   THEN Mark(snapshot.seen, entry.kind.token, entry.rev)
                   ELSE snapshot.seen,
        roster |-> FoldRoster(snapshot.roster, entry.kind)]

FoldEntries(snapshot, entries) ==
  LET fold[k \in 0..Len(entries)] ==
        IF k = 0 THEN snapshot ELSE FoldEntry(fold[k - 1], entries[k])
  IN  fold[Len(entries)]
=============================================================================
