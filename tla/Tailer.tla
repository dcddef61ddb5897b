------------------------------- MODULE Tailer -------------------------------
(***************************************************************************)
(* The backend's consumer of one agent's log: `Tailer::poll` (registry/    *)
(* tailer.rs), tail_all_agents (runtime/driver.rs) and the AgentView it    *)
(* feeds (services/materialized_view), reading the files the writer of     *)
(* module Oplog is rolling, killing and compacting meanwhile.              *)
(*                                                                         *)
(* A poll lists the directory and then reads one file after the other, so  *)
(* writer steps fall between its reads.  Offsets count frames.  Agent and  *)
(* backend share a host: a power loss ends both, and is left out here.     *)
(***************************************************************************)
EXTENDS Oplog

CONSTANT ReadErrors   \* whether reading a listed segment may fail

ASSUME ReadErrorsAssumption == ReadErrors \in BOOLEAN

VARIABLES
  known,        \* the driver has a Tailer for the agent
  last_index, last_offset, last_rev,   \* Tailer
  polling,      \* a poll is under way
  todo,         \* the segments it has listed and not yet visited, oldest first
  new_entries,  \* what it has read so far
  view,         \* the agent's AgentView: heads and roster
  delivered     \* auxiliary: every entry this Tailer has returned

cursor == <<last_index, last_offset, last_rev>>
pollVars == <<polling, todo, new_entries>>
tailVars == <<known, cursor, pollVars, view, delivered>>

EmptyView == [heads |-> <<>>, roster |-> <<>>]

(* Tailer::new. *)
NewTailer ==
  /\ last_index' = None /\ last_offset' = 0 /\ last_rev' = None
  /\ polling' = FALSE /\ todo' = {} /\ new_entries' = <<>>
  /\ delivered' = <<>>

TailInit ==
  /\ Init
  /\ known = FALSE /\ view = EmptyView
  /\ last_index = None /\ last_offset = 0 /\ last_rev = None
  /\ polling = FALSE /\ todo = {} /\ new_entries = <<>> /\ delivered = <<>>

(* Registry events: an agent appears (or the backend starts) and gets a    *)
(* fresh Tailer; it disappears and its Tailer and view are dropped.        *)
Appear ==
  /\ ~known
  /\ known' = TRUE
  /\ NewTailer
  /\ UNCHANGED <<view, vars>>

Disappear ==
  /\ known /\ ~polling
  /\ known' = FALSE /\ view' = EmptyView
  /\ NewTailer
  /\ UNCHANGED vars

-----------------------------------------------------------------------------
(* poll: list the segments, from the cursor's on. *)
PollBegin ==
  /\ known /\ ~polling
  /\ polling' = TRUE
  /\ todo' = {i \in live : i >= last_index}
  /\ new_entries' = <<>>
  /\ UNCHANGED <<known, cursor, view, delivered, vars>>

(* The consumed part of the next segment, its length as stat reports it,   *)
(* and the entries behind the consumed part that last_rev does not dominate.*)
BaseOffset(i) == IF i = last_index THEN last_offset ELSE 0
FileLen(i) == Len(data[i]) + IF torn[i] THEN 1 ELSE 0

Undominated(entries) ==
  LET kept[k \in 0..Len(entries)] ==
        IF k = 0 THEN <<>>
        ELSE IF entries[k].rev > last_rev THEN Append(kept[k - 1], entries[k])
        ELSE kept[k - 1]
  IN  kept[Len(entries)]

FreshByFile(i) == data[i]
Fresh(i) == Undominated(SubSeq(data[i], BaseOffset(i) + 1, Len(data[i])))

(* A listed segment with nothing appended: only a newer one moves the      *)
(* cursor.                                                                 *)
SkipIdle ==
  /\ polling /\ todo # {} /\ Min(todo) \in live
  /\ FileLen(Min(todo)) <= BaseOffset(Min(todo))
  /\ last_index' = Min(todo)
  /\ last_offset' = IF Min(todo) = last_index THEN last_offset ELSE 0
  /\ todo' = todo \ {Min(todo)}
  /\ UNCHANGED <<known, last_rev, polling, new_entries, view, delivered, vars>>

ReadPastTorn ==
  /\ polling /\ todo # {} /\ Min(todo) \in live
  /\ FileLen(Min(todo)) > BaseOffset(Min(todo))
  /\ new_entries' = new_entries \o Fresh(Min(todo))
  /\ last_index' = Min(todo)
  /\ last_offset' = FileLen(Min(todo))
  /\ todo' = todo \ {Min(todo)}
  /\ UNCHANGED <<known, last_rev, polling, view, delivered, vars>>

(* A listed segment with more bytes: decode the tail up to the first torn  *)
(* frame and leave the cursor there.                                       *)
ReadTail ==
  /\ polling /\ todo # {} /\ Min(todo) \in live
  /\ FileLen(Min(todo)) > BaseOffset(Min(todo))
  /\ new_entries' = new_entries \o Fresh(Min(todo))
  /\ last_index' = Min(todo)
  /\ last_offset' = Len(data[Min(todo)])
  /\ todo' = todo \ {Min(todo)}
  /\ UNCHANGED <<known, last_rev, polling, view, delivered, vars>>

(* A segment that is gone, or cannot be read: poll returns the error and   *)
(* what it had read is dropped with the local vector, while the cursor     *)
(* stays where the loop had moved it.  The driver goes on to the next tick.*)
PollError ==
  /\ polling /\ todo # {}
  /\ Min(todo) \notin live \/ ReadErrors
  /\ polling' = FALSE /\ todo' = {} /\ new_entries' = <<>>
  /\ UNCHANGED <<known, cursor, view, delivered, vars>>

ApplyCheckpointHeads(v, entry) ==
  IF IsCheckpoint(entry)
  THEN [heads |-> entry.kind.snapshot.heads, roster |-> <<>>]
  ELSE [heads |-> FoldHeads(v.heads, entry.kind), roster |-> FoldRoster(v.roster, entry.kind)]

(* AgentView::apply of one entry. *)
ApplyEntry(v, entry) ==
  IF IsCheckpoint(entry)
  THEN [heads |-> entry.kind.snapshot.heads, roster |-> entry.kind.snapshot.roster]
  ELSE [heads |-> FoldHeads(v.heads, entry.kind), roster |-> FoldRoster(v.roster, entry.kind)]

ApplyAll(v, entries) ==
  LET fold[k \in 0..Len(entries)] ==
        IF k = 0 THEN v ELSE ApplyEntry(fold[k - 1], entries[k])
  IN  fold[Len(entries)]

(* The end of poll, and tail_all_agents folding the batch into the view. *)
PollEnd ==
  /\ polling /\ todo = {}
  /\ last_rev' = IF new_entries = <<>> THEN last_rev ELSE Last(new_entries).rev
  /\ view' = ApplyAll(view, new_entries)
  /\ delivered' = delivered \o new_entries
  /\ polling' = FALSE /\ new_entries' = <<>>
  /\ UNCHANGED <<known, last_index, last_offset, todo, vars>>

Poll == PollBegin \/ SkipIdle \/ ReadTail \/ PollError \/ PollEnd

(* The writer steps that change what a reader of the directory can see, or *)
(* lead to one.  Sync moves only `synced`, `pending` and `announced`, which*)
(* matter to a power loss alone.                                           *)
WriterStep ==
  \/ OpenFresh \/ OpenFreshFails \/ OpenExisting
  \/ \E kind \in Kinds : AppendBuffered(kind) \/ Roll(kind)
  \/ SwitchSegment \/ SwitchFails \/ StampCheckpoint \/ AppendAfterRoll
  \/ ForceCheckpoint \/ SyncForced
  \/ CompactBegin \/ CompactRemove \/ CompactEnd
  \/ Kill

TailNext ==
  \/ WriterStep /\ UNCHANGED tailVars
  \/ Appear \/ Disappear \/ Poll

allVars == <<vars, tailVars>>

TailSpec == TailInit /\ [][TailNext]_allVars
-----------------------------------------------------------------------------
(* Properties *)

Records(s) == SelectSeq(s, LAMBDA e : ~IsCheckpoint(e))

(* The shape of the cursor, which never points past the frames of its file.*)
TailTypeOK ==
  /\ last_index \in Index \cup {None} /\ last_offset \in 0..MaxEntries
  /\ last_rev \in Nat \cup {None}
  /\ last_index \in live => last_offset <= Len(data[last_index])
  /\ todo \subseteq Index
  /\ ~polling => todo = {} /\ new_entries = <<>>

(* tailer.rs "the rev is monotonic and no entry is skipped": the records a *)
(* Tailer has returned are the first ones of the log, each exactly once.   *)
GapFree == IsPrefix(Records(delivered), Records(history))

(* The same up to compaction: no record is passed over unless a checkpoint *)
(* that contains it was delivered in its place, whatever the writer did    *)
(* between two reads of a poll.                                            *)
NoRecordSkipped ==
  delivered # <<>> =>
    \A k \in DOMAIN history :
      \/ history[k].rev > Last(delivered).rev
      \/ IsCheckpoint(history[k])
      \/ \E d \in DOMAIN delivered :
           \/ delivered[d] = history[k]
           \/ IsCheckpoint(delivered[d]) /\ delivered[d].rev > history[k].rev

(* tailer.rs "ensuring ... exactly-once delivery": no rev is returned twice*)
(* or out of order, across rolls, restarts of the agent and errors.        *)
ExactlyOnce ==
  \A k \in 1..(Len(delivered) - 1) : delivered[k].rev < delivered[k + 1].rev

(* materialized_view "this fold and the agent's replay fold stay identical":*)
(* once the Tailer has consumed what is on disk, the backend's heads and   *)
(* roster are those the agent would recover, even when compaction deleted  *)
(* segments it had not read.                                               *)
CaughtUp ==
  /\ known /\ ~polling /\ live # {}
  /\ last_index = Newest /\ last_offset = Len(data[Newest])

ViewIsReplay ==
  CaughtUp => view = [heads |-> Replay.heads, roster |-> Replay.roster]
=============================================================================
