------------------------------- MODULE Oplog -------------------------------
(***************************************************************************)
(* The agent's write-ahead log: `OplogWriter` (cp-oplog/src/append.rs) over*)
(* its segment files (segment.rs), recovery by `replay` (replay.rs) and    *)
(* segment compaction (compact.rs), under process kills, power loss and    *)
(* I/O errors.                                                             *)
(*                                                                         *)
(* A segment file is the sequence of frames a scan decodes, how many of    *)
(* them are on stable storage, and whether undecodable bytes follow them.  *)
(* A scan stops at the first bad frame, so whatever is written behind such *)
(* bytes is invisible to every reader.  A frame's length in bytes is that  *)
(* of its kind; only the decision to roll looks at it.                     *)
(*                                                                         *)
(* A writer operation is cut where a crash can fall between two of its     *)
(* effects on the disk; `pc` is the writer's place in the operation.       *)
(***************************************************************************)
EXTENDS Recovered

CONSTANTS
  Kinds,         \* the record kinds callers append
  FrameLen,      \* the length of a record's frame, by its kind
  CheckpointLen, \* the length of a checkpoint's frame
  SegmentLimit,  \* segment_limit
  MaxSegment,    \* bound: highest segment index
  MaxEntries,    \* bound: entries in the log
  Env            \* what the environment may do besides killing the process

Faults == {"power_loss",    \* the host loses what was not synced
           "torn_write",    \* write_all fails with part of the frame in the file
           "sync_error",    \* fdatasync fails and makes nothing durable
           "create_error",  \* create_segment cannot create the file
           "dirsync_error", \* the directory fsync of create_segment fails
           "dir_loss",      \* the host also loses directory entries not fsynced
           "compact"}       \* compact() runs beside the writer

ASSUME KindsAssumption == Kinds \subseteq RecordKind
ASSUME FramesAssumption == FrameLen \in [Kinds -> Nat] /\ CheckpointLen \in Nat
ASSUME BoundsAssumption == SegmentLimit \in Nat /\ MaxSegment \in Nat /\ MaxEntries \in Nat
ASSUME EnvAssumption == Env \subseteq Faults

Index == 0..MaxSegment
None == -1
NoJob == [type |-> "none"]

VARIABLES
  live,       \* indices of the segment files in the directory
  data,       \* per segment, the frames a scan decodes
  synced,     \* per segment, how many of them are durable
  torn,       \* per segment, whether undecodable bytes follow them
  linked,     \* segments whose directory entry is on stable storage
  cut,        \* compact(): the index below which it removes, or None
  pc,         \* the writer's place in its current operation
  index, segment_bytes, segment_has_record, next_rev, state,  \* OplogWriter
  job,        \* the record whose append is under way
  pending,    \* entries appended whose callers await the sync
  announced,  \* entries whose rev was returned to a caller
  history     \* auxiliary: the entries written, up to the last one no crash lost

diskVars   == <<live, data, synced, torn, linked>>
writerVars == <<index, segment_bytes, segment_has_record, next_rev, state>>
vars == <<diskVars, cut, pc, writerVars, job, pending, announced, history>>

-----------------------------------------------------------------------------
(* Reading the directory *)

Entry(rev, kind) == [rev |-> rev, kind |-> kind]
EmptyCheckpoint(snapshot) == [type |-> "Checkpoint", snapshot |-> EmptySnapshot]
CheckpointKind(snapshot) == [type |-> "Checkpoint", snapshot |-> snapshot]

(* What encode_entry makes of a kind, and the bytes a scan finds valid. *)
EncodedLen(kind) == IF kind \in Kinds THEN FrameLen[kind] ELSE CheckpointLen

ValidLen(entries) ==
  LET sum[k \in 0..Len(entries)] == IF k = 0 THEN 0 ELSE sum[k - 1] + EncodedLen(entries[k].kind)
  IN  sum[Len(entries)]

NonEmpty == {i \in live : data[i] # <<>>}
Newest == Max(live)
OnDisk == UNION {Range(data[i]) : i \in live}

StartsWithCheckpoint(i) == data[i] # <<>> /\ IsCheckpoint(Head(data[i]))

RevHeadOfNewest == IF live = {} \/ data[Newest] = <<>> THEN None ELSE Last(data[Newest]).rev

(* The rev replay reports: that of the last entry of the newest segment    *)
(* that has any, on the fast and on the full path alike.                   *)
RevHead == IF NonEmpty = {} THEN None ELSE Last(data[Max(NonEmpty)]).rev

(* replay_full: fold every segment, oldest first. *)
ReplayFull ==
  LET fold[n \in 0..MaxSegment + 1] ==
        IF n = 0 THEN EmptySnapshot
        ELSE IF n - 1 \in live THEN FoldEntries(fold[n - 1], data[n - 1])
        ELSE fold[n - 1]
  IN  fold[MaxSegment + 1]

ReplayNewest ==
  IF NonEmpty # {} THEN FoldEntries(EmptySnapshot, data[Max(NonEmpty)]) ELSE ReplayFull

(* replay_fast, then replay_full: the newest segment with entries is       *)
(* enough when it opens with a checkpoint.                                 *)
Replay ==
  IF NonEmpty # {} /\ StartsWithCheckpoint(Max(NonEmpty))
  THEN FoldEntries(EmptySnapshot, data[Max(NonEmpty)])
  ELSE ReplayFull

(* newest_checkpoint_index: the segments among which it takes the newest. *)
CheckpointSegments == {i \in live : StartsWithCheckpoint(i)}

-----------------------------------------------------------------------------
Init ==
  /\ live = {} /\ linked = {} /\ cut = None
  /\ data = [i \in Index |-> <<>>]
  /\ synced = [i \in Index |-> 0]
  /\ torn = [i \in Index |-> FALSE]
  /\ pc = "closed"
  /\ index = 0 /\ segment_bytes = 0 /\ segment_has_record = FALSE
  /\ next_rev = 0 /\ state = EmptySnapshot
  /\ job = NoJob
  /\ pending = {} /\ announced = {} /\ history = <<>>

(* create_segment up to the fsync of the directory: an empty file, whatever*)
(* was there truncated.  `durable` is `synced` as the caller leaves it.    *)
CreateFile(i, durable) ==
  /\ live' = live \cup {i}
  /\ data' = [data EXCEPT ![i] = <<>>]
  /\ torn' = [torn EXCEPT ![i] = FALSE]
  /\ synced' = [durable EXCEPT ![i] = 0]

(* open_with_segment_limit on a directory without segments: seg-0, empty,  *)
(* its directory entry fsynced.                                            *)
OpenFresh ==
  /\ pc = "closed" /\ live = {}
  /\ CreateFile(0, synced)
  /\ linked' = {0}
  /\ index' = 0 /\ segment_bytes' = 0 /\ segment_has_record' = FALSE
  /\ next_rev' = RevHead + 1 /\ state' = Replay
  /\ pc' = "ready"
  /\ UNCHANGED <<cut, job, pending, announced, history>>

(* The same open, ended by an error or a kill between the creation of seg-0*)
(* and the fsync of its directory entry.                                   *)
OpenFreshFails ==
  /\ pc = "closed" /\ live = {}
  /\ CreateFile(0, synced)
  /\ UNCHANGED <<linked, cut, pc, writerVars, job, pending, announced, history>>

(* segment::read and the truncation in open: only a torn tail is cut off,  *)
(* and only then is the file synced.                                       *)
KeepTail == UNCHANGED <<torn, synced>>
TruncateTail ==
  /\ torn' = [torn EXCEPT ![Newest] = FALSE]
  /\ synced' = [synced EXCEPT ![Newest] = IF torn[Newest] THEN Len(data[Newest]) ELSE @]

(* open_with_segment_limit on an existing log: replay, truncate a torn     *)
(* tail, resume in the newest segment.                                     *)
OpenExisting ==
  /\ pc = "closed" /\ live # {}
  /\ index' = Newest
  /\ segment_bytes' = ValidLen(data[Newest])
  /\ segment_has_record' = \E e \in Range(data[Newest]) : ~IsCheckpoint(e)
  /\ next_rev' = RevHead + 1 /\ state' = Replay
  /\ TruncateTail
  /\ pc' = "ready"
  /\ UNCHANGED <<live, data, linked, cut, job, pending, announced, history>>

-----------------------------------------------------------------------------
(* write_record: the frame lands behind whatever the file holds, then rev, *)
(* segment size and running state advance.                                 *)
WriteRecord(kind, is_record) ==
  LET entry == Entry(next_rev, kind) IN
  /\ Len(history) < MaxEntries
  /\ data' = IF torn[index] THEN data ELSE [data EXCEPT ![index] = Append(@, entry)]
  /\ segment_bytes' = segment_bytes + EncodedLen(kind)
  /\ next_rev' = next_rev + 1
  /\ segment_has_record' = (segment_has_record \/ is_record)
  /\ state' = FoldEntry(state, entry)
  /\ history' = Append(history, entry)
  /\ UNCHANGED <<live, synced, torn, linked, index>>

(* write_record failing in write_all: `?` returns before any field is      *)
(* advanced, and part of the frame may be in the file.                     *)
WriteFails ==
  /\ torn' \in {torn} \cup {[torn EXCEPT ![index] = TRUE] : fault \in Env \cap {"torn_write"}}
  /\ UNCHANGED <<live, data, synced, linked, writerVars, history>>

(* append_buffered's look at the frame to come: a short one may still fit  *)
(* where a longer one did not.                                             *)
MustRoll(kind) == segment_has_record /\ segment_bytes + EncodedLen(kind) > SegmentLimit

(* append_buffered into the current segment. *)
AppendBuffered(kind) ==
  /\ pc = "ready" /\ ~MustRoll(kind)
  /\ WriteRecord(kind, TRUE)
  /\ pending' = pending \cup {Entry(next_rev, kind)}
  /\ UNCHANGED <<cut, pc, job, announced>>

(* write_all fails in append_buffered, or in checkpoint(). *)
AppendFails ==
  /\ pc = "ready"
  /\ WriteFails
  /\ UNCHANGED <<cut, pc, job, pending, announced>>

(* fdatasync of the current segment: what `synced` becomes. *)
NothingSynced == synced
SyncedFile == [synced EXCEPT ![index] = Len(data[index])]

RollWithoutSync(kind) ==
  /\ pc = "ready" /\ MustRoll(kind)
  /\ index + 1 \in Index
  /\ CreateFile(index + 1, synced)
  /\ pc' = "created" /\ job' = kind
  /\ UNCHANGED <<linked, cut, writerVars, pending, announced, history>>

(* append_buffered when the segment is full: roll() syncs it and creates   *)
(* the next file, truncating one that is already there.                    *)
Roll(kind) ==
  /\ pc = "ready" /\ MustRoll(kind)
  /\ index + 1 \in Index
  /\ CreateFile(index + 1, SyncedFile)
  /\ pc' = "created" /\ job' = kind
  /\ UNCHANGED <<linked, cut, writerVars, pending, announced, history>>

(* create_segment cannot create the file: only the sync has happened. *)
RollFails ==
  /\ "create_error" \in Env
  /\ pc = "ready" /\ \E kind \in Kinds : MustRoll(kind)
  /\ synced' = SyncedFile
  /\ UNCHANGED <<live, data, torn, linked, cut, pc, writerVars, job, pending, announced, history>>

(* create_segment fsyncs the directory; the writer moves on to the segment.*)
SwitchSegment ==
  /\ pc = "created"
  /\ linked' = live
  /\ index' = index + 1 /\ segment_bytes' = 0 /\ segment_has_record' = FALSE
  /\ pc' = "rolled"
  /\ UNCHANGED <<live, data, synced, torn, cut, next_rev, state, job, pending, announced, history>>

(* sync_dir fails: the append returns the error, the writer keeps its old  *)
(* segment and the new, empty file stays behind.  A record that still fits *)
(* the old segment then goes there, and a reopen resumes in the new one.   *)
SwitchFails ==
  /\ "dirsync_error" \in Env
  /\ pc = "created"
  /\ pc' = "ready" /\ job' = NoJob
  /\ UNCHANGED <<diskVars, cut, writerVars, pending, announced, history>>

(* The leading checkpoint of the new segment, buffered. *)
StampCheckpoint ==
  /\ pc = "rolled"
  /\ WriteRecord(CheckpointKind(state), FALSE)
  /\ pc' = "stamped"
  /\ UNCHANGED <<cut, job, pending, announced>>

StampFails ==
  /\ pc = "rolled"
  /\ WriteFails
  /\ pc' = "ready" /\ job' = NoJob
  /\ UNCHANGED <<cut, pending, announced>>

(* The record that caused the roll, at the end of the same append_buffered.*)
AppendAfterRoll ==
  /\ pc = "stamped"
  /\ WriteRecord(job, TRUE)
  /\ pending' = pending \cup {Entry(next_rev, job)}
  /\ pc' = "ready" /\ job' = NoJob
  /\ UNCHANGED <<cut, announced>>

AppendAfterRollFails ==
  /\ pc = "stamped"
  /\ WriteFails
  /\ pc' = "ready" /\ job' = NoJob
  /\ UNCHANGED <<cut, pending, announced>>

(* sync, after which the callers of the buffered appends get their revs. *)
Sync ==
  /\ pc = "ready"
  /\ synced' = SyncedFile
  /\ announced' = announced \cup pending
  /\ pending' = {}
  /\ UNCHANGED <<live, data, torn, linked, cut, pc, writerVars, job, history>>

(* A failed fdatasync: the callers get the error, the frames stay. *)
SyncFails ==
  /\ "sync_error" \in Env
  /\ pc = "ready" /\ pending # {}
  /\ pending' = {}
  /\ UNCHANGED <<diskVars, cut, pc, writerVars, job, announced, history>>

(* checkpoint(): a checkpoint in the current segment, then its own sync. *)
ForceCheckpoint ==
  /\ pc = "ready"
  /\ WriteRecord(CheckpointKind(state), FALSE)
  /\ pc' = "forced"
  /\ UNCHANGED <<cut, job, pending, announced>>

SyncForced ==
  /\ pc = "forced"
  /\ synced' = SyncedFile
  /\ announced' = announced \cup {Last(history)}
  /\ pc' = "ready"
  /\ UNCHANGED <<live, data, torn, linked, cut, writerVars, job, pending, history>>

SyncForcedFails ==
  /\ "sync_error" \in Env
  /\ pc = "forced"
  /\ pc' = "ready"
  /\ UNCHANGED <<diskVars, cut, writerVars, job, pending, announced, history>>

-----------------------------------------------------------------------------
(* compact(): read the cut, unlink the older segments one by one in        *)
(* ascending order, fsync the directory.                                   *)
CompactBegin ==
  /\ "compact" \in Env
  /\ cut = None /\ CheckpointSegments # {}
  /\ \E i \in live : i < Max(CheckpointSegments)
  /\ cut' = Max(CheckpointSegments)
  /\ UNCHANGED <<diskVars, pc, writerVars, job, pending, announced, history>>

CompactRemove ==
  /\ cut # None
  /\ live # {} /\ Min(live) < cut
  /\ live' = live \ {Min(live)}
  /\ UNCHANGED <<linked, data, synced, torn, cut, pc, writerVars, job, pending, announced, history>>

CompactEnd ==
  /\ cut # None
  /\ \A i \in live : i >= cut
  /\ cut' = None /\ linked' = live
  /\ UNCHANGED <<live, data, synced, torn, pc, writerVars, job, pending, announced, history>>

-----------------------------------------------------------------------------
(* What every crash does to the process. *)
ProcessDies ==
  /\ pc' = "closed"
  /\ index' = 0 /\ segment_bytes' = 0 /\ segment_has_record' = FALSE
  /\ next_rev' = 0 /\ state' = EmptySnapshot
  /\ job' = NoJob /\ pending' = {} /\ cut' = None

(* A kill: files stay as the kernel has them, a write under way may be cut *)
(* short.                                                                  *)
Kill ==
  /\ pc # "closed"
  /\ ProcessDies
  /\ \E partial \in BOOLEAN : torn' = [torn EXCEPT ![index] = @ \/ partial]
  /\ UNCHANGED <<live, data, synced, linked, announced, history>>

(* The entries of a log up to a rev. *)
UpTo(entries, rev) ==
  SubSeq(entries, 1, Max({0} \cup {k \in 1..Len(entries) : entries[k].rev <= rev}))

(* A power loss: a directory entry that was not fsynced may be lost, an    *)
(* unlinked file whose removal was not fsynced may reappear; every file    *)
(* keeps its synced frames and any number of the ones behind them; a write *)
(* under way may be cut short.                                             *)
SurvivingFiles ==
  {files \in SUBSET (live \cup linked) :
     IF "dir_loss" \in Env THEN live \cap linked \subseteq files ELSE live \subseteq files}

PowerLoss ==
  /\ "power_loss" \in Env
  /\ live # {}
  /\ ProcessDies
  /\ \E files \in SurvivingFiles, kept \in [live -> 0..MaxEntries] :
       /\ \A i \in live : synced[i] <= kept[i] /\ kept[i] <= Len(data[i])
       /\ live' = files /\ linked' = files
       /\ data' = [i \in Index |-> IF i \in live THEN SubSeq(data[i], 1, kept[i]) ELSE data[i]]
       /\ synced' = [i \in Index |-> IF i \in live THEN kept[i] ELSE synced[i]]
  /\ \E i \in live, partial \in BOOLEAN :
       /\ partial # torn[i] => pc # "closed" \/ synced[i] < Len(data[i])
       /\ torn' = [torn EXCEPT ![i] = partial]
  /\ history' = UpTo(history, RevHead')
  /\ UNCHANGED announced

Next ==
  \/ OpenFresh \/ OpenFreshFails \/ OpenExisting
  \/ \E kind \in Kinds : AppendBuffered(kind) \/ Roll(kind)
  \/ AppendFails \/ RollFails \/ SwitchSegment \/ SwitchFails
  \/ StampCheckpoint \/ StampFails
  \/ AppendAfterRoll \/ AppendAfterRollFails
  \/ Sync \/ SyncFails
  \/ ForceCheckpoint \/ SyncForced \/ SyncForcedFails
  \/ CompactBegin \/ CompactRemove \/ CompactEnd
  \/ Kill \/ PowerLoss

Spec == Init /\ [][Next]_vars
-----------------------------------------------------------------------------
(* Properties *)

IsLog(entries) ==
  entries \in Seq(Range(entries)) /\ \A k \in 1..Len(entries) : entries[k].rev \in Nat

(* The shape of the disk and of the writer's fields. *)
TypeOK ==
  /\ live \subseteq Index /\ linked \subseteq Index
  /\ cut \in Index \cup {None}
  /\ pc \in {"closed", "ready", "created", "rolled", "stamped", "forced"}
  /\ synced \in [Index -> Nat] /\ torn \in [Index -> BOOLEAN]
  /\ index \in Index /\ segment_bytes \in Nat
  /\ segment_has_record \in BOOLEAN /\ next_rev \in Nat
  /\ job \in Kinds \cup {NoJob}
  /\ data = [i \in Index |-> data[i]]
  /\ \A i \in Index : IsLog(data[i]) /\ synced[i] <= Len(data[i])
  /\ IsLog(history)

(* append.rs "announce-after-durable": a rev handed to a caller is still   *)
(* there after any crash, as its record or subsumed by a later checkpoint. *)
AnnouncedSurvives ==
  \A e \in announced :
    e \in OnDisk \/ \E c \in OnDisk : IsCheckpoint(c) /\ c.rev > e.rev

(* append.rs open(): "revs are never reused" - no two records are ever     *)
(* announced under the same rev, and an open writer is past all of them.   *)
RevsNeverReused ==
  /\ \A e, f \in announced : e.rev = f.rev => e = f
  /\ pc # "closed" => \A e \in announced : e.rev < next_rev

(* Revs increase strictly along the segments, whatever was torn, rolled,   *)
(* compacted or reopened in between: the order every tailer relies on.     *)
RevsOrdered ==
  \A i, j \in live : \A a \in DOMAIN data[i], b \in DOMAIN data[j] :
    i < j \/ (i = j /\ a < b) => data[i][a].rev < data[j][b].rev

(* append.rs: the running state an open writer stamps into its next        *)
(* checkpoint, and the rev it assigns next, are those a reopen would find. *)
WriterMatchesDisk ==
  pc # "closed" => state = Replay /\ next_rev = RevHead + 1

(* service.rs "a durable append doubles as a flush barrier": everything    *)
(* written before an announced rev is on stable storage too, as its record *)
(* or subsumed by a checkpoint that is.  A dirsync_error breaks this: see  *)
(* SwitchFails.                                                            *)
Durable == UNION {{data[i][k] : k \in 1..synced[i]} : i \in live}

FlushBarrier ==
  \A e \in announced, f \in Range(history) :
    f.rev <= e.rev /\ ~IsCheckpoint(f) =>
      f \in Durable \/ \E c \in Durable : IsCheckpoint(c) /\ c.rev > f.rev
=============================================================================
