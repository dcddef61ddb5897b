----------------------------- MODULE BridgeBoot -----------------------------
(***************************************************************************)
(* The agent processes of one folder handing its bridge over: Boot::start  *)
(* and the drop of a Boot (cp-mod-bridge/src/boot/mod.rs), the folder lock *)
(* (boot/lock.rs), the retry of a process that lost the race for it        *)
(* (boot/activate.rs, try_recover) and the heartbeat Beacon (heartbeat.rs).*)
(*                                                                         *)
(* A second process is there because a user or the supervisor started one  *)
(* before the first was gone.  What both share is the folder: the lock, the*)
(* oplog's newest segment, the stream socket, the registry record and the  *)
(* heartbeat file.  A process boots the bridge at most once, so it stands  *)
(* for its boot_id as well.                                                *)
(***************************************************************************)
EXTENDS Integers, Sequences, SequencesExt, FiniteSetsExt

CONSTANTS
  Processes,    \* the processes started in the folder
  NoProcess,
  MaxRecords,   \* bound: records a process journals besides the two lifecycle ones
  MaxFailures   \* bound: boot attempts ended by an I/O error

ASSUME NoProcessAssumption == NoProcess \notin Processes
ASSUME BoundsAssumption == MaxRecords \in Nat /\ MaxFailures \in Nat

VARIABLES
  stage,      \* per process, how far its boot or its drop has come
  lock,       \* who holds the flock on bridge.lock
  log,        \* the oplog's newest segment: per frame the process that wrote it, or
              \* NoProcess for bytes that do not decode
  position,   \* per process, where its commit thread writes the next frame
  queue,      \* per process, records submitted to its commit thread
  journalled, \* per process, records submitted while live
  socket,     \* the process whose listener is at stream.sock
  registry,   \* the process the registry record advertises
  heartbeat,  \* the process whose boot_id is in the heartbeat file
  failures    \* boot attempts that failed so far

folderVars == <<lock, log, socket, registry, heartbeat>>
vars == <<stage, folderVars, position, queue, journalled, failures>>

Stages == {"off", "starting", "pending", "locked", "opened", "bound", "advertised", "live",
           "dropped", "unlocked", "joined", "exited", "killed"}

Goto(p, s) == stage' = [stage EXCEPT ![p] = s]

Init ==
  /\ stage = [p \in Processes |-> "off"]
  /\ lock = NoProcess /\ socket = NoProcess /\ registry = NoProcess /\ heartbeat = NoProcess
  /\ log = <<>>
  /\ position = [p \in Processes |-> 0]
  /\ queue = [p \in Processes |-> <<>>]
  /\ journalled = [p \in Processes |-> 0]
  /\ failures = 0

-----------------------------------------------------------------------------
(* Boot *)

(* A process comes up with the bridge switched on. *)
Launch(p) ==
  /\ stage[p] = "off"
  /\ Goto(p, "starting")
  /\ UNCHANGED <<folderVars, position, queue, journalled, failures>>

(* acquire_lock finds the lock free, on start or on a later retry of       *)
(* try_recover.                                                            *)
AcquireLock(p) ==
  /\ stage[p] \in {"starting", "pending"} /\ lock = NoProcess
  /\ lock' = p
  /\ Goto(p, "locked")
  /\ UNCHANGED <<log, socket, registry, heartbeat, position, queue, journalled, failures>>

GiveUpForGood(p) ==
  /\ stage[p] = "starting" /\ lock # NoProcess
  /\ Goto(p, "exited")
  /\ UNCHANGED <<folderVars, position, queue, journalled, failures>>

(* LOCK_RETRY_ATTEMPTS are used up: init_state leaves the bridge pending. *)
AlreadyRunning(p) ==
  /\ stage[p] = "starting" /\ lock # NoProcess
  /\ Goto(p, "pending")
  /\ UNCHANGED <<folderVars, position, queue, journalled, failures>>

(* What a scan of the segment decodes: everything in front of a bad frame.*)
Readable ==
  LET bad == {k \in DOMAIN log : log[k] = NoProcess}
  IN  IF bad = {} THEN log ELSE SubSeq(log, 1, Min(bad) - 1)

(* OplogService::spawn: the writer truncates what does not decode, seeks to*)
(* the end, and the commit thread starts.                                  *)
OpenOplog(p) ==
  /\ stage[p] = "locked"
  /\ log' = Readable
  /\ position' = [position EXCEPT ![p] = Len(Readable)]
  /\ Goto(p, "opened")
  /\ UNCHANGED <<lock, socket, registry, heartbeat, queue, journalled, failures>>

(* Whatever is at stream.sock is unlinked first. *)
BindSocket(p) ==
  /\ stage[p] = "opened"
  /\ socket' = p
  /\ Goto(p, "bound")
  /\ UNCHANGED <<lock, log, registry, heartbeat, position, queue, journalled, failures>>

WriteEntry(p) ==
  /\ stage[p] = "bound"
  /\ registry' = p
  /\ Goto(p, "advertised")
  /\ UNCHANGED <<lock, log, socket, heartbeat, position, queue, journalled, failures>>

(* Beacon::start writes the first beat; Lifecycle::Running is submitted. *)
StartBeacon(p) ==
  /\ stage[p] = "advertised"
  /\ heartbeat' = p
  /\ queue' = [queue EXCEPT ![p] = Append(@, "Running")]
  /\ Goto(p, "live")
  /\ UNCHANGED <<lock, log, socket, registry, position, journalled, failures>>

(* A step of start_inner fails: its locals go in reverse order, so that the*)
(* service is joined before the lock is released; nothing was submitted    *)
(* yet.  What the failing step did to the folder stays: a truncated log, an*)
(* unlinked socket, a record renamed but not synced, a whole or torn beat. *)
BootFails(p) ==
  /\ stage[p] \in {"starting", "locked", "opened", "bound", "advertised"}
  /\ failures < MaxFailures
  /\ failures' = failures + 1
  /\ lock' = IF lock = p THEN NoProcess ELSE lock
  /\ log' \in IF stage[p] = "locked" THEN {log, Readable} ELSE {log}
  /\ socket' = IF stage[p] = "opened" THEN NoProcess ELSE socket
  /\ heartbeat' \in IF stage[p] = "advertised" THEN {heartbeat, p, NoProcess} ELSE {heartbeat}
  /\ registry' \in IF stage[p] = "bound" THEN {registry, p} ELSE {registry}
  /\ Goto(p, "pending")
  /\ UNCHANGED <<position, queue, journalled>>

-----------------------------------------------------------------------------
(* A live bridge and its threads *)

Journal(p) ==
  /\ stage[p] = "live" /\ journalled[p] < MaxRecords
  /\ journalled' = [journalled EXCEPT ![p] = @ + 1]
  /\ queue' = [queue EXCEPT ![p] = Append(@, "record")]
  /\ UNCHANGED <<stage, folderVars, position, failures>>

(* write_record of p's commit thread writes at its own offset: a frame that*)
(* is there already is overwritten, and those behind it stay readable only *)
(* if the new frame has the old one's length; a gap in front reads as bad. *)
Written(p) ==
  {[k \in 1..Max({Len(log), position[p] + 1}) |->
      IF k = position[p] + 1 THEN p
      ELSE IF k <= Len(log) /\ (k <= position[p] \/ same_length) THEN log[k] ELSE NoProcess] :
     same_length \in BOOLEAN}

Commit(p) ==
  /\ queue[p] # <<>>
  /\ log' \in Written(p)
  /\ position' = [position EXCEPT ![p] = @ + 1]
  /\ queue' = [queue EXCEPT ![p] = Tail(@)]
  /\ UNCHANGED <<stage, lock, socket, registry, heartbeat, journalled, failures>>

BeatingDetached(p) == stage[p] \in {"live", "dropped", "unlocked", "joined", "exited"}

(* The beacon is the last field of Boot to be dropped. *)
Beating(p) == stage[p] \in {"live", "dropped", "unlocked", "joined"}

Beat(p) ==
  /\ Beating(p)
  /\ heartbeat' = p
  /\ UNCHANGED <<stage, lock, log, socket, registry, position, queue, journalled, failures>>

-----------------------------------------------------------------------------
(* The drop of a Boot: its body, then its fields in the order they are     *)
(* declared.                                                               *)

DropBody(p) ==
  /\ stage[p] = "live"
  /\ queue' = [queue EXCEPT ![p] = Append(@, "Stopping")]
  /\ socket' = NoProcess
  /\ Goto(p, "dropped")
  /\ UNCHANGED <<lock, log, registry, heartbeat, position, journalled, failures>>

DropLock(p) ==
  /\ stage[p] = "dropped"
  /\ lock' = NoProcess
  /\ Goto(p, "unlocked")
  /\ UNCHANGED <<log, socket, registry, heartbeat, position, queue, journalled, failures>>

DropServiceUnlinking(p) ==
  /\ stage[p] = "unlocked" /\ queue[p] = <<>>
  /\ socket' = NoProcess
  /\ Goto(p, "joined")
  /\ UNCHANGED <<lock, log, registry, heartbeat, position, queue, journalled, failures>>

(* Service::drop joins the commit thread, which drains its queue first. *)
DropService(p) ==
  /\ stage[p] = "unlocked" /\ queue[p] = <<>>
  /\ Goto(p, "joined")
  /\ UNCHANGED <<folderVars, position, queue, journalled, failures>>

DropBeacon(p) ==
  /\ stage[p] = "joined"
  /\ Goto(p, "exited")
  /\ UNCHANGED <<folderVars, position, queue, journalled, failures>>

(* SIGKILL, or the exec of a reload: threads and queued records are gone,  *)
(* the kernel releases the lock, the files stay.                           *)
Kill(p) ==
  /\ stage[p] \notin {"off", "exited", "killed"}
  /\ lock' = IF lock = p THEN NoProcess ELSE lock
  /\ queue' = [queue EXCEPT ![p] = <<>>]
  /\ Goto(p, "killed")
  /\ UNCHANGED <<log, socket, registry, heartbeat, position, journalled, failures>>

BootStep(p) ==
  AcquireLock(p) \/ AlreadyRunning(p) \/ OpenOplog(p) \/ BindSocket(p) \/ WriteEntry(p)
    \/ StartBeacon(p)

DropStep(p) == DropLock(p) \/ DropService(p) \/ DropBeacon(p)

Next ==
  \E p \in Processes :
    \/ Launch(p) \/ BootStep(p) \/ BootFails(p)
    \/ Journal(p) \/ Commit(p) \/ Beat(p)
    \/ DropBody(p) \/ DropStep(p) \/ Kill(p)

(* A process that is running goes on: its boot, its drop, the retry every  *)
(* two seconds of its main loop, its commit thread and its beacon.         *)
Fairness ==
  \A p \in Processes : WF_vars(BootStep(p)) /\ WF_vars(DropStep(p)) /\ WF_vars(Commit(p))
                         /\ WF_vars(Beat(p))

Spec == Init /\ [][Next]_vars /\ Fairness

-----------------------------------------------------------------------------
(* Properties *)

(* The shape of the folder and of the processes. *)
TypeOK ==
  /\ stage \in [Processes -> Stages]
  /\ {lock, socket, registry, heartbeat} \subseteq Processes \cup {NoProcess}
  /\ log \in Seq(Processes \cup {NoProcess})
  /\ position \in [Processes -> Nat]
  /\ \A p \in Processes : /\ queue[p] \in Seq({"Running", "record", "Stopping"})
                          /\ queue[p] # <<>> => stage[p] \in {"live", "dropped", "unlocked"}
  /\ journalled \in [Processes -> 0..MaxRecords] /\ failures \in 0..MaxFailures

(* boot/mod.rs: however a predecessor ends - dropped, killed or failing to *)
(* boot - a live process is the one at the socket, in the registry record  *)
(* and behind the lock, so commands sent to the advertised agent reach it. *)
LiveIsReachable ==
  \A p \in Processes : stage[p] = "live" => socket = p /\ registry = p /\ lock = p

(* liveness.rs "a superseding agent in the same folder beats with a new    *)
(* boot_id": the beats of a predecessor still dropping may overwrite the   *)
(* successor's, but a process that stays live is in the end always seen    *)
(* under its own boot_id.                                                  *)
SuccessorSeenAlive ==
  \A p \in Processes : <>[](stage[p] = "live") => <>[](heartbeat = p)

(* lib.rs of cp-mod-bridge "the bridge self-heals the moment the lock      *)
(* frees": a process that wants the bridge gets it, unless it ends or      *)
(* another one is live.                                                    *)
FolderGetsBridge ==
  \A p \in Processes :
    stage[p] \in {"starting", "pending"} ~>
      stage[p] = "killed" \/ \E q \in Processes : stage[q] = "live"

(* command.rs "The oplog has exactly one writer": a frame in the log is    *)
(* never overwritten.                                                      *)
AppendOnly == [][IsPrefix(log, log')]_vars
=============================================================================
