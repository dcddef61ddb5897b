---------------------------- MODULE GroupCommit ----------------------------
(***************************************************************************)
(* The off-loop group-commit service: `Service` and its commit thread      *)
(* (cp-oplog/src/service.rs) over an append-only log.                      *)
(*                                                                         *)
(* Submitters put jobs on a bounded FIFO channel.  append_durable blocks   *)
(* until its ack, submit_durable blocks only for room, append_best_effort  *)
(* drops its record when there is none.  The commit thread drains a batch, *)
(* writes it buffered, syncs once and only then releases the acks.  The log*)
(* is that of module Oplog reduced to what the service sees of it: the     *)
(* records written, and how many of them a sync has made durable.          *)
(***************************************************************************)
EXTENDS Integers, Sequences, FiniteSets

CONSTANTS
  Submitters,     \* threads holding a reference to the service
  Capacity,       \* DEFAULT_QUEUE_CAPACITY
  MaxBatch,       \* MAX_BATCH
  MaxJobs,        \* bound: jobs submitted
  AppendErrors,   \* whether append_buffered may fail
  SyncErrors      \* whether sync may fail

ASSUME SubmittersAssumption == IsFiniteSet(Submitters)
ASSUME QueueAssumption == Capacity \in Nat \ {0} /\ MaxBatch \in Nat \ {0}
ASSUME MaxJobsAssumption == MaxJobs \in Nat
ASSUME ErrorsAssumption == AppendErrors \in BOOLEAN /\ SyncErrors \in BOOLEAN

VARIABLES
  queue,      \* the sync_channel
  call,       \* per submitter, the call it is in
  batch,      \* the jobs the commit thread has taken
  acks,       \* commit_batch: jobs whose append succeeded, awaiting the sync
  commit,     \* the commit thread's place: recv, drain, append, release, exited
  shutdown,   \* commit_batch: a Shutdown job was in the batch
  synced_ok,  \* sync_result of the current batch
  log,        \* records in the log, in write order
  durable,    \* how many of them a sync covered
  jobs,       \* jobs submitted so far (their ids)
  returned,   \* ids whose append_durable returned a rev
  refused,    \* ids whose append failed
  dropped,    \* best-effort ids dropped by append_best_effort
  owner       \* the owner of the Service: running, joining, joined

serviceVars == <<queue, batch, acks, commit, shutdown, synced_ok, log, durable>>
vars == <<serviceVars, call, jobs, returned, refused, dropped, owner>>

Job(type, id, by) == [type |-> type, id |-> id, by |-> by]
Idle == [op |-> "idle"]
Shutdown == [type |-> "Shutdown"]

Full == Len(queue) >= Capacity
IsDurable(job) == job.type \in {"awaited", "detached"}
Ids(s) == {s[i].id : i \in {k \in DOMAIN s : s[k] # Shutdown}}

Init ==
  /\ queue = <<>> /\ batch = <<>> /\ acks = <<>> /\ commit = "recv"
  /\ shutdown = FALSE /\ synced_ok = TRUE
  /\ call = [s \in Submitters |-> Idle]
  /\ log = <<>> /\ durable = 0
  /\ jobs = 0 /\ returned = {} /\ refused = {} /\ dropped = {}
  /\ owner = "running"

-----------------------------------------------------------------------------
(* Submitters.  shutdown takes the Service by value and drop runs on its   *)
(* last owner, so no call is in progress once the owner left "running".    *)

(* append_durable ("awaited") and submit_durable ("detached"): enter the   *)
(* bounded send.                                                           *)
BeginSend(s, type) ==
  /\ owner = "running" /\ call[s] = Idle /\ jobs < MaxJobs
  /\ jobs' = jobs + 1
  /\ call' = [call EXCEPT ![s] = [op |-> "send", job |-> Job(type, jobs + 1, s)]]
  /\ UNCHANGED <<serviceVars, returned, refused, dropped, owner>>

(* The send finds room; append_durable goes on to wait for its ack. *)
Enqueue(s) ==
  /\ call[s].op = "send" /\ ~Full
  /\ queue' = Append(queue, call[s].job)
  /\ call' = [call EXCEPT ![s] = IF @.job.type = "awaited"
                                 THEN [op |-> "await", job |-> @.job] ELSE Idle]
  /\ UNCHANGED <<batch, acks, commit, shutdown, synced_ok, log, durable, jobs, returned, refused,
                 dropped, owner>>

(* append_best_effort: try_send, the record is dropped when the queue is   *)
(* full.                                                                   *)
BestEffort(s) ==
  /\ owner = "running" /\ call[s] = Idle /\ jobs < MaxJobs
  /\ jobs' = jobs + 1
  /\ IF Full THEN /\ dropped' = dropped \cup {jobs + 1}
                  /\ UNCHANGED queue
             ELSE /\ queue' = Append(queue, Job("besteffort", jobs + 1, s))
                  /\ UNCHANGED dropped
  /\ UNCHANGED <<batch, acks, commit, shutdown, synced_ok, log, durable, call, returned, refused, owner>>

(* shutdown and drop: try_send(Shutdown), whose failure is ignored, then   *)
(* join.  The sender in `self` lives until the join returns.               *)
Stop ==
  /\ owner = "running" /\ \A s \in Submitters : call[s] = Idle
  /\ owner' = "joining"
  /\ queue' = IF Full THEN queue ELSE Append(queue, Shutdown)
  /\ UNCHANGED <<batch, acks, commit, shutdown, synced_ok, log, durable, call, jobs, returned, refused,
                 dropped>>

Joined ==
  /\ owner = "joining" /\ commit = "exited"
  /\ owner' = "joined"
  /\ UNCHANGED <<serviceVars, call, jobs, returned, refused, dropped>>

-----------------------------------------------------------------------------
(* The commit thread *)

callerVars == <<call, jobs, returned, dropped, owner>>

TakeInFront ==
  /\ queue # <<>>
  /\ batch' = <<Head(queue)>> \o batch
  /\ queue' = Tail(queue)
  /\ UNCHANGED <<acks, shutdown, synced_ok, log, durable, refused, callerVars>>

(* commit_loop: recv blocks for the first job, try_recv takes more. *)
Take ==
  /\ queue # <<>>
  /\ batch' = Append(batch, Head(queue))
  /\ queue' = Tail(queue)
  /\ UNCHANGED <<acks, shutdown, synced_ok, log, durable, refused, callerVars>>

Recv == commit = "recv" /\ Take /\ commit' = "drain"

TryRecv == commit = "drain" /\ Len(batch) < MaxBatch /\ Take /\ UNCHANGED commit

EndDrainOneTooMany ==
  /\ commit = "drain"
  /\ queue = <<>> \/ Len(batch) >= MaxBatch
  /\ queue' = IF queue = <<>> THEN queue ELSE Tail(queue)
  /\ commit' = "append"
  /\ UNCHANGED <<batch, acks, shutdown, synced_ok, log, durable, refused, callerVars>>

(* The batch is full or the queue was found empty: commit_batch starts. *)
EndDrain ==
  /\ commit = "drain"
  /\ queue = <<>> \/ Len(batch) >= MaxBatch
  /\ commit' = "append"
  /\ UNCHANGED <<queue, batch, acks, shutdown, synced_ok, log, durable, refused, callerVars>>

(* commit_batch, one job: append_buffered; a durable job stays in `acks`   *)
(* with the result.                                                        *)
AppendNext ==
  /\ commit = "append" /\ batch # <<>> /\ Head(batch) # Shutdown
  /\ \E ok \in BOOLEAN :
       /\ ok \/ AppendErrors
       /\ log' = IF ok THEN Append(log, Head(batch)) ELSE log
       /\ refused' = IF ok THEN refused ELSE refused \cup {Head(batch).id}
       /\ acks' = IF IsDurable(Head(batch)) THEN Append(acks, <<Head(batch), ok>>) ELSE acks
  /\ batch' = Tail(batch)
  /\ UNCHANGED <<queue, commit, shutdown, synced_ok, durable, callerVars>>

NoteShutdown ==
  /\ commit = "append" /\ batch # <<>> /\ Head(batch) = Shutdown
  /\ shutdown' = TRUE
  /\ batch' = Tail(batch)
  /\ UNCHANGED <<queue, acks, commit, synced_ok, log, durable, refused, callerVars>>

(* The one sync of the batch. *)
SyncBatch ==
  /\ commit = "append" /\ batch = <<>>
  /\ synced_ok' \in BOOLEAN /\ (synced_ok' \/ SyncErrors)
  /\ durable' = IF synced_ok' THEN Len(log) ELSE durable
  /\ commit' = "release"
  /\ UNCHANGED <<queue, batch, acks, shutdown, log, refused, callerVars>>

BufferedResult(ack) == ack[2]

(* A sync failure overrides the record's own success. *)
FinalResult(ack) == synced_ok /\ ack[2]

(* One ack.  A detached submitter has dropped the receiving end. *)
Release ==
  /\ commit = "release" /\ acks # <<>>
  /\ LET job == Head(acks)[1]
         ok  == FinalResult(Head(acks))
     IN /\ returned' = IF ok /\ job.type = "awaited" THEN returned \cup {job.id} ELSE returned
        /\ call' = IF job.type = "awaited" THEN [call EXCEPT ![job.by] = Idle] ELSE call
  /\ acks' = Tail(acks)
  /\ UNCHANGED <<queue, batch, commit, shutdown, synced_ok, log, durable, jobs, refused, dropped,
                 owner>>

EndBatchOnError ==
  /\ commit = "release" /\ (acks = <<>> \/ ~synced_ok)
  /\ commit' = IF shutdown THEN "exited" ELSE "recv"
  /\ acks' = <<>>
  /\ UNCHANGED <<queue, batch, shutdown, synced_ok, log, durable, refused, callerVars>>

EndBatchAndGoOn ==
  /\ commit = "release" /\ acks = <<>>
  /\ commit' = "recv" /\ shutdown' = FALSE
  /\ UNCHANGED <<queue, batch, acks, synced_ok, log, durable, refused, callerVars>>

(* commit_loop: break after a batch with a Shutdown, else the next recv. *)
EndBatch ==
  /\ commit = "release" /\ acks = <<>>
  /\ commit' = IF shutdown THEN "exited" ELSE "recv"
  /\ UNCHANGED <<queue, batch, acks, shutdown, synced_ok, log, durable, refused, callerVars>>

CommitThread ==
  \/ Recv \/ TryRecv \/ EndDrain
  \/ AppendNext \/ NoteShutdown \/ SyncBatch \/ Release \/ EndBatch

Next ==
  \/ \E s \in Submitters : \/ \E type \in {"awaited", "detached"} : BeginSend(s, type)
                           \/ Enqueue(s)
                           \/ BestEffort(s)
  \/ Stop \/ Joined
  \/ CommitThread

(* The commit thread is a running OS thread; a blocked send is woken when  *)
(* the channel has room; join returns once the thread has exited.          *)
Fairness ==
  /\ WF_vars(CommitThread)
  /\ \A s \in Submitters : SF_vars(Enqueue(s))
  /\ WF_vars(Joined)

Spec == Init /\ [][Next]_vars /\ Fairness

-----------------------------------------------------------------------------
(* Properties *)

(* The shape of the queue, the batch and the callers. *)
Jobs == [type : {"awaited", "detached", "besteffort"}, id : 1..MaxJobs, by : Submitters]
Calls == {Idle} \cup [op : {"send", "await"}, job : Jobs]

TypeOK ==
  /\ queue \in Seq(Jobs \cup {Shutdown}) /\ Len(queue) <= Capacity
  /\ batch \in Seq(Jobs \cup {Shutdown}) /\ Len(batch) <= MaxBatch
  /\ acks \in Seq(Jobs \X BOOLEAN)
  /\ call \in [Submitters -> Calls]
  /\ commit \in {"recv", "drain", "append", "release", "exited"}
  /\ shutdown \in BOOLEAN /\ synced_ok \in BOOLEAN
  /\ log \in Seq(Jobs) /\ durable \in 0..Len(log) /\ jobs \in 0..MaxJobs
  /\ (returned \cup refused \cup dropped) \subseteq 1..jobs
  /\ owner \in {"running", "joining", "joined"}

(* service.rs "it returns only after the commit thread has fdatasync'd the *)
(* batch": a returned rev is that of a record a sync has covered.          *)
ReturnedIsDurable ==
  \A id \in returned : \E k \in 1..durable : log[k].id = id

(* service.rs "Must never be lost": every job ever submitted is accounted  *)
(* for - being sent, queued, in the batch, in the log once, refused by a   *)
(* failed append, or a best-effort record dropped at a full queue.         *)
Sending == {call[s].job.id : s \in {u \in Submitters : call[u].op = "send"}}

NothingLost ==
  /\ 1..jobs = Sending \cup Ids(queue) \cup Ids(batch) \cup Ids(log) \cup refused \cup dropped
  /\ \A i, k \in DOMAIN log : log[i].id = log[k].id => i = k

(* The records of one submitter reach the log in the order it submitted    *)
(* them, awaited, detached and best-effort ones mixed (the thread roster   *)
(* deltas of one agent depend on it).                                      *)
SubmitOrder ==
  \A i, k \in DOMAIN log : i < k /\ log[i].by = log[k].by => log[i].id < log[k].id

(* service.rs "the final batch is still synced": when the commit thread is *)
(* gone nothing is left behind in the channel or unsynced.                 *)
DrainedAtExit ==
  commit = "exited" => queue = <<>> /\ batch = <<>> /\ (synced_ok => durable = Len(log))

(* Backpressure never becomes a deadlock: a caller blocked on a full queue *)
(* or on its ack is released.                                              *)
CallsReturn == \A s \in Submitters : call[s] # Idle ~> call[s] = Idle

(* A Shutdown that fits in the queue stops the thread and lets join return.*)
ShutdownStops == (\E k \in DOMAIN queue : queue[k] = Shutdown) ~> owner = "joined"

(* service.rs on a Shutdown that does not fit: "dropping every sender below*)
(* still ends the loop", so that join returns.                             *)
JoinReturns == owner = "joining" ~> owner = "joined"
=============================================================================
