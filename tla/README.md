# Context Pilot: TLA+ models of the orchestration core

Context Pilot runs one *agent* process per folder (a terminal UI around an LLM
loop, `src/src`, `src/crates/cp-*`) and one *backend* process (`cp-orchestrator`)
that shows a fleet of agents in a browser and sends them commands. The two share
no memory. What binds them is the agent's **oplog**, a write-ahead log in the
agent's folder, a Unix socket for commands, and a registry record with a heartbeat.
Most of what can go wrong between a crash, a restart and a retry goes wrong there,
so that is the core these models start from. Around it they cover what each process does
on its own: the agent's main loop, the saving of its state, the daemon that runs its
console processes, and the backend's replacement of its own binary.

## 1. Inventory

| Component | State | Operations | Interacts with | What is hard | What makes it correct |
|---|---|---|---|---|---|
| Oplog writer, segments (`cp-oplog` append.rs, segment.rs) | segment files, `next_rev`, running snapshot | open, append_buffered, roll, sync, checkpoint | commit thread above, files below | crash between any two I/O calls, torn tails, failing write/sync/create | an announced rev survives, revs are never reused and stay ordered |
| Replay (replay.rs, cp-wire snapshot) | `Recovered`: heads, roster, seen tokens | fold_entry, replay_fast, replay_full | writer's open, intake, SSE | bounded replay from a checkpoint must equal the full fold | refinement of an abstract log |
| Compaction (compact.rs) | the directory | compact | live writer, tailers | unlinking beside writer and readers | what is removed is carried by a checkpoint |
| Group commit (service.rs) | bounded queue, batch, acks | append_durable, submit_durable, append_best_effort, shutdown, drop | main loop, intake | backpressure, one sync for many callers, shutdown on a full queue | returned means durable, nothing lost, everyone released |
| Command intake (command.rs, threads/bridge.rs, threads/commands.rs) and channel (registry/channel.rs) | seen tokens, the connection served, agent state, saved state | send, retry, process, ack, apply, save, restart | oplog, backend | lost acks, redelivery, crash around the ack | at most once, accepted implies journalled |
| Boot, folder lock, beacon (boot/*, heartbeat.rs) | flock, socket, registry record, heartbeat file | start, try_recover, drop | other processes of the folder, backend | handover between two processes, failing boots, kills | one owner, reachable, seen alive |
| Tailer, driver, view (tailer.rs, driver.rs, materialized_view) | cursor, `AgentView` | poll, appear, disappear, apply | the files of a live writer | torn reads, rolls and compaction between two file reads | no gap, exactly once, view equals replay |
| Persistence writer (state/persistence) | files, pending batch, pending messages, conversation in memory | send_batch, send_message, flush, save_state, shutdown, drop, boot | main loop | debounce, order of files, flush timeout, kill between two files | an exit loses nothing, a listed message has its file, the last state wins |
| Registry scan, liveness verdict | known agents, verdicts | scan, diff, verdict | boot, beacon | stale records, pid reuse | a live agent is in the end shown live |
| Tee, tee reader, stream hub | bounded frame buffers | publish, admit, drain, reconcile | SSE | load shedding | loss is always signalled |
| SSE producer, tickets | per-client cursor | seed, poll, resync | tailer, hub | gaps, unsynced revs | a client misses nothing silently |
| Body store (body.rs) | body files | put, get | message emission | body before record | a journalled hash can be read |
| Supervisor, retire | supervised processes | spawn, stop, restart, adopt, check_liveness | agents | pid reuse, grace period | never two agents, never a foreign kill |
| Spine, guard rails | notifications, counters, backoff | check_spine, apply_continuation | main loop, watchers | blocked notifications, user stop | a user message is answered or visibly blocked |
| Tool pipeline, tool queue, callbacks, watchers, stream handlers | pending tools and Done, queue, blocking watchers, stream phase | collect, enqueue, flush, replay, interrupt, retry, finalize, reload | provider threads, spine, user | interruption in the middle of a batch, late events of a stopped stream, waits that never end | one result per tool_use, nothing runs twice, a turn ends |
| Console server and manager (`cp-console-server`, `cp-mod-console`) | sessions by key, waiter threads, exit times; handles and their status | create, status, kill, remove, reap, shutdown; spawn, poll, reconnect | child processes | waiter against insertion, reaper against reuse, either side dying | a handle tells the truth, no child is lost |
| Self-update (`services/releases`) | installed binary, `.bak`, `.pending`, update record, auth.db and its backup, active release, channel | check, apply, boot_check, boot_reconcile, commit, promote, channel switch | service manager, scheduler thread, administrator | a kill between any two file operations, releases that crash or are unhealthy | there is a way back, it is taken, nothing unproven is promoted |
| Threads, focus, emission chokepoints | threads, focused thread | create, send, archive, … and their oplog deltas | oplog | delta order against state | view equals agent |
| Auth, REST, search, entities, wire formats of the providers, UI, web | see `PROJECT.json` | | | mostly I/O, SQL, formatting | |

`PROJECT.json` lists every component with its status, and under `hazards` the
places in the code that are hard to test, each with the properties that watch it
or a note saying why none does yet.

## 2. Modules and how they correspond to the code

| Module | Models | Composition |
|---|---|---|
| `Recovered` | the record kinds, `Snapshot`, `fold_entry` and the `fold_*` helpers | pure operators |
| `Oplog` | `OplogWriter` over its segment files, `replay`, `compact` | extends `Recovered` |
| `DurableLog` | the abstract contract of `cp-oplog/src/lib.rs`: append, announce, lose an unannounced tail | extends `Recovered` |
| `OplogImplements` | the refinement mapping from `Oplog` to `DurableLog` | extends `Oplog`, instantiates `DurableLog` |
| `GroupCommit` | `Service` and its commit thread | the log reduced to "records, and how many are synced" |
| `CommandIntake` | `AgentChannel::send*`, `Intake`, the main loop's drain, apply and save | the log reduced to the set of journalled tokens |
| `BridgeBoot` | `Boot::start`, the drop of a `Boot`, `acquire_lock`, `try_recover`, `Beacon` | the log reduced to "who wrote which frame" |
| `Tailer` | `Tailer::poll`, the driver's events, `AgentView::apply` | extends `Oplog`: the reader runs beside the real writer |
| `AgentLoop` | the tick of `App::run`: stream events, retry, tool pipeline and queue, blocking watchers, finalisation, `check_spine`, user input, reload | stands alone |
| `PersistenceWriter` | `PersistenceWriter`, `save_state`, the exits of `main`, `load_state` | memory, channel, thread and files |
| `ConsoleSessions` | `cp-console-server` and the `SessionHandle`s of the agent | server, processes and agent |
| `SelfUpdate` | `services/releases`: updater, boot guard, committer, channel | files, the one process, two appliers |
| `OplogProofs`, `GroupCommitProofs`, `CommandIntakeProofs`, `BridgeBootProofs`, `AgentLoopProofs`, `PersistenceWriterProofs`, `ConsoleSessionsProofs`, `SelfUpdateProofs` | TLAPS proofs (section 5) | each extends the module of its name; `OplogProofs` extends `OplogImplements` and `Tailer` |
| `MC*` | constants for TLC | |

**Recovered.** A record is its kind with the ids a fold looks at; texts, costs and
timestamps are left out. The `CommandEffect` type stands for every kind whose fold
only marks a token (`CommandEffect`, `SeenMark`). A `seen` entry keeps the rev it was
marked with, because `rev_of` is returned to commanders.

**Oplog.** A segment file is the sequence of frames a scan decodes (`data`), how many
of them are durable (`synced`) and whether undecodable bytes follow (`torn`). That is
all a reader can tell of a file: `segment::read` stops at the first bad frame. A write
behind torn bytes changes nothing a reader sees. An operation is cut wherever a crash
can fall between two effects on the disk: `append_buffered` that rolls is `Roll` (sync
the old segment, create the new file), `SwitchSegment` (directory fsync, switch),
`StampCheckpoint`, `AppendAfterRoll`; each has its failing twin. `Kill` keeps the files
as the kernel has them; `PowerLoss` keeps the synced frames and any number of the
others, file by file. `Env` says which faults a run allows.
A record's frame has a length of its own, by its kind (`FrameLen`, `CheckpointLen`), and
`MustRoll` compares lengths as the code compares bytes, so a short record may still fit a
segment that a longer one could not. That matters after `SwitchFails`: the directory fsync
of a roll has failed, the empty new file stays, the writer is still in the old segment, and
the next short record goes there, behind a file that a reopen will take for the newest.

**GroupCommit.** The commit thread is stepped call by call (`Recv`, `TryRecv`,
`AppendNext`, `SyncBatch`, `Release`). `Stop` is `shutdown`/`drop`: a `try_send` that may
not fit, then the join. A sync that fails makes nothing durable and turns every reply of
the batch into an error.

**CommandIntake.** A commander is a retrying sender whose connection can time out at any
moment; `backlog` is the listener's queue; `conn` is the one connection the main loop
serves at a time. `PeerGone` is the write or read error of a connection whose other end
is closed: `handle_connection` returns an error and drops the commands it had accepted.
`Save` is the persistence writer getting the state to disk some time after `Apply`.

**BridgeBoot.** The stages of a process are the points between two effects of
`start_inner` on the folder, then the fields of `Boot` in the order Rust drops them.
`Kill` stands for SIGKILL and for the `exec` of a reload; the kernel releases the lock.
Each commit thread writes at its own file offset, because the segment is opened without
`O_APPEND`.

**Tailer.** `PollBegin` lists the directory, then one step per file. The writer steps of
`Oplog` that a reader can notice interleave freely with them. `delivered` is an auxiliary
history of what the tailer has returned.

**AgentLoop.** A tick runs the handlers of `run_background_phase` in their order; `pc` is
the handler to run next, and what a handler reads of the outside (a panel loaded, a
deadline passed, a script ended) is a choice made when it reads it. Provider threads only
send on the channel, so they interleave at the two handlers that can notice. A tool call
is its kind: plain, edit (may trigger blocking callbacks), wait, watch, sleep, guarded
(pre-flight turns the queue on), invalid, queue_execute, queue_pause, reload. Text is "the
message has content". Three inputs cut through pending work in a way the code does not
repair: a browser stop, a clear or a reload in the middle of a batch, and a message that
starts a stream while a stopped provider thread is still sending. The history variable
`broken` records it, and the other four invariants claim nothing
afterwards; `ExecutedOnce` and the liveness properties claim on.

**PersistenceWriter.** One write or delete of a file is one step of the thread, a kill may
fall between any two, and the next boot loads what it finds. Contents are identities of
messages and a version number of the state. A message that is still being streamed has
not been handed over. The order of the panel files, of the history messages and of the
deletes within a batch is left to `SetToSeq`; no property depends on it. Ghosts name the
situations the code gives no promise for: a synchronous save that began with an older batch
still queued (`overtaken`), a life loaded after that had happened (`stale`), files deleted by
a clear or a detach (`removed`), and a flush that gave up (`timedOut`).
Another instance of the program may load the folder while this one runs (`GuestLoads`, the
reads of its boot taken together) and claim it later with a save of all it has loaded, one
file operation a step, stopping wherever it likes (`GuestSaves`, `GuestWrites`). Its
config.json carries the version and the uid counter it has read, so it can put older data
over newer. `replaced` records that it has changed more than the owner. What it does after
that save is a life of its own, as this one's is, and not in the model.

**ConsoleSessions.** The connection thread of a create is two steps (spawn, insert), its
waiter two more (wait, report), a kill two (SIGTERM, SIGKILL); the reaper's scan is one,
since it holds the lock. The agent's handles are polled one by one. Keys come from a
counter the agent saves, and a retried create, or a crash of the agent before it saved, can
use one twice. Two processes spawned for one key in one life of the server are `Twins`: the
second insert overwrites the first session, and the first one's waiter reports into the
second. The properties say exactly that much less: a code may be a twin's, a live child may
be lost to a twin. Of everything else, a reused key in a later life of the server among
it, they claim the whole.

**SelfUpdate.** A release is a number; those in `Crash` die at boot, those in `Sick` never
answer `/healthz`. `db` is the tag whose binary last opened (and so migrated) auth.db. Each
file operation of staging, boot and promotion is a step and a kill can fall between any
two; `copy` is two steps, so that it can be cut short. Two appliers, the scheduler and the
administrator, run the pipeline, at any time the server serves: the code polls 30 s after
boot, gives a new binary 60 s to prove healthy and does not look at that when an update is
started. What the code does not provide for and has happened is recorded in `mishaps`: an
update staged over one that is not committed (`overlap`), or on a check made against
another active release (`stale_check`), or over the backup a record names
(`backup_redone`); the copy over auth.db failing (`copy_failed`, the `Err` arm of
`apply.rs:189`, which goes on); the rename of the rollback failing (`rename_failed`,
`self_update.rs:104`, which goes on too). Each property names the mishaps that void it and
holds through the others. Removals of files, and the writes whose result the code ignores
other than the first marker, are taken to succeed.

## 3. Runs

| Run | Expectation | Shows |
|---|---|---|
| `oplog_power` | pass (90 480 states) | kills, power losses, failing syncs and creations between any two steps; records of two lengths |
| `oplog_compact` | pass (538 484) | compaction beside a writer that rolls, dies and reopens; the compaction may die half-way too; creations and directory fsyncs fail, records of two lengths |
| `group_commit` | pass (118 013) | queue and batch at their limits, failing appends and syncs |
| `command_intake` | pass (31 600) | crashes, timeouts, journal failures, retries of two commands |
| `command_intake_lost` | `AcceptedIsApplied` violated | an accepted command is lost in a crash after the ack |
| `tailer` | pass (1 939 004) | polls beside a rolling, dying, compacted log |
| `bridge_boot` | pass (28 443) | two processes of a folder in any interleaving |
| `agent_loop` | pass (953 447) | two tool calls of every kind against two user actions or provider errors: the conversation stays well formed |
| `agent_turns` | pass (49 474) | the same loop with watchers, sleeps, retries and guard rails at their limits: waits, turns and user messages come to an end |
| `persistence` | pass (483 523) | two messages, four saves, one kill, every way out of the program, another instance saving over the folder |
| `console` | pass (364 346) | two keys, two processes, one fault among deaths of either side and late answers |
| `self_update` | pass (396 416) | two applies that may overlap, a kill, a channel switch, failing copy and rename, releases that crash or are sick |

The properties are stated in the modules, each with the sentence of the code it is
about. In short:

* `AnnouncedSurvives`, `RevsNeverReused`: the durability contract.
* `WriterMatchesDisk`: the snapshot a writer will stamp into its next checkpoint, and the
  rev it will assign, are what a reopen would compute. This is what makes bounded replay
  right.
* `FlushBarrier`: what came before an announced rev is durable too, across a roll.
* `ImplementsDurableLog`: the segmented log is a refinement of `DurableLog`. The abstract
  log is `history`, the abstract recovered state is `Replay`; so the property also says
  that the bounded replay is at all times the fold of all records.
* `ReturnedIsDurable`, `NothingLost`, `SubmitOrder`, `CallsReturn`, `ShutdownStops`: the
  service.
* `AppliedAtMostOnce`, `AcceptedIsJournalled`, `EveryCommanderAnswered`: the intake.
* `NoRecordSkipped`, `ExactlyOnce`, `ViewIsReplay`: the tailer and the view it feeds.
* `LiveIsReachable`, `SuccessorSeenAlive`, `FolderGetsBridge`: the handover.
* `ResultsPaired`, `CallsAnswered`: the conversation is one a provider accepts, through
  queueing, flushing, interruption and retry. `WaitDelivered`: a blocking tool gets what
  its watcher returned. `ExecutedOnce`: no call runs twice. `OneStream`: no second provider
  thread. `WaitEnds`, `TurnEnds`, `UserAnswered`: nothing keeps the loop streaming for
  ever, and a user's message is taken up.
* `ExitPersistsAll`, `ListedMessageIntact`, `LatestStateWins`, `SavesLand`: what the disk
  holds after an exit, after a kill, and in the end. That nothing handed over is left at an
  exit holds whatever another instance does; what the files then say is claimed until it has
  replaced something.
* `ExitCodeIsTrue`, `NoneUnmanaged`, `HandleResolves`: the agent's handles against the
  processes, and the server against its children, up to twins.
* `WayBack`, `SelfHeals`: "never leaving the box unbootable". `NeverOpensPartial`: a
  restoration of auth.db cut short is done again before anything opens it.
  `ActiveIsProven`, `StableMovesForward`: what is promoted. `WayBack`, `ActiveIsProven` and
  `SelfHeals` end with an overlapping update, the other two go on through it.

The modules also state type invariants and a few further properties that TLC has
confirmed with the same instances and that are left out of the configurations:
`RevsOrdered`, `DrainedAtExit`, `OwnDone`, `ExitEnds`, `EndedIsReaped`, `KilledEnds`,
`SuccessIsTrue`, `GateIsReleased`. Those that TLC refutes are in section 4.

Every property of a passing run has a mutant in `PROJECT.json`: an operator beside the
definition it changes (for example `RollWithoutSync` beside `Roll`) under which TLC finds
the property violated. The operators serve no other purpose.

### Bounds

* Oplog: a long record and a short one, and a limit of three: two long records roll, a long
  and a short one fit, so that a roll for a long record that fails can be followed by a short
  one in the old segment. Four entries. With power losses there are two segments (one roll
  and its checkpoint, all crash points of both), with compaction three (a segment to
  remove, a newer checkpoint, and one being created). Four entries are two records and two
  checkpoints, or three and one: enough for an announced record, its subsumption by a
  checkpoint, the loss of the checkpoint and a fresh record under the same rev.
  `AnnouncedSurvives`, `RevsNeverReused` and `WriterMatchesDisk` were also checked with
  `dirsync_error` added to the faults of the power run (107 722 states).
* GroupCommit: two submitters, three jobs, queue and batch of two: the queue fills, a
  batch ends at its limit with a job left over, and a Shutdown meets both.
* CommandIntake: two commands, two connections each. With three connections the safety
  properties were checked once (369 204 states). The proofs remove the bound.
* Tailer: one record kind of one length, three segments, four entries: a poll that spans two files
  while a third is created and the first removed.
* BridgeBoot: two processes, one journalled record each, one failing boot. A folder with a
  running agent and one waiting is what `run.sh` and the supervisor produce.
* AgentLoop: two calls are a batch with a queueing tool and a flush, or a wait beside an
  edit; two inputs are a message and the stop, clear or reload that meets it. The liveness
  run has one call per turn, all deferred kinds and one API retry, and `MaxAutoRetries = 2`,
  so that the guard rail is reached.
* PersistenceWriter: two messages and four saves: a batch pending, one replacing it, one
  being written and a synchronous one. One kill, then a full second life. Uid numbers go up
  to `2 * MaxMessages` (a history panel takes one too); where a draw would pass that, the
  guard `mem.next \in Numbers` stops it, which only happens after lives that drew numbers
  and lost the messages. The other instance shares the first two batches (`MaxShared`), that
  is: it loads while at most one is built, so that the second can be overwritten; the run
  with three passed once (1 897 825 states). The proofs remove all of these bounds.
* ConsoleSessions: two processes are two keys, or one key used again; one fault makes either
  side die or a create answered late (the second late answer to the same create is not
  counted: a slow server stays slow, and the caller gives up). One key with two faults
  (107 812 states) passed once, and two keys with two faults for the invariants (1 937 920).
* SelfUpdate: four releases beside the first, one of them crashing and one sick, are an
  update that succeeds and one that fails, one after the other or one in the other's
  probation; the kill falls into staging or into the recovery from it.

### Fairness

Liveness is checked under weak fairness of what is a running thread or a polling loop in
the code: the commit thread, the beacon, the main loop's steps, the reader of an ack, the
supervisor's restart. A send blocked on the full channel gets strong fairness: the
channel wakes blocked senders in turn, and each room it frees is offered again. In
`AgentLoop` the events outside the loop (a provider that ends because its transport times
out, a watcher's condition or deadline, the five seconds a panel is waited for, the end of
a sleep or of a backoff) are strong fairness for the handler that notices them: they stay
true but the loop is elsewhere for part of every tick. In `SelfUpdate` the service manager
respawns; in `ConsoleSessions` the reaper scans every five seconds and handles are polled
every half second. Nothing is assumed of faults, submitters, users or the end of a process. `CHECK_DEADLOCK FALSE` is
set where the system may really come to rest: a joined service, commanders that have their
answer, processes that have exited.

## 4. Findings

One run is a violation of what a comment in the code says; `PROJECT.json` quotes the
lines.

* `command.rs:180`: the journalled `CommandEffect` has no body and nothing re-drives it;
  the dedup token survives the crash, the effect does not. The same happens when the peer
  is gone at the ack (`command.rs:138`) and when a failed sync left the record in the file
  (`command.rs:188`).

The modules hold further statements of comments that TLC refutes. To see a trace, check
the property named here with the constants of the component's passing run and the change
given; "without" is the property without that exception.

| Property | Module, change | What happens |
|---|---|---|
| `AnnouncedSurvives` | Oplog, `Env = {"torn_write"}`, five entries, two segments | `append.rs:290`: after a `write_all` that failed part-way the writer stays in use, and records written behind the torn bytes are announced and unreadable |
| `JoinReturns` | GroupCommit | `service.rs:270`: the comment relies on "dropping every sender below", but the sender is a field that lives until the join is over |
| `GapFree` | Tailer, `ReadErrors = TRUE`, `Env = {}` | `tailer.rs:133`: the cursor is advanced before the entries are returned |
| `AppendOnly` | BridgeBoot | `boot/mod.rs:88`: `_lock` is the first field of `Boot`, the first to be dropped, and two commit threads write one segment |
| `StopIsHard` | AgentLoop | `engine.rs:110` "absolute hard stop": a stop from the browser (`commands.rs:340`) leaves a deferred batch that starts the next stream |
| `SyncSaveSticks` | PersistenceWriter | `reverie.rs:242`: a synchronous save is overwritten by an older batch still queued |
| `ServerTakesChildren` | ConsoleSessions | the server's death leaves its children; `main.rs:9` promises the cleanup for SIGTERM, `cleanup.rs:30` registers SIGINT and SIGHUP |
| `FlushBarrier`, `ImplementsDurableLog` | Oplog (`oplog_power`), `dirsync_error` added to `Env` | `append.rs:219`: after a roll whose directory fsync failed, a short record goes to the old segment; a reopen resumes in the empty newer one, nobody syncs the old one again, and a power loss takes the record from in front of an announced one |
| `NoRecordSkipped`, `ViewIsReplay` | Tailer, `Env = {"dirsync_error"}`, the two kinds of `MCTailer` with lengths 1 and 2, `SegmentLimit = 3` | the same record, when the tailer has moved on to the newer file |
| `ExitPersistsAll`, `ListedMessageIntact`, `LatestStateWins` | PersistenceWriter, without `~replaced`, or without the disjunct on the owner; `MaxShared = 3` | `save.rs:257`: another instance's save puts an older config.json, older lists and an older uid counter over newer ones |
| `ExitCodeIsTrue`, `NoneUnmanaged`, `HandleResolves` | ConsoleSessions, `Twins(p) == {p}` | `main.rs:172-186`: a create made again overwrites the session of the first, which is unmanaged from then on and whose waiter reports into the second |
| `WayBack`, `ActiveIsProven`, `SelfHeals` | SelfUpdate, without `overlap` | `update_scheduler.rs:28`: an apply during probation overwrites `.bak` with the unproven binary and the record with its own, and starts the count again |
| `SelfHeals` | SelfUpdate, without `rename_failed` | `self_update.rs:104`: a rollback whose rename fails still removes the marker |
| `NeverOpensPartial` | SelfUpdate, without `copy_failed`, or without `backup_redone` | `apply.rs:189`: a failing copy of the backup is logged and the boot opens what is there; `apply.rs:83`: a backup cut short under a name that an older record holds is restored from |
| `StableMovesForward` | SelfUpdate, without `stale_check` | `update.rs:98`: what a manifest was compared with has been promoted since, and an update staged on it leads back |

Met while modelling and kept out of the runs, because they need code that has no caller
yet, several faults in a row, or are the code's own choice:

* a compaction that trusts a checkpoint not yet synced, followed by a power loss
  (`compact.rs:115`); a segment whose directory entry was never fsynced, resumed by a later
  open (`append.rs:173`, fault `dir_loss`); a kill between creating a segment and stamping
  it leaves a later segment without a leading checkpoint, which `replay.rs:171` calls
  impossible but handles;
* two `Queue_execute` of one batch: the second assigns `flushed_tools` again
  (`pipeline.rs:142`); an interrupted batch leaves the watchers of blocking callbacks
  behind (`cleanup.rs:408`); a retry keeps `pending_tools` (`streaming.rs:138`);
* a detach deletes message files before the panel that replaces them is written
  (`detach.rs:158`); a truncated `config.json` loads as defaults;
* a synchronous save overtaken by an older batch, followed by a kill before the next save:
  `config.json` then holds an older uid counter than the files beside it, the next life
  draws uids that are in use, and two messages share one file (three messages and six saves
  show it). `ExitPersistsAll` makes no claim of such lives (`stale`); the proof attempt
  found them, the run is too small to;
* after a rollback the failed image goes on in that boot: it restores auth.db and then
  migrates it again, with the backup gone (`apply.rs:161`); a kill between `boot_commit`
  and `promote` makes the next boot report a committed release as rolled back; a kill
  between the rename and the marker starts the new binary unguarded (`self_update.rs:82`);
* in code not modelled yet: `stop` polls by pid only and under the backend lock
  (`supervisor/mod.rs:279`), the retired set is checked before the spawn
  (`create.rs:76`), `take_dirty` is consumed by one of two producers
  (`stream/mod.rs:145`), the gap check is made once (`stream/mod.rs:114`), a subscriber may
  be sent a rev that is not synced (`stream/mod.rs:104`), and a body file is taken as
  durable before its directory entry is (`body.rs:157`).

## 5. Proofs

TLC's runs are small instances; the theorems below hold for every value of the constants.
Each proof module extends the module it is about. Apart from the conditions named here,
the only assumptions are the named `ASSUME`s of the modules: bounds are naturals, the
"none" values are not members of the sets they extend. Every inductive invariant is called
`IInv`; each was first checked by TLC on the instances of section 3 (that of
`PersistenceWriter` with its unbounded quantifiers bounded).

| Module | Proved | Condition |
|---|---|---|
| `OplogProofs` | `AnnouncedAreSafe` (`AnnouncedSurvives`), `NoRevTwice` (`RevsNeverReused`), `FilesInOrder` (`RevsOrdered`), `TypeCorrect` | `Sane` |
| | `RunningStateIsReplay` (`WriterMatchesDisk`), `Refinement` (`ImplementsDurableLog`), `ContentInvariant`, `ImplementsLogSteps` | `Sane`, `Gapless` |
| | `AnnouncedIsBarrier` (`FlushBarrier`) | `Sane`, `Orderly` |
| | `RevsDeliveredOnce` (`ExactlyOnce`), `TailOrderInvariant` | `Sane` |
| | `NothingSkipped` (`NoRecordSkipped`), `ViewAgreesWithReplay` (`ViewIsReplay`), `TailCoverInvariant` | `Sane`, no `dirsync_error`, `ReadErrors = FALSE` |
| `GroupCommitProofs` | `DurableBeforeReturn` (`ReturnedIsDurable`), `NoJobLost` (`NothingLost`), `OrderKept` (`SubmitOrder`), `ExitLeavesNothing` (`DrainedAtExit`), `TypeCorrect` | |
| `CommandIntakeProofs` | `ExactlyOnceIntake` (`AppliedAtMostOnce`), `AcceptedMeansDurable` (`AcceptedIsJournalled`), `TypeCorrect` | |
| `BridgeBootProofs` | `OneOwner`, `Reachable` (`LiveIsReachable`) | |
| `AgentLoopProofs` | `NoToolTwice` (`ExecutedOnce`), `OneThreadAtATime` (`OneStream`), `DoneIsOwn` (`OwnDone`), `TypeCorrect` | |
| | `EveryResultHasItsCall` (`ResultsPaired`), `EveryCallAnswered` (`CallsAnswered`), `WaitGetsItsResult` (`WaitDelivered`), `ConversationInvariant` | |
| `PersistenceWriterProofs` | `ExitSaves` (`ExitPersistsAll`), `ListedIntact` (`ListedMessageIntact`), `NeverBack` (`LatestStateWins`), `TypeCorrect` | |
| `ConsoleSessionsProofs` | `ExitCodesTrue` (`ExitCodeIsTrue`), `NoChildLost` (`NoneUnmanaged`), `TypeCorrect` | |
| `SelfUpdateProofs` | `NeverPartial` (`NeverOpensPartial`), `AppliesExclude` (`OneApply`), `AlwaysAWayBack` (`WayBack`), `OnlyProvenActive` (`ActiveIsProven`), `NeverBackwards` (`StableMovesForward`), `SuccessReported` (`SuccessIsTrue`), `TypeCorrect` | |

**OplogProofs.** `Sane` says which faults the log is proof against: kills at any step,
failing syncs, failing creations of a segment and fsyncs of its directory, and either power
losses or compaction. It leaves out what really breaks the contract: a `write_all` that
fails part-way (`torn_write`), a directory entry that was never fsynced (`dir_loss`), and
compaction together with power losses. `Orderly` excludes compaction and failing directory
fsyncs, `Gapless` excludes failing directory fsyncs together with power losses; section 4
has what happens otherwise. With any one of the three faults `Sane` leaves out TLC refutes `AnnouncedSurvives` and
`RevsNeverReused`; with compaction alone it refutes `FlushBarrier`, since a compacted
record is no longer anywhere. `AnnouncedSurvives` says nothing of records that wait for
their sync, of the writer's position or of what a roll leaves behind, so `IInv` adds

* of the files: every frame is a record of the history and revs increase along the
  history and along the files (`Sorted`, `AllKnown`, `InOrder`); the last record written is the
  last of some file (`HeadInFile`), which is why a reopen continues with the next rev;
  an announced entry outlives whatever may still happen (`AnnouncedSafe`); without
  compaction no record is missing (`RecordsInFiles`), and when directory fsyncs do not fail
  either, only those of the newest file are unsynced (`UnsyncedInNewest`, `Barrier`);
* of the writer: it is in the newest segment that has frames, with at most the empty file of
  a failed roll above it, its `next_rev` follows the
  history, and each stage of a roll has done what it must (`WriterPlaced`, `Stages`); an
  append not announced yet is safe or in the segment its sync is for (`PendingSafe`);
* of the directory: what `compact` keeps begins with a checkpoint (`Compacting`,
  `NothingUnlinked`).

`ImplementsLogSteps` is the refinement of `DurableLog` as far as `history` and `announced`
go: every step is an `Extend`, an `Announce`, a `Lose` of an unannounced tail, or a stutter.
What the writer has recovered needs the content of the log. `Content` adds

* `Stamped`: a checkpoint of the history holds the fold of the records before it;
* `Complete`: a record of the history is in a file or under a checkpoint that is;
* `StateIs`: the state of an open writer is the fold of the whole history.

A reopen recovers that state from what the files still have, by the fast path from the newest
file that starts with a checkpoint or by the fold of all files. The folds are recursive
functions, and a fact about them is proved for the set of lengths for which it holds.
A segment of any length may be appended to behind an empty newer one, which no fold sees.
Folding file after file, the accumulator is the fold of the history up to here, or a
checkpoint that will replace it is still to come (`Good`): a compaction leaves the files
beginning in the middle of the history, so the left alternative alone is not inductive.
`Refinement` is then `DurableLog`'s specification, the recovered state included.

The tailer's proofs extend the writer's. A reader sees four things of a writer's step
(`Seen`): nothing, a file added behind the others, a frame at the end of the newest file, or
the oldest file gone while a later one starts with a checkpoint. `TailOrder` says where the
cursor may be (`CursorPlaced`), that a file ahead of it is listed or newer than the list
(`ListedInOrder`), that what was got is from the history and increasing, and that every
frame ahead of the cursor is newer than all of it (`GotSorted`, `GotKnown`, `AheadNewer`).
`ExactlyOnce` follows whatever reads fail. For `NoRecordSkipped`, `TailCover` says that
every record was got, itself or in a checkpoint, or can still be reached (`Covered`); while a
poll runs, in a file the poll has still to visit or newer than anything it will get
(`PollCovered`); where files are missing a later one starts with a checkpoint
(`GapsStamped`); and the view is the fold of the history up to the last entry delivered
(`ViewFolded`). With failing reads `PollError` drops entries the cursor has passed, so
`Covered` is false then, and so are the two properties: that is the finding `GapFree`. The
writer beside the tailer is never stopped by a power loss, because such a loss stops the
reader too and the tailer keeps nothing on disk.

**GroupCommitProofs.** A job is followed through call, queue, batch and log. Two jobs are
`Apart` when their ids differ and, for one submitter, the one ahead has the smaller id;
every stage is a chain of such jobs and every stage is ahead of the next (`Pipeline`,
`SendingIsLast`). An ack owed is the one its call waits for (`Owed`), a successful append
is in the log (`AcksLogged`), and a successful sync covers all of it (`Covered`).
`ExitLeavesNothing` adds `Closing`: no call is in progress once the owner has stopped, so the
Shutdown is the last job of the queue and of the batch that takes it, and nothing is written
behind the sync of that batch.

**CommandIntakeProofs.** `AppliedAtMostOnce` is not inductive. `IInv` adds

* `SeenJournalled`: the dedup set holds only journalled tokens;
* `EffectsSeen`: a command with an effect, live or saved, is journalled, and a running
  agent has it in `seen`. It survives a restart because `seen` is reseeded from the
  journal, which had the token before there was an effect;
* `FreshUnapplied`: a connection whose command is still to be applied belongs to a command
  that is seen and has no effect yet. This is the fact that makes `Apply` safe;
* `AcksJournalled`: an `Accepted` decided on, in a socket or with the commander is of a
  journalled command;
* `AtMostOnce`, for the saved state as well, since a restart copies it back.

**BridgeBootProofs.** `LiveIsReachable` alone is not inductive: nothing in it keeps a
second process from binding the socket over a live one. `IInv` adds `LockHeld` (the
processes between `locked` and `dropped` are exactly the holder of the lock, so there is at
most one), `SocketHeld` and `RecordHeld` (socket and record belong to whoever has set them
up and not dropped them since).

**AgentLoopProofs.** For `ExecutedOnce`, a call that has not run has one home (`OneHome`):
the channel, `pendingTools`, the batch or the queue, never two of them and never twice in
one; a call that has run has none. This holds through stops, clears and reloads, so the
theorem does too. For `OneStream`, a turn is in one stage (`OneTurn`): its thread sends, or
a retry is due, or its Done is in and the loop executes, waits or has put off the next
stream; and the handler that runs next still has its reason to run. `OneStream` and
`OwnDone` are claimed, as in the runs, until `broken`.

The conversation needs a second invariant (`Conversation`) on top of `IInv`. `Ledger` balances
it: the calls in the messages are exactly the answered ones and those whose result the batch
(`results`) or the blocked batch (`waiting`) holds, never both, and every answer stands after
its call. It survives a step because a call that has not run is not in the messages yet, and a
replayed one carries an id of its own (`FreshKeys`, `OwnKeys`); because results are held only
while the pipeline executes (`BetweenBatches`), so no batch starts over the results of
another; and because removing an empty assistant message, inserting a user's message before
it or changing a text moves calls and results without reordering them (`SameTalk`). `Watched`
says that a wait whose result is still a sentinel has its watcher or what that returned, also
when the wait was queued and is replayed later. `Ledger` and `Watched` are claimed until
`broken`, the rest always.

**PersistenceWriterProofs.** The steps are first reduced to eleven kinds (`Kinds`): a save
behind the loop's back with what it changes in memory (`Async`), the two synchronous saves,
one operation of either thread, the three ways the thread takes work (`TakeBatch`,
`TakeMessage`, `TakePending`), a step that moves no work (`Quiet`), a kill and a boot. `IInv`
has four layers:

* for good: a body has one uid and only bodies handed over have files (`Bound`); messages
  are sent ahead of a batch (`Behind`); a flush is the last thing sent and what it has
  signalled is done, so an exit whose flushes were answered finds the pipeline empty
  (`Phases`, `Calm`);
* within a life that is not `stale`: a uid names one body and the counter is above all of
  them (`Fresh`), and what was handed over is in its file or on its way (`Arrives`);
* until a flush gives up: the last batch in the channel, else the pending one, else the
  disk with the operations still to come, says what memory says (`Newest`, `Complete`,
  `Settles`). At an exit nothing is on its way, so the disk says it;
* across lives, while nothing was overtaken: `config.json` moves forward along the pipeline
  (`Forwards`); every list names uids below the counter of a `config.json` written before it
  (`Covers`), which is why a boot after a kill draws fresh uids; no other message takes a
  uid that a list still names (`Listings`); and a message arrives before the list that names
  it (`InTime`), ahead of it in its own sequence or in the channel.

The other instance adds a layer of its own. Its files are those of bodies handed over, under
their uids (`GuestBound`), and its config.json is no newer than the disk's when it is written
and first among what it writes (`GuestBehind`). A write of it that changes the owner only
(`Seize`) is one more step the layers survive, and is what all of them are proved to survive
together with this instance's steps (`Step`, `OwnInv`); after any other write the second, third
and fourth layer are given up (`replaced`), but for the forward order of this instance's own
configurations.

The two halves lean on each other: a boot establishes `Fresh` from `Covers`, and a step
keeps `Covers` and `Listings` because the life is `Fresh`. What `Of` (the `filter_map` of
`boot_load_messages`) returns is proved by induction on the length, stated for the set of
lengths for which the claim holds; that form needs no operator parameter.

**ConsoleSessionsProofs.** Whatever shows a key as ended (session, handle, the reaper's
notes) is witnessed by a process of that key that is gone, with the code shown
(`ShownIsTrue`), and whoever names a process names the key it was spawned for (`KeysMatch`).
The tables of the server are of its present life (`OfThisLife`), so the witness of a session
is too. For a handle the witness has to be of the life of the handle's process: a key the
agent has a handle on is not handed out again (`Issued`), so no process of it is of a later
life, or will be (`NamesLatest`), and a session the handle reads its status from is of that
one. `AllManaged` is `NoneUnmanaged` for the processes without a twin (`Sole`).

**SelfUpdateProofs.** `Sound` holds under any schedule of updates: a restoration of auth.db
that was cut short still has its record and its backup, and no marker, so every boot begins
it again, until a copy has failed or a backup was redone (`CopiesWell`); one apply at a time
is past the gate; and what is staged or recorded is ahead of the active release, unless it
was compared with another one. The rest (`Handover`) holds until an update is staged over an
uncommitted one. It is a hand-over: record and `.bak` are written before the binary is
replaced and the marker after it, so a marker belongs to the record and to the binary beside
it (`RecordStaged`, `SwapBesideCopy`, `MarkerMatches`), and the committer promotes what
runs, is installed and has answered (`CommitterHonest`).

### Only model-checked

* All liveness, and with it `EveryCommanderAnswered`, `CallsReturn`, `TurnEnds`,
  `SelfHeals` and the rest: the prover has no rule for fairness.
* `GapFree`, which the run with failing reads refutes.
* Of `BridgeBoot`, the heartbeat.

Every other invariant and action property of the passing runs is a theorem; `PROJECT.json`
lists which theorem states which property.

### What the proofs do not see

The theorems hold of the models and share their limits: the mishaps, twins, replaced files and
faults named above are exceptions because the code does not provide for them, and each is in
the table of section 4 with what TLC finds. Beyond those the models leave out a kill in the
middle of one `fs::write`, what another instance does after its first save
(`PersistenceWriter`), and the parts of section 6.

## 6. Not modelled

Framing and CRC arithmetic (a frame decodes or it does not), wall-clock times and
timeouts (a timeout may happen whenever its wait is not over), the content of messages and
bodies, per-command effects of `apply_command`, and the components with status
`not_modelled` in `PROJECT.json`. Most of the code's lines are in those: request decoding,
SQL, tool implementations over in-memory state, provider wire formats, rendering. They
are sequential, or their only state is a database or a service the models would have to
invent, and a model of them would say little that a unit test does not. Of the modelled
components these parts are left out: the typewriter, token and cost bookkeeping, the todo
continuation, the threads' my-turn nudge, the `Read` call that `maybe_inject_auto_read`
puts in place of the first stream of a turn (`lifecycle.rs:393`), `Queue_undo` and reveries
(`AgentLoop`); the
fields of panels and modules and a kill in the middle of one `fs::write`
(`PersistenceWriter`); input, log files and ring buffers (`ConsoleSessions`); signatures,
the update window, deletion of releases, the web bundle and the break-glass restart
(`SelfUpdate`). `rev` is a `u64` incremented with `wrapping_add`; a log
of 2^64 records is out of reach and the models use the naturals.

## 7. Plan

Order of work, most important first:

1. *(done)* Oplog, replay, compaction and their abstract specification; group commit;
   command intake with its proofs; tailer and view; boot and handover with its proof.
2. *(done)* The agent's main loop; the persistence writer; the console daemon and its
   client; self-update.
3. `Fleet`: registry scan, liveness verdict, supervisor and retire over `BridgeBoot`'s
   folder; the rest of `AgentView`.
4. `SseStream`: cold connect and reconnect of a client over `Tailer`, resync; composed with
   the stream hub's bounded buffers.
5. `BodyStore`, emission order, threads and focus.

Every safety property the passing runs check is a theorem of section 5. Worth proving next:
the modules of the plan as they are written.
