----------------------------- MODULE SelfUpdate -----------------------------
(***************************************************************************)
(* The orchestrator replacing its own binary                               *)
(* (src/crates/cp-orchestrator/src/services/releases).  A running server    *)
(* checks its channel, downloads a release, backs up auth.db, writes a      *)
(* record of the update, copies its binary to .bak, renames the new one     *)
(* over it and leaves a .pending marker that counts boots.  The new binary  *)
(* commits once /healthz answers; if it does not get there the boot guard   *)
(* puts .bak back and the reconciliation restores the database.  The        *)
(* process may be killed between any two of these file operations.          *)
(*                                                                          *)
(* A tag is a number, compared as its semver key is, and it stands for the  *)
(* binary and for the database schema the binary migrates to.  The binary   *)
(* of a Crash tag dies while it boots, that of a Sick tag serves and never  *)
(* answers /healthz with 200; every other one is healthy before the         *)
(* deadline.                                                                *)
(***************************************************************************)
EXTENDS Integers

CONSTANTS MaxTag, Crash, Sick,
          MaxApplies, MaxKills, MaxSwitches

Tags == 1 .. MaxTag
NoTag == 0
Partial == -1       \* a file whose copy was cut short
First == 1          \* the release the box was installed with

ASSUME TagAssumption ==
    /\ MaxTag \in Nat \ {0} /\ Crash \subseteq Tags \ {First} /\ Sick \subseteq Tags \ (Crash \cup {First})
ASSUME BoundsAssumption ==
    /\ MaxApplies \in Nat /\ MaxKills \in Nat /\ MaxSwitches \in Nat

MaxBootAttempts == 2
NoMarker == -1
Appliers == {"rest", "scheduler"}
Channels == {"stable", "nightly"}
Manifests == [version : Tags, channel : Channels, fresh : BOOLEAN, minFrom : {First}]

NoRecord == [from |-> NoTag, to |-> NoTag]
Torn == [from |-> NoTag, to |-> Partial]
Records == [from : Tags \cup {NoTag}, to : Tags]
NoResult == <<"none", NoTag>>

VARIABLES
    install, bak,     \* the binary and its .bak
    marker,           \* .pending: boots attempted
    record,           \* pending-update.json
    db, backup,       \* auth.db, and the auth.db.bak-<tag> files
    downloaded,       \* releases with a directory
    activeTag, channel, pendingSwitch,   \* config.json of the release store
    lastResult,       \* update-state.json
    pc, image,        \* the process: where main is, and which binary it runs
    committer,        \* the step of the start_update_committer thread
    pending,          \* the record as boot_reconcile or promote_committed has read it
    applier, gate,    \* the two ways to apply, and APPLY_IN_FLIGHT
    proven,           \* auxiliary: tags that have answered /healthz
    mishaps,          \* auxiliary: what the code does not provide for and has happened
    applies, kills, switches

disk == <<install, bak, marker, record, db, backup, downloaded, activeTag, lastResult>>
config == <<channel, pendingSwitch>>
process == <<pc, image, committer, pending, applier, gate>>
bounds == <<applies, kills, switches>>
vars == <<disk, config, process, proven, mishaps, bounds>>

Mishaps == {"overlap",        \* an update staged while the one before it is not committed
            "stale_check",    \* an update staged that was compared with another active release
            "backup_redone",  \* an update staged over the backup that a record names
            "copy_failed",    \* fs::copy of the backup over auth.db fails
            "rename_failed"}  \* fs::rename of .bak over the binary fails

Idle == [step |-> "idle", channel |-> "stable", cross |-> FALSE, current |-> NoTag, to |-> NoTag]

Init ==
    /\ install = First /\ bak = NoTag /\ marker = NoMarker /\ record = NoRecord
    /\ db = First /\ backup = [t \in Tags \cup {NoTag} |-> NoTag]
    /\ downloaded = {} /\ activeTag \in {NoTag, First} /\ lastResult = NoResult
    /\ channel = "stable" /\ pendingSwitch = FALSE
    /\ pc = "down" /\ image = First
    /\ committer = "none" /\ pending = NoRecord /\ applier = [a \in Appliers |-> Idle] /\ gate = FALSE
    /\ proven = {First} /\ mishaps = {}
    /\ applies = 0 /\ kills = 0 /\ switches = 0

-----------------------------------------------------------------------------
(* The process image.  Threads, the gate and every local die with it.       *)

Volatile == committer' = "none" /\ pending' = NoRecord /\ applier' = [a \in Appliers |-> Idle] /\ gate' = FALSE

Down == pc' = "down" /\ UNCHANGED image /\ Volatile

(* The service manager, or restart_self, executes the install path; half a  *)
(* binary does not run at all.                                              *)
Exec == IF install = Partial THEN Down ELSE pc' = "check" /\ image' = install /\ Volatile

Respawn == pc = "down" /\ Exec /\ UNCHANGED <<disk, config, proven, mishaps, bounds>>

Kill ==
    /\ pc # "down" /\ kills < MaxKills
    /\ kills' = kills + 1 /\ Down
    /\ UNCHANGED <<disk, config, proven, mishaps, applies, switches>>

Boots(here, there) == pc = here /\ pc' = there /\ UNCHANGED <<image, committer, applier, gate>>
At(here, there) == Boots(here, there) /\ UNCHANGED pending

-----------------------------------------------------------------------------
(* boot_check *)

NothingStaged ==
    /\ At("check", "reconcile") /\ marker = NoMarker
    /\ UNCHANGED <<disk, config, proven, mishaps, bounds>>

(* Mutant: the attempt is not written down. *)
AttemptUncounted ==
    /\ At("check", "reconcile") /\ marker # NoMarker /\ marker + 1 < MaxBootAttempts
    /\ UNCHANGED <<disk, config, proven, mishaps, bounds>>

CountAttempt ==
    /\ At("check", "reconcile") /\ marker # NoMarker /\ marker + 1 < MaxBootAttempts
    /\ marker' = marker + 1
    /\ UNCHANGED <<install, bak, record, db, backup, downloaded, activeTag, lastResult, config, proven, mishaps, bounds>>

RollBack ==
    /\ At("check", "clear") /\ marker # NoMarker /\ marker + 1 >= MaxBootAttempts
    /\ install' = IF bak = NoTag THEN install ELSE bak
    /\ bak' = NoTag
    /\ UNCHANGED <<marker, record, db, backup, downloaded, activeTag, lastResult, config, proven, mishaps, bounds>>

(* The rename fails, and the guard goes on as if it had not. *)
RollBackFails ==
    /\ At("check", "clear") /\ marker # NoMarker /\ marker + 1 >= MaxBootAttempts
    /\ bak # NoTag /\ mishaps' = mishaps \cup {"rename_failed"}
    /\ UNCHANGED <<disk, config, proven, bounds>>

ClearMarker ==
    /\ At("clear", "reconcile") /\ marker' = NoMarker
    /\ UNCHANGED <<install, bak, record, db, backup, downloaded, activeTag, lastResult, config, proven, mishaps, bounds>>

(* boot_reconcile.  The process that rolled the binary back goes on: it is  *)
(* still the image of the release that failed.                              *)
RolledBack == record # NoRecord /\ marker = NoMarker

NothingInFlight ==
    /\ At("reconcile", "open") /\ ~RolledBack
    /\ UNCHANGED <<disk, config, proven, mishaps, bounds>>

UnreadableRecord ==
    /\ At("reconcile", "open") /\ RolledBack /\ record = Torn
    /\ record' = NoRecord
    /\ UNCHANGED <<install, bak, marker, db, backup, downloaded, activeTag, lastResult, config, proven, mishaps, bounds>>

(* Copying the backup over auth.db: begun, then complete. *)
(* Mutant: the record is removed before the database is copied back. *)
ForgetFirst ==
    /\ Boots("reconcile", "restore") /\ RolledBack /\ record # Torn
    /\ pending' = record /\ record' = NoRecord
    /\ db' = IF backup[record.from] = NoTag THEN db ELSE Partial
    /\ UNCHANGED <<install, bak, marker, backup, downloaded, activeTag, lastResult, config, proven, mishaps, bounds>>

BeginRestore ==
    /\ Boots("reconcile", "restore") /\ RolledBack /\ record # Torn
    /\ pending' = record
    /\ db' = IF backup[record.from] = NoTag THEN db ELSE Partial
    /\ UNCHANGED <<install, bak, marker, record, backup, downloaded, activeTag, lastResult, config, proven, mishaps, bounds>>

Restore ==
    /\ At("restore", "unback")
    /\ db' = IF backup[pending.from] = NoTag THEN db ELSE backup[pending.from]
    /\ UNCHANGED <<install, bak, marker, record, backup, downloaded, activeTag, lastResult, config, proven, mishaps, bounds>>

(* The copy fails, before it has touched auth.db or half-way: the backup is *)
(* kept, and the boot goes on to forget the record.                         *)
RestoreFails ==
    /\ backup[record.from] # NoTag /\ mishaps' = mishaps \cup {"copy_failed"}
    /\ \/ At("restore", "forget")
       \/ Boots("reconcile", "forget") /\ RolledBack /\ record # Torn /\ pending' = record
    /\ UNCHANGED <<disk, config, proven, bounds>>

DropBackup ==
    /\ At("unback", "forget") /\ backup' = [backup EXCEPT ![pending.from] = NoTag]
    /\ UNCHANGED <<install, bak, marker, record, db, downloaded, activeTag, lastResult, config, proven, mishaps, bounds>>

(* The record goes first, the report after it. *)
Forget ==
    /\ At("forget", "report") /\ record' = NoRecord
    /\ UNCHANGED <<install, bak, marker, db, backup, downloaded, activeTag, lastResult, config, proven, mishaps, bounds>>

Report ==
    /\ At("report", "open") /\ lastResult' = <<"rolled_back", pending.from>>
    /\ UNCHANGED <<install, bak, marker, record, db, backup, downloaded, activeTag, config, proven, mishaps, bounds>>

(* Runtime::new opens the store, which brings the schema forward, then the  *)
(* committer, the scheduler and the transport start.                        *)
Migrated == IF db # Partial /\ db < image THEN image ELSE db

Open ==
    /\ pc = "open" /\ image \notin Crash
    /\ pc' = "serving" /\ db' = Migrated
    /\ committer' = IF marker = NoMarker THEN "done" ELSE "polling"
    /\ UNCHANGED <<image, pending, applier, gate, install, bak, marker, record, backup, downloaded, activeTag, lastResult,
                   config, proven, mishaps, bounds>>

(* A release that cannot boot dies after the guard: on its configuration,   *)
(* before it opens the store, or once it has migrated it.                   *)
CrashAtBoot ==
    /\ image \in Crash /\ pc \in {"reconcile", "open"} /\ Down
    /\ db' \in IF pc = "open" THEN {db, Migrated} ELSE {db}
    /\ UNCHANGED <<install, bak, marker, record, backup, downloaded, activeTag, lastResult, config, proven, mishaps, bounds>>

-----------------------------------------------------------------------------
(* boot_commit_when_healthy and promote_committed, on the committer thread. *)

CommitsTo(here, there) ==
    /\ pc = "serving" /\ committer = here /\ committer' = there
    /\ UNCHANGED <<pc, image, applier, gate>>
Commits(here, there) == CommitsTo(here, there) /\ UNCHANGED pending

(* Mutant: the binary is blessed for having stayed up. *)
StayedUp ==
    /\ Commits("polling", "unback")
    /\ marker' = NoMarker /\ proven' = proven \cup ({image} \ Sick)
    /\ UNCHANGED <<install, bak, record, db, backup, downloaded, activeTag, lastResult, config, mishaps, bounds>>

Healthy ==
    /\ Commits("polling", "unback") /\ image \notin Sick
    /\ marker' = NoMarker /\ proven' = proven \cup {image}
    /\ UNCHANGED <<install, bak, record, db, backup, downloaded, activeTag, lastResult, config, mishaps, bounds>>

Deadline ==
    /\ Commits("polling", "done") /\ image \in Sick
    /\ UNCHANGED <<disk, config, proven, mishaps, bounds>>

DropBak ==
    /\ Commits("unback", "promote") /\ bak' = NoTag
    /\ UNCHANGED <<install, marker, record, db, backup, downloaded, activeTag, lastResult, config, proven, mishaps, bounds>>

(* The backend lock, held while an update is staged or promoted. *)
Staging == {"backing", "record", "recording", "bak", "copying", "swap", "mark"}
Promoting == {"backup", "record", "result"}
Locked == committer \in Promoting \/ \E a \in Appliers : applier[a].step \in Staging

Selectable == record.to \in downloaded

(* With no record to read, or no such release on the disk, it ends here. *)
Promote ==
    /\ CommitsTo("promote", IF Selectable THEN "backup" ELSE "done") /\ ~Locked
    /\ pending' = IF Selectable THEN record ELSE pending
    /\ activeTag' = IF Selectable THEN record.to ELSE activeTag
    /\ UNCHANGED <<install, bak, marker, record, db, backup, downloaded, lastResult, config, proven, mishaps, bounds>>

PromoteDropBackup ==
    /\ Commits("backup", "record") /\ backup' = [backup EXCEPT ![pending.from] = NoTag]
    /\ UNCHANGED <<install, bak, marker, record, db, downloaded, activeTag, lastResult, config, proven, mishaps, bounds>>

PromoteForget ==
    /\ Commits("record", "result") /\ record' = NoRecord
    /\ UNCHANGED <<install, bak, marker, db, backup, downloaded, activeTag, lastResult, config, proven, mishaps, bounds>>

PromoteReport ==
    /\ Commits("result", "done") /\ lastResult' = <<"success", pending.to>>
    /\ UNCHANGED <<install, bak, marker, record, db, backup, downloaded, activeTag, config, proven, mishaps, bounds>>

-----------------------------------------------------------------------------
(* Mutant: any version but the current one is an update. *)
HeadTracking(m, cur, following, cross) ==
    CASE m.channel # following -> "channel_mismatch"
      [] m.channel = following /\ ~m.fresh -> "expired"
      [] OTHER -> IF m.version = cur THEN "up_to_date" ELSE "available"

(* evaluate_parsed: what a signed manifest means for a box on cur. *)
Evaluate(m, cur, following, cross) ==
    CASE m.channel # following -> "channel_mismatch"
      [] m.channel = following /\ ~m.fresh -> "expired"
      [] OTHER ->
           IF m.version = cur THEN "up_to_date"
           ELSE IF cross \/ following = "nightly" THEN "available"
           ELSE IF m.version < cur THEN "rollback"
           ELSE IF cur < m.minFrom THEN "too_old"
           ELSE "available"

(* current_version *)
Current == IF activeTag = NoTag THEN image ELSE activeTag

Applies(a, here, there) ==
    /\ pc = "serving" /\ applier[a].step = here
    /\ applier' = [applier EXCEPT ![a].step = there]
    /\ UNCHANGED <<pc, image, committer, pending>>

(* update_apply, update_check and the scheduler's tick read the             *)
(* configuration, then fetch the manifest without a lock, whether or not    *)
(* the running binary is still on probation.                                *)
Start(a) ==
    /\ pc = "serving" /\ applier[a] = Idle /\ applies < MaxApplies
    /\ applies' = applies + 1
    /\ applier' = [applier EXCEPT ![a] =
                      [step |-> "check", channel |-> channel, cross |-> pendingSwitch, current |-> Current, to |-> NoTag]]
    /\ UNCHANGED <<pc, image, committer, pending, gate, disk, config, proven, mishaps, kills, switches>>

Verdict(a, m) == Evaluate(m, applier[a].current, applier[a].channel, applier[a].cross)

(* A verified answer retires the crossgrade flag, an error keeps it. *)
CheckFails(a, m) ==
    /\ pc = "serving" /\ applier[a].step = "check"
    /\ Verdict(a, m) \notin {"up_to_date", "available"}
    /\ applier' = [applier EXCEPT ![a] = Idle]
    /\ UNCHANGED <<pc, image, committer, pending, gate, disk, config, proven, mishaps, bounds>>

UpToDate(a, m) ==
    /\ pc = "serving" /\ applier[a].step = "check" /\ Verdict(a, m) = "up_to_date"
    /\ applier' = [applier EXCEPT ![a] = Idle] /\ pendingSwitch' = FALSE
    /\ UNCHANGED <<pc, image, committer, pending, gate, disk, channel, proven, mishaps, bounds>>

(* Available: applied, or only shown (a check, manual mode, no window). *)
Available(a, m) ==
    /\ pc = "serving" /\ applier[a].step = "check" /\ Verdict(a, m) = "available"
    /\ pendingSwitch' = FALSE
    /\ \/ applier' = [applier EXCEPT ![a].step = "gate", ![a].to = m.version]
       \/ applier' = [applier EXCEPT ![a] = Idle]
    /\ UNCHANGED <<pc, image, committer, pending, gate, disk, channel, proven, mishaps, bounds>>

InFlight(a) ==
    /\ pc = "serving" /\ applier[a].step = "gate" /\ gate
    /\ applier' = [applier EXCEPT ![a] = Idle]
    /\ UNCHANGED <<pc, image, committer, pending, gate, disk, config, proven, mishaps, bounds>>

TakeGate(a) ==
    /\ Applies(a, "gate", "download") /\ ~gate /\ gate' = TRUE
    /\ UNCHANGED <<disk, config, proven, mishaps, bounds>>

Download(a) ==
    /\ Applies(a, "download", "stage") /\ downloaded' = downloaded \cup {applier[a].to}
    /\ UNCHANGED <<gate, install, bak, marker, record, db, backup, activeTag, lastResult, config, proven, mishaps, bounds>>

(* stage_apply and stage_orchestrator_update, one file operation a step.    *)
(* They do not ask what has become of the update before this one.           *)
NotAskedFor(a) ==
    {m \in Mishaps : \/ m = "overlap" /\ (committer # "done" \/ marker # NoMarker)
                     \/ m = "stale_check" /\ applier[a].current # Current
                     \/ m = "backup_redone" /\ record \in Records /\ record.from = activeTag}

StageBegin(a) ==
    /\ Applies(a, "stage", "backing") /\ ~Locked
    /\ backup' = [backup EXCEPT ![activeTag] = Partial]
    /\ mishaps' = mishaps \cup NotAskedFor(a)
    /\ UNCHANGED <<gate, install, bak, marker, record, db, downloaded, activeTag, lastResult, config, proven, bounds>>

StageBackup(a) ==
    /\ Applies(a, "backing", "record")
    /\ backup' = [backup EXCEPT ![activeTag] = db]
    /\ UNCHANGED <<gate, install, bak, marker, record, db, downloaded, activeTag, lastResult, config, proven, mishaps, bounds>>

StageRecord(a) ==
    /\ \/ Applies(a, "record", "recording") /\ record' = Torn
       \/ Applies(a, "recording", "bak") /\ record' = [from |-> activeTag, to |-> applier[a].to]
    /\ UNCHANGED <<gate, install, bak, marker, db, backup, downloaded, activeTag, lastResult, config, proven, mishaps, bounds>>

(* Mutant: the release, not the running binary, is what is backed up. *)
BackUpSource(a) ==
    /\ \/ Applies(a, "bak", "copying") /\ bak' = Partial
       \/ Applies(a, "copying", "swap") /\ bak' = applier[a].to
    /\ UNCHANGED <<gate, install, marker, record, db, backup, downloaded, activeTag, lastResult, config, proven, mishaps, bounds>>

StageBak(a) ==
    /\ \/ Applies(a, "bak", "copying") /\ bak' = Partial
       \/ Applies(a, "copying", "swap") /\ bak' = install
    /\ UNCHANGED <<gate, install, marker, record, db, backup, downloaded, activeTag, lastResult, config, proven, mishaps, bounds>>

StageSwap(a) ==
    /\ Applies(a, "swap", "mark") /\ install' = applier[a].to
    /\ UNCHANGED <<gate, bak, marker, record, db, backup, downloaded, activeTag, lastResult, config, proven, mishaps, bounds>>

(* The result of writing the marker is not looked at. *)
StageMarker(a) ==
    /\ Applies(a, "mark", "restart") /\ marker' \in {0, marker}
    /\ UNCHANGED <<gate, install, bak, record, db, backup, downloaded, activeTag, lastResult, config, proven, mishaps, bounds>>

(* Any step of the pipeline fails: the gate is released.  Only a failure    *)
(* of stage_orchestrator_update removes the record.                         *)
ApplyFails(a) ==
    /\ pc = "serving" /\ applier[a].step \in {"download", "stage", "backing", "recording", "bak", "copying", "swap"}
    /\ applier' = [applier EXCEPT ![a] = Idle] /\ gate' = FALSE
    /\ record' = IF applier[a].step \in {"bak", "copying", "swap"} THEN NoRecord ELSE record
    /\ UNCHANGED <<pc, image, committer, pending, install, bak, marker, db, backup, downloaded, activeTag, lastResult,
                   config, proven, mishaps, bounds>>

(* restart_self *)
RestartSelf(a) ==
    /\ pc = "serving" /\ applier[a].step = "restart" /\ Exec
    /\ UNCHANGED <<disk, config, proven, mishaps, bounds>>

(* set_channel *)
SetChannel(c) ==
    /\ pc = "serving" /\ ~Locked /\ switches < MaxSwitches /\ channel # c
    /\ channel' = c /\ pendingSwitch' = TRUE /\ switches' = switches + 1
    /\ UNCHANGED <<disk, process, proven, mishaps, applies, kills>>

-----------------------------------------------------------------------------
BootStep ==
    \/ NothingStaged \/ CountAttempt \/ RollBack \/ RollBackFails \/ ClearMarker
    \/ NothingInFlight \/ UnreadableRecord \/ BeginRestore \/ Restore \/ RestoreFails \/ DropBackup \/ Forget \/ Report
    \/ Open \/ CrashAtBoot

CommitStep ==
    \/ Healthy \/ Deadline \/ DropBak \/ Promote
    \/ PromoteDropBackup \/ PromoteForget \/ PromoteReport

ApplyStep(a) ==
    \/ \E m \in Manifests : CheckFails(a, m) \/ UpToDate(a, m) \/ Available(a, m)
    \/ InFlight(a) \/ TakeGate(a) \/ Download(a)
    \/ StageBegin(a) \/ StageBackup(a) \/ StageRecord(a) \/ StageBak(a) \/ StageSwap(a) \/ StageMarker(a)
    \/ ApplyFails(a) \/ RestartSelf(a)

Next ==
    \/ Respawn \/ Kill \/ BootStep \/ CommitStep
    \/ \E a \in Appliers : Start(a) \/ ApplyStep(a)
    \/ \E c \in Channels : SetChannel(c)

(* The service manager respawns, and a thread that can run does. *)
Fairness ==
    /\ WF_vars(Respawn) /\ WF_vars(BootStep) /\ WF_vars(CommitStep)
    /\ \A a \in Appliers : WF_vars(ApplyStep(a))

Spec == Init /\ [][Next]_vars /\ Fairness

-----------------------------------------------------------------------------
Binaries == Tags \cup {Partial}
ApplySteps == {"idle", "check", "gate", "download", "stage", "restart"} \cup Staging
ApplierStates == [step : ApplySteps,
                  channel : Channels, cross : BOOLEAN, current : Tags \cup {NoTag}, to : Tags \cup {NoTag}]

TypeOK ==
    /\ install \in Binaries /\ bak \in Binaries \cup {NoTag}
    /\ marker \in {NoMarker} \cup 0 .. MaxBootAttempts - 1
    /\ record \in Records \cup {NoRecord, Torn}
    /\ db \in Binaries /\ backup \in [Tags \cup {NoTag} -> Binaries \cup {NoTag}]
    /\ downloaded \subseteq Tags /\ activeTag \in Tags \cup {NoTag}
    /\ lastResult \in {"none", "success", "rolled_back"} \X (Tags \cup {NoTag})
    /\ channel \in Channels /\ pendingSwitch \in BOOLEAN
    /\ pc \in {"down", "check", "clear", "reconcile", "restore", "unback", "forget", "report", "open", "serving"}
    /\ image \in Tags /\ proven \subseteq Tags /\ mishaps \subseteq Mishaps /\ gate \in BOOLEAN
    /\ committer \in {"none", "polling", "unback", "promote", "done"} \cup Promoting
    /\ pending \in Records \cup {NoRecord}
    /\ applier \in [Appliers -> ApplierStates]
    /\ applies \in Nat /\ kills \in Nat /\ switches \in Nat

(* "never leaving the box unbootable": while a release that cannot boot, or *)
(* half a binary, is installed, a complete one that can lies beside it,     *)
(* wherever the process was killed, the staging failed or the rollback did. *)
(* An update staged over one that is not committed voids this: its .bak is  *)
(* a copy of a release nobody has proven, which the committer then removes. *)
WayBack == install \in Crash \cup {Partial} /\ "overlap" \notin mishaps => bak \in Tags \ Crash

(* "nothing is promoted until the new binary proves healthy": the agents'  *)
(* release is one whose orchestrator has answered /healthz - unless an      *)
(* update was staged over it, whose record its committer then reads.        *)
ActiveIsProven == "overlap" \notin mishaps => activeTag \in proven \cup {NoTag}

(* No binary opens a database whose restoration was cut short by a kill; an *)
(* agent server that cannot open it would serve without authentication.  A  *)
(* copy that fails (apply.rs:189 only logs it), and a backup that was being *)
(* overwritten when its old record came to be used, do let one through.     *)
NeverOpensPartial ==
    pc \in {"open", "serving"} /\ mishaps \cap {"copy_failed", "backup_redone"} = {} => db # Partial

(* What the update pane shows: success is reported only of the release      *)
(* that is installed and running, and has proven itself.                    *)
SuccessIsTrue ==
    [][lastResult' # lastResult /\ lastResult'[1] = "success" /\ "overlap" \notin mishaps =>
           LET t == lastResult'[2] IN t = install /\ t = image /\ t = activeTag /\ t \in proven]_vars

(* Anti-rollback: on a box whose channel was never switched the release     *)
(* only moves forward, also past failed, repeated and overlapping updates.  *)
(* What a check compared a manifest with may since have been promoted: such *)
(* an update can lead back.                                                 *)
StableMovesForward ==
    [][switches = 0 /\ "stale_check" \notin mishaps /\ activeTag' # activeTag => activeTag' > activeTag]_vars

(* "a bad update self-heals instead of bricking the box": once the marker   *)
(* of an update is down, a binary that boots comes to serve - if the one    *)
(* rename the rollback consists of works, and no second update was staged   *)
(* over it.                                                                 *)
SelfHeals ==
    (marker # NoMarker) ~>
        ((pc = "serving" /\ image \notin Crash) \/ mishaps \cap {"overlap", "rename_failed"} # {})

(* The gate is not left taken: a second apply is refused only while one is  *)
(* really under way.                                                        *)
GateIsReleased == gate ~> ~gate
=============================================================================
