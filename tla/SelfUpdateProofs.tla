-------------------------- MODULE SelfUpdateProofs --------------------------
(***************************************************************************)
(* Self-update for any releases, any of them crashing or sick, and any      *)
(* number of applies, kills and channel switches.                           *)
(*                                                                          *)
(* Sound holds whatever the schedule: the restoration of auth.db that a     *)
(* kill cuts short is resumed until it is complete, one apply at a time is  *)
(* past the gate, and no record leads back.  The way back, the promotion of *)
(* proven releases and what is reported hold until an update is staged over *)
(* one that is not committed (Orderly); after that TLC refutes them on the  *)
(* instance of MCSelfUpdate.  Their argument is a hand-over: the apply that *)
(* holds the gate writes the record and the .bak before it replaces the     *)
(* binary, and the marker after it, so that a marker always belongs to the  *)
(* record and to the binary beside it.                                      *)
(***************************************************************************)
EXTENDS SelfUpdate, TLAPS

Steps(a) == applier[a].step
PastGate == {"download", "stage", "restart"} \cup Staging

-----------------------------------------------------------------------------
(* The database and the direction, under any schedule of updates *)

(* No copy over auth.db failed, and none is made from a backup that was     *)
(* being overwritten.                                                       *)
CopiesWell == mishaps \cap {"copy_failed", "backup_redone"} = {}

(* A restoration that was cut short is begun again at every boot: its      *)
(* record and the backup it copies are still there, and no marker is.      *)
RestoreIsResumed ==
    CopiesWell /\ db = Partial =>
        /\ record \in Records /\ marker = NoMarker /\ backup[record.from] # NoTag
        /\ pc \in {"down", "check", "reconcile", "restore"}
RestoreReadsRecord == pc = "restore" => pending = record /\ record \in Records
RestoredFrom == pc \in {"unback", "forget", "report"} => pending \in Records
Stages == \A a \in Appliers : Steps(a) \in {"gate", "download", "stage"} \cup Staging => applier[a].to \in Tags

(* The backup a record names is complete, or not there any more.           *)
RecordBackup ==
    CopiesWell =>
        /\ record \in Records => backup[record.from] # Partial
        /\ \A a \in Appliers :
              /\ Steps(a) = "backing" => record \notin Records \/ record.from # activeTag
              /\ Steps(a) \in {"record", "recording"} => backup[activeTag] # Partial

(* One apply at a time is past the gate. *)
OneApply ==
    \A a \in Appliers : Steps(a) \in PastGate =>
        gate /\ \A b \in Appliers : Steps(b) \in PastGate => a = b

(* On a box that never switched channels what is offered is ahead of the   *)
(* release it was compared with; what is staged, and the record of it, is  *)
(* ahead of the active one, if that is the release it was compared with.   *)
NeverSwitched == switches = 0 => channel = "stable" /\ pendingSwitch = FALSE
ChecksForward ==
    switches = 0 => \A a \in Appliers : Steps(a) # "idle" =>
        /\ applier[a].channel = "stable" /\ applier[a].cross = FALSE
        /\ Steps(a) # "check" => applier[a].to > applier[a].current
OnCourse == switches = 0 /\ "stale_check" \notin mishaps
StagesForward == OnCourse => \A a \in Appliers : Steps(a) \in Staging => applier[a].to > activeTag
RecordForward == OnCourse /\ record \in Records => record.to >= activeTag

Sound ==
    /\ TypeOK /\ RestoreIsResumed /\ RestoreReadsRecord /\ RestoredFrom /\ RecordBackup /\ Stages /\ OneApply
    /\ NeverSwitched /\ ChecksForward /\ StagesForward /\ RecordForward

-----------------------------------------------------------------------------
(* The binary, as long as no update is staged over an uncommitted one *)

Orderly == "overlap" \notin mishaps

(* Nothing but a serving process stages, with the update before committed, *)
(* and the marker is written last, just before the restart.                *)
StagesWhenSettled ==
    \A a \in Appliers : Steps(a) \in Staging \cup {"restart"} =>
        /\ pc = "serving" /\ committer = "done"
        /\ marker = NoMarker \/ \E b \in Appliers : Steps(b) = "restart"

(* What is installed is a whole binary. *)
InstallWhole == install \in Tags

(* The binary that would boot can, or the gate's holder has just installed *)
(* it beside a copy of one that can.                                       *)
Swapped == \E a \in Appliers : Steps(a) \in {"mark", "restart"}
BakBoots == bak \notin Crash
InstallBoots ==
    /\ pc = "check" => install = image
    /\ pc \in {"check", "clear", "reconcile", "restore", "unback", "forget", "report", "open"} =>
           install = image \/ install \notin Crash
    /\ pc = "serving" /\ ~Swapped => install \notin Crash
    /\ pc = "serving" => image \notin Crash
SwapBesideCopy ==
    \A a \in Appliers :
        /\ Steps(a) = "swap" => bak = install
        /\ Steps(a) \in {"mark", "restart"} => install = applier[a].to /\ bak # Partial

(* The staged record names the release being installed. *)
RecordStaged ==
    \A a \in Appliers :
        Steps(a) \in {"bak", "copying", "swap", "mark", "restart"} =>
            record = [from |-> activeTag, to |-> applier[a].to]

(* A marker belongs to the record and to a complete .bak; until the guard  *)
(* has rolled back it belongs to the installed binary too.                 *)
MarkerMatches ==
    marker # NoMarker =>
        /\ record \in Records /\ bak # Partial
        /\ marker = 0 => record.to = install
        /\ pc \notin {"restore", "unback", "forget", "report"}
        /\ pc \in {"reconcile", "open"} => record.to = install /\ image = install
        /\ pc = "serving" /\ ~Swapped => record.to = install /\ image = install

(* The committer promotes the running release, which has proven itself.    *)
CommitterHonest ==
    /\ committer # "none" => pc = "serving"
    /\ committer = "polling" => marker # NoMarker
    /\ committer \in {"unback", "promote"} \cup Promoting => marker = NoMarker
    /\ committer \in {"unback", "promote"} =>
           image \in proven /\ image = install /\ record \in Records /\ record.to = image
    /\ committer \in Promoting =>
           pending \in Records /\ image \in proven /\ image = install /\ pending.to = image /\ activeTag = image

Handover ==
    /\ StagesWhenSettled /\ InstallWhole /\ BakBoots /\ InstallBoots /\ SwapBesideCopy
    /\ RecordStaged /\ MarkerMatches /\ CommitterHonest /\ ActiveIsProven /\ WayBack

IInv == Sound /\ (Orderly => Handover)

-----------------------------------------------------------------------------
(* Sound is inductive *)

LEMMA TagFacts ==
    /\ First \in Tags /\ NoTag \notin Tags /\ Partial \notin Tags /\ NoTag # Partial /\ Tags \subseteq Nat
    /\ Idle \in ApplierStates
    /\ NoRecord \notin Records /\ Torn \notin Records /\ NoRecord # Torn
    /\ \A r \in Records \cup {NoRecord} : r.from \in Tags \cup {NoTag} /\ r.to \in Tags \cup {NoTag}
    /\ \A r \in Records \cup {NoRecord, Torn} : r.to \in Tags => r \in Records
    /\ \A r \in Records : r.to \in Tags
BY TagAssumption
   DEF Tags, First, NoTag, Partial, Idle, ApplierStates, Channels, ApplySteps, Staging, NoRecord, Torn, Records

LEMMA InitSound == Init => Sound
<1> SUFFICES ASSUME Init PROVE Sound
  OBVIOUS
<1>1. applier \in [Appliers -> ApplierStates] /\ \A a \in Appliers : Steps(a) = "idle"
  BY TagFacts DEF Init, Idle, Steps
<1>2. lastResult \in {"none", "success", "rolled_back"} \X (Tags \cup {NoTag})
  BY DEF Init, NoResult
<1>3. TypeOK
  BY <1>1, <1>2, TagFacts DEF Init, TypeOK, Binaries, NoMarker, Channels, Promoting
<1>4. Stages
  BY <1>1 DEF Stages, Staging
<1>5. RecordBackup /\ OneApply /\ ChecksForward /\ StagesForward
  BY <1>1, TagFacts DEF Init, RecordBackup, OneApply, ChecksForward, StagesForward, PastGate, Staging
<1>6. NeverSwitched /\ RecordForward
  BY TagFacts DEF Init, NeverSwitched, RecordForward
<1> QED BY <1>3, <1>4, <1>5, <1>6, TagFacts DEF Init, Sound, RestoreIsResumed, RestoreReadsRecord, RestoredFrom

(* What a step along the pipeline does to its own apply and to the other. *)
Moved(a, here, there) ==
    /\ pc = "serving" /\ applier[a].step = here /\ applier'[a].step = there
    /\ applier'[a].to = applier[a].to /\ applier'[a].current = applier[a].current
    /\ applier'[a].channel = applier[a].channel /\ applier'[a].cross = applier[a].cross
    /\ \A b \in Appliers : b # a => applier'[b] = applier[b]
    /\ UNCHANGED <<pc, image, committer, pending>>

LEMMA AppliesMoves ==
    ASSUME TypeOK, NEW a \in Appliers, NEW here, NEW there \in ApplySteps, Applies(a, here, there)
    PROVE  Moved(a, here, there) /\ applier' \in [Appliers -> ApplierStates]
BY DEF TypeOK, ApplierStates, Applies, Moved

LEMMA ToIdle ==
    ASSUME TypeOK, NEW a \in Appliers, applier' = [applier EXCEPT ![a] = Idle]
    PROVE  /\ applier' \in [Appliers -> ApplierStates]
           /\ applier'[a].step = "idle"
           /\ \A b \in Appliers : b # a => applier'[b] = applier[b]
BY TagFacts DEF TypeOK, Idle

LEMMA AllIdle ==
    ASSUME applier' = [a \in Appliers |-> Idle]
    PROVE  /\ applier' \in [Appliers -> ApplierStates]
           /\ \A a \in Appliers : applier'[a].step = "idle"
BY TagFacts DEF Idle

LEMMA PipelineMoves ==
    ASSUME TypeOK, NEW a \in Appliers
    PROVE  /\ TakeGate(a) => Moved(a, "gate", "download")
           /\ Download(a) => Moved(a, "download", "stage")
           /\ StageBegin(a) => Moved(a, "stage", "backing")
           /\ StageBackup(a) => Moved(a, "backing", "record")
           /\ StageRecord(a) => \/ Moved(a, "record", "recording") /\ record' = Torn
                                \/ Moved(a, "recording", "bak") /\ record' = [from |-> activeTag, to |-> applier[a].to]
           /\ StageBak(a) => \/ Moved(a, "bak", "copying") /\ bak' = Partial
                             \/ Moved(a, "copying", "swap") /\ bak' = install
           /\ StageSwap(a) => Moved(a, "swap", "mark")
           /\ StageMarker(a) => Moved(a, "mark", "restart")
<1> USE DEF ApplySteps, Staging
<1>1. TakeGate(a) => Moved(a, "gate", "download")
  BY AppliesMoves DEF TakeGate
<1>2. Download(a) => Moved(a, "download", "stage")
  BY AppliesMoves DEF Download
<1>8. StageBegin(a) => Moved(a, "stage", "backing")
  BY AppliesMoves DEF StageBegin
<1>3. StageBackup(a) => Moved(a, "backing", "record")
  BY AppliesMoves DEF StageBackup
<1>4. StageRecord(a) => \/ Moved(a, "record", "recording") /\ record' = Torn
                        \/ Moved(a, "recording", "bak") /\ record' = [from |-> activeTag, to |-> applier[a].to]
  BY AppliesMoves DEF StageRecord
<1>5. StageBak(a) => \/ Moved(a, "bak", "copying") /\ bak' = Partial
                     \/ Moved(a, "copying", "swap") /\ bak' = install
  BY AppliesMoves DEF StageBak
<1>6. StageSwap(a) => Moved(a, "swap", "mark")
  BY AppliesMoves DEF StageSwap
<1>7. StageMarker(a) => Moved(a, "mark", "restart")
  BY AppliesMoves DEF StageMarker
<1> QED BY <1>1, <1>2, <1>3, <1>4, <1>5, <1>6, <1>7, <1>8

(* An apply begins by reading the configuration, and is offered a release. *)
LEMMA StartFacts ==
    ASSUME TypeOK, NEW a \in Appliers, Start(a)
    PROVE  /\ applier[a].step = "idle" /\ applier'[a].step = "check"
           /\ applier'[a].channel = channel /\ applier'[a].cross = pendingSwitch /\ applier'[a].current = Current
           /\ \A b \in Appliers : b # a => applier'[b] = applier[b]
BY DEF TypeOK, ApplierStates, Start, Idle

LEMMA AvailableFacts ==
    ASSUME TypeOK, NEW a \in Appliers, NEW m \in Manifests, Available(a, m)
    PROVE  /\ \/ applier'[a].step = "idle"
              \/ /\ applier'[a].step = "gate" /\ applier'[a].to = m.version /\ m.version \in Tags
                 /\ applier'[a].current = applier[a].current
                 /\ applier'[a].channel = applier[a].channel /\ applier'[a].cross = applier[a].cross
           /\ \A b \in Appliers : b # a => applier'[b] = applier[b]
<1>1. applier \in [Appliers -> ApplierStates] /\ m.version \in Tags
  BY DEF TypeOK, Manifests
<1>2. CASE applier' = [applier EXCEPT ![a].step = "gate", ![a].to = m.version]
  BY <1>1, <1>2 DEF ApplierStates
<1>3. CASE applier' = [applier EXCEPT ![a] = Idle]
  BY <1>3, ToIdle
<1> QED BY <1>2, <1>3 DEF Available

LEMMA NextTypeOK == Sound /\ [Next]_vars => TypeOK'
<1> SUFFICES ASSUME TypeOK, Stages, RestoreIsResumed, [Next]_vars PROVE TypeOK'
  BY DEF Sound
<1> USE TagFacts DEF Binaries, NoMarker, Promoting
<1>1. CASE Respawn
  <2>1. applier' \in [Appliers -> ApplierStates]
    BY <1>1, AllIdle DEF Respawn, Exec, Down, Volatile
  <2> QED BY <1>1, <2>1 DEF TypeOK, Respawn, Exec, Down, Volatile, disk, config, bounds
<1>2. CASE Kill
  <2>1. applier' \in [Appliers -> ApplierStates]
    BY <1>2, AllIdle DEF Kill, Down, Volatile
  <2>2. /\ pc' = "down" /\ committer' = "none" /\ pending' = NoRecord
        /\ UNCHANGED <<disk, config, image, proven, mishaps, applies, switches>>
    BY <1>2 DEF Kill, Down, Volatile
  <2>3. gate' \in BOOLEAN
    BY <1>2 DEF Kill, Down, Volatile
  <2>4. kills' = kills + 1 /\ kills \in Nat
    BY <1>2, Zenon DEF TypeOK, Kill
  <2>5. kills' \in Nat
    BY <2>4
  <2> QED BY <2>1, <2>2, <2>3, <2>5 DEF TypeOK, disk, config
<1>3. CASE NothingStaged
  BY <1>3 DEF NothingStaged, At, Boots, disk, config, bounds, TypeOK
<1>4. CASE CountAttempt
  BY <1>4 DEF CountAttempt, At, Boots, config, bounds, MaxBootAttempts, TypeOK
<1>5. CASE RollBack
  BY <1>5 DEF RollBack, At, Boots, config, bounds, TypeOK
<1>6. CASE ClearMarker
  BY <1>6 DEF ClearMarker, At, Boots, config, bounds, TypeOK
<1>7. CASE NothingInFlight
  BY <1>7 DEF NothingInFlight, At, Boots, disk, config, bounds, RolledBack, TypeOK
<1>8. CASE UnreadableRecord
  BY <1>8 DEF UnreadableRecord, At, Boots, config, bounds, RolledBack, TypeOK
<1>9. CASE BeginRestore
  BY <1>9 DEF BeginRestore, Boots, config, bounds, RolledBack, TypeOK
<1>10. CASE Restore
  BY <1>10 DEF Restore, At, Boots, config, bounds, TypeOK
<1>11. CASE DropBackup
  BY <1>11 DEF DropBackup, At, Boots, config, bounds, TypeOK
<1>12. CASE Forget
  BY <1>12 DEF Forget, At, Boots, config, bounds, TypeOK
<1>13. CASE Report
  BY <1>13 DEF Report, At, Boots, config, bounds, TypeOK
<1>14. CASE Open
  BY <1>14 DEF Open, config, bounds, Migrated, TypeOK
<1>15. CASE CrashAtBoot
  <2>1. applier' \in [Appliers -> ApplierStates]
    BY <1>15, AllIdle DEF CrashAtBoot, Down, Volatile
  <2> QED BY <1>15, <2>1 DEF TypeOK, CrashAtBoot, Down, Volatile, config, bounds, Migrated
<1>16. CASE Healthy
  BY <1>16 DEF Healthy, Commits, CommitsTo, config, bounds, TypeOK
<1>17. CASE Deadline
  BY <1>17 DEF Deadline, Commits, CommitsTo, disk, config, bounds, TypeOK
<1>18. CASE DropBak
  BY <1>18 DEF DropBak, Commits, CommitsTo, config, bounds, TypeOK
<1>19. CASE Promote
  <2>1. CASE Selectable
    <3>1. record \in Records /\ record.to \in Tags
      BY <2>1 DEF Selectable, TypeOK
    <3> QED BY <1>19, <2>1, <3>1 DEF Promote, CommitsTo, config, bounds, TypeOK
  <2>2. CASE ~Selectable
    BY <1>19, <2>2 DEF Promote, CommitsTo, config, bounds, TypeOK
  <2> QED BY <2>1, <2>2
<1>20. CASE PromoteDropBackup
  BY <1>20 DEF PromoteDropBackup, Commits, CommitsTo, config, bounds, TypeOK
<1>21. CASE PromoteForget
  BY <1>21 DEF PromoteForget, Commits, CommitsTo, config, bounds, TypeOK
<1>22. CASE PromoteReport
  <2>1. lastResult' \in {"none", "success", "rolled_back"} \X (Tags \cup {NoTag})
    BY <1>22 DEF PromoteReport, TypeOK
  <2> QED BY <1>22, <2>1 DEF PromoteReport, Commits, CommitsTo, config, bounds, TypeOK
<1>23. ASSUME NEW a \in Appliers, InFlight(a) PROVE TypeOK'
  <2>1. applier' \in [Appliers -> ApplierStates]
    BY <1>23, ToIdle DEF InFlight
  <2> QED BY <1>23, <2>1 DEF TypeOK, InFlight, disk, config, bounds
<1>24. ASSUME NEW a \in Appliers, TakeGate(a) PROVE TypeOK'
  <2>1. applier' \in [Appliers -> ApplierStates]
    BY <1>24, AppliesMoves DEF TakeGate, ApplySteps, Staging
  <2> QED BY <1>24, <2>1 DEF TypeOK, TakeGate, Applies, disk, config, bounds
<1>25. ASSUME NEW a \in Appliers, Download(a) PROVE TypeOK'
  <2>1. applier' \in [Appliers -> ApplierStates]
    BY <1>25, AppliesMoves DEF Download, ApplySteps, Staging
  <2>2. downloaded' \subseteq Tags
    BY <1>25 DEF Download, Applies, Stages, Steps, Staging, TypeOK
  <2>3. UNCHANGED <<pc, image, committer, pending, gate,
                    install, bak, marker, record, db, backup, activeTag, lastResult, config, proven, mishaps, bounds>>
    BY <1>25 DEF Download, Applies
  <2> QED BY <2>1, <2>2, <2>3 DEF TypeOK, disk, config, bounds
<1>26. ASSUME NEW a \in Appliers, StageBackup(a) PROVE TypeOK'
  <2>1. applier' \in [Appliers -> ApplierStates]
    BY <1>26, AppliesMoves DEF StageBackup, ApplySteps, Staging
  <2>2. backup' \in [Tags \cup {NoTag} -> Binaries \cup {NoTag}]
    BY <1>26 DEF StageBackup, TypeOK
  <2>3. UNCHANGED <<pc, image, committer, pending, gate,
                    install, bak, marker, record, db, downloaded, activeTag, lastResult, config, proven, mishaps, bounds>>
    BY <1>26 DEF StageBackup, Applies
  <2> QED BY <2>1, <2>2, <2>3 DEF TypeOK, disk, config, bounds
<1>27. ASSUME NEW a \in Appliers, StageRecord(a) PROVE TypeOK'
  <2>1. applier' \in [Appliers -> ApplierStates]
    BY <1>27, AppliesMoves DEF StageRecord, ApplySteps, Staging
  <2>2. record' \in Records \cup {NoRecord, Torn}
    BY <1>27 DEF StageRecord, Applies, Stages, Steps, Staging, Records, TypeOK
  <2>3. UNCHANGED <<pc, image, committer, pending, gate,
                    install, bak, marker, db, backup, downloaded, activeTag, lastResult, config, proven, mishaps, bounds>>
    BY <1>27 DEF StageRecord, Applies
  <2> QED BY <2>1, <2>2, <2>3 DEF TypeOK, disk, config, bounds
<1>28. ASSUME NEW a \in Appliers, StageBak(a) PROVE TypeOK'
  <2>1. applier' \in [Appliers -> ApplierStates]
    BY <1>28, AppliesMoves DEF StageBak, ApplySteps, Staging
  <2> QED BY <1>28, <2>1 DEF TypeOK, StageBak, Applies, config, bounds
<1>29. ASSUME NEW a \in Appliers, StageSwap(a) PROVE TypeOK'
  <2>1. applier' \in [Appliers -> ApplierStates]
    BY <1>29, AppliesMoves DEF StageSwap, ApplySteps, Staging
  <2>2. install' \in Binaries
    BY <1>29 DEF StageSwap, Applies, Stages, Steps, Staging, TypeOK
  <2>3. UNCHANGED <<pc, image, committer, pending, gate,
                    bak, marker, record, db, backup, downloaded, activeTag, lastResult, config, proven, mishaps, bounds>>
    BY <1>29 DEF StageSwap, Applies
  <2> QED BY <2>1, <2>2, <2>3 DEF TypeOK, disk, config, bounds
<1>30. ASSUME NEW a \in Appliers, StageMarker(a) PROVE TypeOK'
  <2>1. applier' \in [Appliers -> ApplierStates]
    BY <1>30, AppliesMoves DEF StageMarker, ApplySteps, Staging
  <2>2. marker' \in {NoMarker} \cup 0 .. MaxBootAttempts - 1
    BY <1>30 DEF StageMarker, MaxBootAttempts, TypeOK
  <2>3. UNCHANGED <<pc, image, committer, pending, gate,
                    install, bak, record, db, backup, downloaded, activeTag, lastResult, config, proven, mishaps, bounds>>
    BY <1>30 DEF StageMarker, Applies
  <2> QED BY <2>1, <2>2, <2>3 DEF TypeOK, disk, config, bounds
<1>31. ASSUME NEW a \in Appliers, ApplyFails(a) PROVE TypeOK'
  <2>1. applier' \in [Appliers -> ApplierStates]
    BY <1>31, ToIdle DEF ApplyFails
  <2>2. record' \in Records \cup {NoRecord, Torn} /\ gate' \in BOOLEAN
    BY <1>31 DEF ApplyFails, TypeOK
  <2>3. UNCHANGED <<pc, image, committer, pending,
                    install, bak, marker, db, backup, downloaded, activeTag, lastResult, config, proven, mishaps, bounds>>
    BY <1>31 DEF ApplyFails
  <2> QED BY <2>1, <2>2, <2>3 DEF TypeOK, disk, config, bounds
<1>32. ASSUME NEW a \in Appliers, RestartSelf(a) PROVE TypeOK'
  <2>1. applier' \in [Appliers -> ApplierStates]
    BY <1>32, AllIdle DEF RestartSelf, Exec, Down, Volatile
  <2> QED BY <1>32, <2>1 DEF TypeOK, RestartSelf, Exec, Down, Volatile, disk, config, bounds
<1>33. ASSUME NEW a \in Appliers, Start(a) PROVE TypeOK'
  <2>1. Current \in Tags \cup {NoTag}
    BY DEF TypeOK, Current
  <2>2. applier' \in [Appliers -> ApplierStates]
    BY <1>33, <2>1, TagFacts DEF Start, TypeOK, ApplierStates, ApplySteps
  <2> QED BY <1>33, <2>2 DEF TypeOK, Start, disk, config, process
<1>34. ASSUME NEW a \in Appliers, NEW m \in Manifests, CheckFails(a, m) PROVE TypeOK'
  <2>1. applier' \in [Appliers -> ApplierStates]
    BY <1>34, ToIdle DEF CheckFails
  <2> QED BY <1>34, <2>1 DEF TypeOK, CheckFails, disk, config, bounds
<1>35. ASSUME NEW a \in Appliers, NEW m \in Manifests, UpToDate(a, m) PROVE TypeOK'
  <2>1. applier' \in [Appliers -> ApplierStates]
    BY <1>35, ToIdle DEF UpToDate
  <2>2. pendingSwitch' \in BOOLEAN
    BY <1>35 DEF UpToDate
  <2>3. UNCHANGED <<pc, image, committer, pending, gate, disk, channel, proven, mishaps, bounds>>
    BY <1>35 DEF UpToDate
  <2> QED BY <2>1, <2>2, <2>3 DEF TypeOK, disk, config, bounds
<1>36. ASSUME NEW a \in Appliers, NEW m \in Manifests, Available(a, m) PROVE TypeOK'
  <2>1. applier' \in [Appliers -> ApplierStates]
    BY <1>36, ToIdle DEF Available, TypeOK, ApplierStates, ApplySteps, Manifests
  <2>2. pendingSwitch' \in BOOLEAN
    BY <1>36 DEF Available
  <2>3. UNCHANGED <<pc, image, committer, pending, gate, disk, channel, proven, mishaps, bounds>>
    BY <1>36 DEF Available
  <2> QED BY <2>1, <2>2, <2>3 DEF TypeOK, disk, config, bounds
<1>37. ASSUME NEW c \in Channels, SetChannel(c) PROVE TypeOK'
  BY <1>37 DEF SetChannel, disk, process, TypeOK
<1>39. CASE RollBackFails
  BY <1>39 DEF RollBackFails, At, Boots, disk, config, bounds, Mishaps, TypeOK
<1>40. CASE RestoreFails
  BY <1>40 DEF RestoreFails, At, Boots, disk, config, bounds, Mishaps, RolledBack, TypeOK
<1>41. ASSUME NEW a \in Appliers, StageBegin(a) PROVE TypeOK'
  <2>1. applier' \in [Appliers -> ApplierStates]
    BY <1>41, AppliesMoves DEF StageBegin, ApplySteps, Staging
  <2>2. backup' \in [Tags \cup {NoTag} -> Binaries \cup {NoTag}] /\ mishaps' \subseteq Mishaps
    BY <1>41 DEF StageBegin, NotAskedFor, TypeOK
  <2>3. UNCHANGED <<pc, image, committer, pending, gate,
                    install, bak, marker, record, db, downloaded, activeTag, lastResult, config, proven, bounds>>
    BY <1>41 DEF StageBegin, Applies
  <2> QED BY <2>1, <2>2, <2>3 DEF TypeOK, disk, config, bounds
<1>38. CASE UNCHANGED vars
  BY <1>38 DEF TypeOK, vars, disk, config, process, bounds
<1> QED BY <1>1, <1>2, <1>3, <1>4, <1>5, <1>6, <1>7, <1>8, <1>9, <1>10, <1>11, <1>12,
           <1>13, <1>14, <1>15, <1>16, <1>17, <1>18, <1>19, <1>20, <1>21, <1>22, <1>23,
           <1>24, <1>25, <1>26, <1>27, <1>28, <1>29, <1>30, <1>31, <1>32, <1>33, <1>34,
           <1>35, <1>36, <1>37, <1>38, <1>39, <1>40, <1>41
        DEF Next, BootStep, CommitStep, ApplyStep

(* A migration never makes a database partial. *)
LEMMA MigratedWhole == TypeOK /\ db # Partial => Migrated # Partial
BY TagFacts DEF TypeOK, Binaries, Migrated, Tags, Partial

(* A restoration that is cut short is resumed. *)
LEMMA NextRestore == Sound /\ [Next]_vars => RestoreIsResumed' /\ RestoreReadsRecord' /\ RestoredFrom'
<1> SUFFICES ASSUME TypeOK, RestoreIsResumed, RestoreReadsRecord, RestoredFrom, RecordBackup, [Next]_vars
             PROVE  RestoreIsResumed' /\ RestoreReadsRecord' /\ RestoredFrom'
  BY DEF Sound
<1> DEFINE Kept == RestoreIsResumed' /\ RestoreReadsRecord' /\ RestoredFrom'
<1> USE TagFacts DEF RestoreIsResumed, RestoreReadsRecord, RestoredFrom, CopiesWell
<1>1. CASE Respawn
  BY <1>1 DEF Respawn, Exec, Down, Volatile, disk, config, bounds
<1>2. CASE Kill
  BY <1>2 DEF Kill, Down, Volatile, disk, config
<1>3. CASE NothingStaged
  BY <1>3 DEF NothingStaged, At, Boots, disk, config, bounds
<1>4. CASE CountAttempt
  BY <1>4 DEF CountAttempt, At, Boots, config, bounds, MaxBootAttempts
<1>5. CASE RollBack
  BY <1>5 DEF RollBack, At, Boots, config, bounds
<1>6. CASE ClearMarker
  BY <1>6 DEF ClearMarker, At, Boots, config, bounds
<1>7. CASE NothingInFlight
  BY <1>7 DEF NothingInFlight, At, Boots, disk, config, bounds, RolledBack, TypeOK
<1>8. CASE UnreadableRecord
  BY <1>8 DEF UnreadableRecord, At, Boots, config, bounds, RolledBack, TypeOK
<1>9. CASE BeginRestore
  BY <1>9 DEF BeginRestore, Boots, config, bounds, RolledBack, TypeOK
<1>10. CASE Restore
  BY <1>10 DEF Restore, At, Boots, config, bounds, TypeOK, RecordBackup
<1>11. CASE DropBackup
  BY <1>11 DEF DropBackup, At, Boots, config, bounds, TypeOK
<1>12. CASE Forget
  BY <1>12 DEF Forget, At, Boots, config, bounds
<1>13. CASE Report
  BY <1>13 DEF Report, At, Boots, config, bounds
<1>14. CASE Open
  BY <1>14, MigratedWhole DEF Open
<1>15. CASE CrashAtBoot
  <2>1. db' = Partial => db = Partial
    BY <1>15, MigratedWhole DEF CrashAtBoot
  <2> QED BY <1>15, <2>1 DEF CrashAtBoot, Down
<1>16. CASE Healthy
  BY <1>16 DEF Healthy, Commits, CommitsTo, config, bounds, TypeOK
<1>17. CASE Deadline
  BY <1>17 DEF Deadline, Commits, CommitsTo, disk, config, bounds
<1>18. CASE DropBak
  BY <1>18 DEF DropBak, Commits, CommitsTo, config, bounds
<1>19. CASE Promote
  BY <1>19 DEF Promote, CommitsTo, config, bounds, Selectable
<1>20. CASE PromoteDropBackup
  BY <1>20 DEF PromoteDropBackup, Commits, CommitsTo, config, bounds
<1>21. CASE PromoteForget
  BY <1>21 DEF PromoteForget, Commits, CommitsTo, config, bounds
<1>22. CASE PromoteReport
  BY <1>22 DEF PromoteReport, Commits, CommitsTo, config, bounds
<1>23. ASSUME NEW a \in Appliers, InFlight(a) PROVE Kept
  BY <1>23 DEF InFlight, disk, config, bounds
<1>24. ASSUME NEW a \in Appliers, TakeGate(a) PROVE Kept
  BY <1>24 DEF TakeGate, Applies, disk, config, bounds
<1>25. ASSUME NEW a \in Appliers, Download(a) PROVE Kept
  BY <1>25 DEF Download, Applies, config, bounds
<1>26. ASSUME NEW a \in Appliers, StageBackup(a) PROVE Kept
  BY <1>26 DEF StageBackup, Applies, config, bounds, TypeOK
<1>27. ASSUME NEW a \in Appliers, StageRecord(a) PROVE Kept
  BY <1>27 DEF StageRecord, Applies, config, bounds
<1>28. ASSUME NEW a \in Appliers, StageBak(a) PROVE Kept
  BY <1>28 DEF StageBak, Applies, config, bounds
<1>29. ASSUME NEW a \in Appliers, StageSwap(a) PROVE Kept
  BY <1>29 DEF StageSwap, Applies, config, bounds
<1>30. ASSUME NEW a \in Appliers, StageMarker(a) PROVE Kept
  BY <1>30 DEF StageMarker, Applies, config, bounds
<1>31. ASSUME NEW a \in Appliers, ApplyFails(a) PROVE Kept
  BY <1>31 DEF ApplyFails, config, bounds
<1>32. ASSUME NEW a \in Appliers, RestartSelf(a) PROVE Kept
  BY <1>32 DEF RestartSelf, Exec, Down, Volatile, disk, config, bounds
<1>33. ASSUME NEW a \in Appliers, Start(a) PROVE Kept
  BY <1>33 DEF Start, disk, config, Current
<1>34. ASSUME NEW a \in Appliers, NEW m \in Manifests, CheckFails(a, m) PROVE Kept
  BY <1>34 DEF CheckFails, disk, config, bounds
<1>35. ASSUME NEW a \in Appliers, NEW m \in Manifests, UpToDate(a, m) PROVE Kept
  BY <1>35 DEF UpToDate, disk, bounds
<1>36. ASSUME NEW a \in Appliers, NEW m \in Manifests, Available(a, m) PROVE Kept
  BY <1>36 DEF Available, disk, bounds, Manifests
<1>37. ASSUME NEW c \in Channels, SetChannel(c) PROVE Kept
  BY <1>37 DEF SetChannel, disk, process
<1>39. CASE RollBackFails
  BY <1>39 DEF RollBackFails, At, Boots, disk, config, bounds
<1>40. CASE RestoreFails
  BY <1>40 DEF RestoreFails, At, Boots, disk, config, bounds, RolledBack, TypeOK
<1>41. ASSUME NEW a \in Appliers, StageBegin(a) PROVE Kept
  BY <1>41 DEF StageBegin, Applies, config, bounds, TypeOK
<1>38. CASE UNCHANGED vars
  BY <1>38 DEF vars, disk, config, process, bounds
<1> QED BY <1>1, <1>2, <1>3, <1>4, <1>5, <1>6, <1>7, <1>8, <1>9, <1>10, <1>11, <1>12,
           <1>13, <1>14, <1>15, <1>16, <1>17, <1>18, <1>19, <1>20, <1>21, <1>22, <1>23,
           <1>24, <1>25, <1>26, <1>27, <1>28, <1>29, <1>30, <1>31, <1>32, <1>33, <1>34,
           <1>35, <1>36, <1>37, <1>38, <1>39, <1>40, <1>41
        DEF Next, BootStep, CommitStep, ApplyStep

(* The gate: update_apply and the scheduler exclude each other. *)
LEMMA NextOneApply == TypeOK /\ OneApply /\ Stages /\ [Next]_vars => OneApply' /\ Stages'
<1> SUFFICES ASSUME TypeOK, OneApply, Stages, [Next]_vars PROVE OneApply' /\ Stages'
  OBVIOUS
<1> USE TagFacts DEF OneApply, Stages, Steps, PastGate, Staging
<1>1. CASE Respawn
  BY <1>1, AllIdle DEF Respawn, Exec, Down, Volatile
<1>2. CASE Kill
  BY <1>2, AllIdle DEF Kill, Down, Volatile
<1>3. CASE NothingStaged
  BY <1>3 DEF NothingStaged, At, Boots, disk, config, bounds
<1>4. CASE CountAttempt
  BY <1>4 DEF CountAttempt, At, Boots, config, bounds, MaxBootAttempts
<1>5. CASE RollBack
  BY <1>5 DEF RollBack, At, Boots, config, bounds
<1>6. CASE ClearMarker
  BY <1>6 DEF ClearMarker, At, Boots, config, bounds
<1>7. CASE NothingInFlight
  BY <1>7 DEF NothingInFlight, At, Boots, disk, config, bounds, RolledBack
<1>8. CASE UnreadableRecord
  BY <1>8 DEF UnreadableRecord, At, Boots, config, bounds, RolledBack
<1>9. CASE BeginRestore
  BY <1>9 DEF BeginRestore, Boots, config, bounds, RolledBack
<1>10. CASE Restore
  BY <1>10 DEF Restore, At, Boots, config, bounds
<1>11. CASE DropBackup
  BY <1>11 DEF DropBackup, At, Boots, config, bounds
<1>12. CASE Forget
  BY <1>12 DEF Forget, At, Boots, config, bounds
<1>13. CASE Report
  BY <1>13 DEF Report, At, Boots, config, bounds
<1>14. CASE Open
  BY <1>14 DEF Open, config, bounds, Migrated
<1>15. CASE CrashAtBoot
  BY <1>15, AllIdle DEF CrashAtBoot, Down, Volatile
<1>16. CASE Healthy
  BY <1>16 DEF Healthy, Commits, CommitsTo, config, bounds
<1>17. CASE Deadline
  BY <1>17 DEF Deadline, Commits, CommitsTo, disk, config, bounds
<1>18. CASE DropBak
  BY <1>18 DEF DropBak, Commits, CommitsTo, config, bounds
<1>19. CASE Promote
  BY <1>19 DEF Promote, CommitsTo, config, bounds, Selectable
<1>20. CASE PromoteDropBackup
  BY <1>20 DEF PromoteDropBackup, Commits, CommitsTo, config, bounds
<1>21. CASE PromoteForget
  BY <1>21 DEF PromoteForget, Commits, CommitsTo, config, bounds
<1>22. CASE PromoteReport
  BY <1>22 DEF PromoteReport, Commits, CommitsTo, config, bounds
<1>23. ASSUME NEW a \in Appliers, InFlight(a) PROVE OneApply' /\ Stages'
  BY <1>23, ToIdle DEF InFlight
<1>24. ASSUME NEW a \in Appliers, TakeGate(a) PROVE OneApply' /\ Stages'
  BY <1>24, PipelineMoves DEF TakeGate, Moved
<1>25. ASSUME NEW a \in Appliers, Download(a) PROVE OneApply' /\ Stages'
  BY <1>25, PipelineMoves DEF Download, Moved
<1>26. ASSUME NEW a \in Appliers, StageBackup(a) PROVE OneApply' /\ Stages'
  BY <1>26, PipelineMoves DEF StageBackup, Moved
<1>27. ASSUME NEW a \in Appliers, StageRecord(a) PROVE OneApply' /\ Stages'
  BY <1>27, PipelineMoves DEF StageRecord, Moved
<1>28. ASSUME NEW a \in Appliers, StageBak(a) PROVE OneApply' /\ Stages'
  BY <1>28, PipelineMoves DEF StageBak, Moved
<1>29. ASSUME NEW a \in Appliers, StageSwap(a) PROVE OneApply' /\ Stages'
  BY <1>29, PipelineMoves DEF StageSwap, Moved
<1>30. ASSUME NEW a \in Appliers, StageMarker(a) PROVE OneApply' /\ Stages'
  BY <1>30, PipelineMoves DEF StageMarker, Moved
<1>31. ASSUME NEW a \in Appliers, ApplyFails(a) PROVE OneApply' /\ Stages'
  BY <1>31, ToIdle DEF ApplyFails
<1>32. ASSUME NEW a \in Appliers, RestartSelf(a) PROVE OneApply' /\ Stages'
  BY <1>32, AllIdle DEF RestartSelf, Exec, Down, Volatile
<1>33. ASSUME NEW a \in Appliers, Start(a) PROVE OneApply' /\ Stages'
  BY <1>33, StartFacts DEF Start
<1>34. ASSUME NEW a \in Appliers, NEW m \in Manifests, CheckFails(a, m) PROVE OneApply' /\ Stages'
  <2>1. UNCHANGED gate /\ applier' = [applier EXCEPT ![a] = Idle]
    BY <1>34 DEF CheckFails
  <2> QED BY <2>1, ToIdle
<1>35. ASSUME NEW a \in Appliers, NEW m \in Manifests, UpToDate(a, m) PROVE OneApply' /\ Stages'
  <2>1. UNCHANGED gate /\ applier' = [applier EXCEPT ![a] = Idle]
    BY <1>35 DEF UpToDate
  <2> QED BY <2>1, ToIdle
<1>36. ASSUME NEW a \in Appliers, NEW m \in Manifests, Available(a, m) PROVE OneApply' /\ Stages'
  <2>1. UNCHANGED gate
    BY <1>36 DEF Available
  <2> QED BY <1>36, <2>1, AvailableFacts
<1>37. ASSUME NEW c \in Channels, SetChannel(c) PROVE OneApply' /\ Stages'
  BY <1>37 DEF SetChannel, disk, process
<1>39. CASE RollBackFails
  BY <1>39 DEF RollBackFails, At, Boots
<1>40. CASE RestoreFails
  BY <1>40 DEF RestoreFails, At, Boots
<1>41. ASSUME NEW a \in Appliers, StageBegin(a) PROVE OneApply' /\ Stages'
  BY <1>41, PipelineMoves DEF StageBegin, Moved
<1>38. CASE UNCHANGED vars
  BY <1>38 DEF vars, disk, config, process, bounds
<1> QED BY <1>1, <1>2, <1>3, <1>4, <1>5, <1>6, <1>7, <1>8, <1>9, <1>10, <1>11, <1>12,
           <1>13, <1>14, <1>15, <1>16, <1>17, <1>18, <1>19, <1>20, <1>21, <1>22, <1>23,
           <1>24, <1>25, <1>26, <1>27, <1>28, <1>29, <1>30, <1>31, <1>32, <1>33, <1>34,
           <1>35, <1>36, <1>37, <1>38, <1>39, <1>40, <1>41
        DEF Next, BootStep, CommitStep, ApplyStep

(* What a record names was backed up completely. *)
LEMMA NextBackup ==
    ASSUME TypeOK, RestoreIsResumed, OneApply, RecordBackup, [Next]_vars
    PROVE  RecordBackup'
<1> DEFINE Kept == RecordBackup'
<1> USE TagFacts DEF RecordBackup, CopiesWell, Steps
<1>1. CASE Respawn
  BY <1>1, AllIdle DEF Respawn, Exec, Down, Volatile, disk, config, bounds
<1>2. CASE Kill
  BY <1>2, AllIdle DEF Kill, Down, Volatile, disk, config
<1>3. CASE NothingStaged
  BY <1>3 DEF NothingStaged, At, Boots, disk, config, bounds
<1>4. CASE CountAttempt
  BY <1>4 DEF CountAttempt, At, Boots, disk, config, bounds
<1>5. CASE RollBack
  BY <1>5 DEF RollBack, At, Boots, disk, config, bounds
<1>6. CASE ClearMarker
  BY <1>6 DEF ClearMarker, At, Boots, disk, config, bounds
<1>7. CASE NothingInFlight
  BY <1>7 DEF NothingInFlight, At, Boots, disk, config, bounds
<1>8. CASE UnreadableRecord
  BY <1>8 DEF UnreadableRecord, At, Boots, disk, config, bounds, RolledBack
<1>9. CASE BeginRestore
  BY <1>9 DEF BeginRestore, At, Boots, disk, config, bounds, RolledBack
<1>10. CASE Restore
  BY <1>10 DEF Restore, At, Boots, disk, config, bounds
<1>11. CASE DropBackup
  BY <1>11 DEF DropBackup, At, Boots, disk, config, bounds, TypeOK
<1>12. CASE Forget
  BY <1>12 DEF Forget, At, Boots, disk, config, bounds
<1>13. CASE Report
  BY <1>13 DEF Report, At, Boots, disk, config, bounds
<1>14. CASE Open
  BY <1>14 DEF Open, config, bounds
<1>15. CASE CrashAtBoot
  BY <1>15, AllIdle DEF CrashAtBoot, Down, Volatile, config, bounds
<1>16. CASE Healthy
  BY <1>16 DEF Healthy, Commits, CommitsTo, disk, config, bounds
<1>17. CASE Deadline
  BY <1>17 DEF Deadline, Commits, CommitsTo, disk, config, bounds
<1>18. CASE DropBak
  BY <1>18 DEF DropBak, Commits, CommitsTo, disk, config, bounds
<1>19. CASE Promote
  BY <1>19 DEF Promote, Commits, CommitsTo, disk, config, bounds, Locked, Staging, Selectable
<1>20. CASE PromoteDropBackup
  BY <1>20 DEF PromoteDropBackup, Commits, CommitsTo, disk, config, bounds, TypeOK
<1>21. CASE PromoteForget
  BY <1>21 DEF PromoteForget, Commits, CommitsTo, disk, config, bounds
<1>22. CASE PromoteReport
  BY <1>22 DEF PromoteReport, Commits, CommitsTo, disk, config, bounds
<1>23. ASSUME NEW a \in Appliers, InFlight(a) PROVE Kept
  BY <1>23, ToIdle DEF InFlight, disk, config, bounds
<1>24. ASSUME NEW a \in Appliers, TakeGate(a) PROVE Kept
  BY <1>24, PipelineMoves DEF TakeGate, Moved, disk, config, bounds
<1>25. ASSUME NEW a \in Appliers, Download(a) PROVE Kept
  BY <1>25, PipelineMoves DEF Download, Moved, disk, config, bounds
<1>26. ASSUME NEW a \in Appliers, StageBackup(a) PROVE Kept
  BY <1>26, PipelineMoves DEF StageBackup, Moved, disk, config, bounds, TypeOK, RestoreIsResumed, OneApply, PastGate, Staging
<1>27. ASSUME NEW a \in Appliers, StageRecord(a) PROVE Kept
  BY <1>27, PipelineMoves DEF StageRecord, Moved, disk, config, bounds, TypeOK, OneApply, PastGate, Staging
<1>28. ASSUME NEW a \in Appliers, StageBak(a) PROVE Kept
  BY <1>28, PipelineMoves DEF StageBak, Moved, disk, config, bounds
<1>29. ASSUME NEW a \in Appliers, StageSwap(a) PROVE Kept
  BY <1>29, PipelineMoves DEF StageSwap, Moved, disk, config, bounds
<1>30. ASSUME NEW a \in Appliers, StageMarker(a) PROVE Kept
  BY <1>30, PipelineMoves DEF StageMarker, Moved, disk, config, bounds
<1>31. ASSUME NEW a \in Appliers, ApplyFails(a) PROVE Kept
  <2>1. UNCHANGED <<backup, activeTag, mishaps>> /\ record' \in {record, NoRecord}
    BY <1>31 DEF ApplyFails
  <2>2. applier'[a].step = "idle" /\ \A b \in Appliers : b # a => applier'[b] = applier[b]
    BY <1>31, ToIdle DEF ApplyFails
  <2> QED BY <2>1, <2>2
<1>32. ASSUME NEW a \in Appliers, RestartSelf(a) PROVE Kept
  BY <1>32, AllIdle DEF RestartSelf, Exec, Down, Volatile, disk, config, bounds
<1>33. ASSUME NEW a \in Appliers, Start(a) PROVE Kept
  BY <1>33, StartFacts DEF Start, disk, config
<1>34. ASSUME NEW a \in Appliers, NEW m \in Manifests, CheckFails(a, m) PROVE Kept
  BY <1>34, ToIdle DEF CheckFails, disk, config, bounds
<1>35. ASSUME NEW a \in Appliers, NEW m \in Manifests, UpToDate(a, m) PROVE Kept
  BY <1>35, ToIdle DEF UpToDate, disk, bounds
<1>36. ASSUME NEW a \in Appliers, NEW m \in Manifests, Available(a, m) PROVE Kept
  <2>1. UNCHANGED <<pc, committer, disk, channel, image, mishaps, switches>>
    BY <1>36 DEF Available, bounds
  <2> QED BY <1>36, <2>1, AvailableFacts DEF disk, Available
<1>37. ASSUME NEW c \in Channels, SetChannel(c) PROVE Kept
  BY <1>37 DEF SetChannel, disk, process
<1>38. CASE UNCHANGED vars
  BY <1>38 DEF vars, disk, config, process, bounds
<1>39. CASE RollBackFails
  BY <1>39 DEF RollBackFails, At, Boots, disk, config, bounds
<1>40. CASE RestoreFails
  BY <1>40 DEF RestoreFails, At, Boots, disk, config, bounds
<1>41. ASSUME NEW a \in Appliers, StageBegin(a) PROVE Kept
  <2>1. /\ Moved(a, "stage", "backing") /\ backup' = [backup EXCEPT ![activeTag] = Partial]
        /\ mishaps' = mishaps \cup NotAskedFor(a) /\ UNCHANGED <<record, activeTag>>
    BY <1>41, PipelineMoves DEF StageBegin
  <2>2. \A b \in Appliers : b # a => Steps(b) \notin PastGate
    BY <2>1 DEF Moved, OneApply, PastGate
  <2>3. CASE record \in Records /\ record.from = activeTag
    <3>1. "backup_redone" \in mishaps'
      BY <2>1, <2>3 DEF NotAskedFor, Mishaps
    <3> QED BY <3>1
  <2>4. CASE ~(record \in Records /\ record.from = activeTag)
    <3>1. record \in Records => backup'[record.from] = backup[record.from]
      BY <2>1, <2>4 DEF TypeOK
    <3> QED BY <2>1, <2>2, <2>4, <3>1 DEF Moved, PastGate, Staging
  <2> QED BY <2>3, <2>4
<1> QED BY <1>1, <1>2, <1>3, <1>4, <1>5, <1>6, <1>7, <1>8, <1>9, <1>10, <1>11, <1>12,
           <1>13, <1>14, <1>15, <1>16, <1>17, <1>18, <1>19, <1>20, <1>21, <1>22, <1>23,
           <1>24, <1>25, <1>26, <1>27, <1>28, <1>29, <1>30, <1>31, <1>32, <1>33, <1>34,
           <1>35, <1>36, <1>37, <1>38, <1>39, <1>40, <1>41
        DEF Next, BootStep, CommitStep, ApplyStep

(* On the stable channel, without a crossgrade, what is offered is newer. *)
LEMMA VerdictForward ==
    ASSUME TypeOK, NEW a \in Appliers, NEW m \in Manifests, Verdict(a, m) = "available",
           applier[a].channel = "stable", applier[a].cross = FALSE
    PROVE  m.version \in Tags /\ m.version > applier[a].current
<1>1. m.version \in Tags /\ applier[a].current \in Tags \cup {NoTag}
  BY DEF TypeOK, ApplierStates, Manifests
<1>3. m.version \in Int /\ applier[a].current \in Int
  BY <1>1, TagAssumption DEF Tags, NoTag
<1>2. m.version # applier[a].current /\ ~(m.version < applier[a].current)
  BY DEF Verdict, Evaluate
<1> QED BY <1>1, <1>2, <1>3

(* The comparison made by evaluate_parsed holds of the release it was made  *)
(* with, and of the staged record until the promotion.                      *)
LEMMA NextForward ==
    ASSUME TypeOK, Stages, NeverSwitched, ChecksForward, StagesForward, RecordForward, [Next]_vars
    PROVE  NeverSwitched' /\ ChecksForward' /\ StagesForward' /\ RecordForward'
<1> DEFINE Kept == NeverSwitched' /\ ChecksForward' /\ StagesForward' /\ RecordForward'
<1> USE TagFacts DEF NeverSwitched, ChecksForward, StagesForward, RecordForward, OnCourse, Steps, Staging
<1>1. CASE Respawn
  BY <1>1, AllIdle DEF Respawn, Exec, Down, Volatile, disk, config, bounds
<1>2. CASE Kill
  BY <1>2, AllIdle DEF Kill, Down, Volatile, disk, config
<1>3. CASE NothingStaged
  BY <1>3 DEF NothingStaged, At, Boots, disk, config, bounds
<1>4. CASE CountAttempt
  BY <1>4 DEF CountAttempt, At, Boots, disk, config, bounds
<1>5. CASE RollBack
  BY <1>5 DEF RollBack, At, Boots, disk, config, bounds
<1>6. CASE ClearMarker
  BY <1>6 DEF ClearMarker, At, Boots, disk, config, bounds
<1>7. CASE NothingInFlight
  BY <1>7 DEF NothingInFlight, At, Boots, disk, config, bounds
<1>8. CASE UnreadableRecord
  BY <1>8 DEF UnreadableRecord, At, Boots, disk, config, bounds
<1>9. CASE BeginRestore
  BY <1>9 DEF BeginRestore, At, Boots, disk, config, bounds
<1>10. CASE Restore
  BY <1>10 DEF Restore, At, Boots, disk, config, bounds
<1>11. CASE DropBackup
  BY <1>11 DEF DropBackup, At, Boots, disk, config, bounds
<1>12. CASE Forget
  BY <1>12 DEF Forget, At, Boots, disk, config, bounds
<1>13. CASE Report
  BY <1>13 DEF Report, At, Boots, disk, config, bounds
<1>14. CASE Open
  BY <1>14 DEF Open, config, bounds
<1>15. CASE CrashAtBoot
  BY <1>15, AllIdle DEF CrashAtBoot, Down, Volatile, config, bounds
<1>16. CASE Healthy
  BY <1>16 DEF Healthy, Commits, CommitsTo, disk, config, bounds
<1>17. CASE Deadline
  BY <1>17 DEF Deadline, Commits, CommitsTo, disk, config, bounds
<1>18. CASE DropBak
  BY <1>18 DEF DropBak, Commits, CommitsTo, disk, config, bounds
<1>19. CASE Promote
  <2>1. /\ UNCHANGED <<applier, channel, pendingSwitch, record, mishaps, switches>>
        /\ \A a \in Appliers : Steps(a) \notin Staging
        /\ activeTag' # activeTag => activeTag' = record.to /\ record.to \in Tags
    <3>1. UNCHANGED <<applier, channel, pendingSwitch, record, mishaps, switches>> /\ ~Locked
      BY <1>19 DEF Promote, CommitsTo, config, bounds
    <3>2. activeTag' = IF Selectable THEN record.to ELSE activeTag
      BY <1>19 DEF Promote
    <3>3. Selectable => record.to \in Tags
      BY DEF Selectable, TypeOK
    <3> QED BY <3>1, <3>2, <3>3 DEF Locked
  <2>2. RecordForward'
    BY <2>1, TagAssumption DEF Tags
  <2> QED BY <2>1, <2>2
<1>20. CASE PromoteDropBackup
  BY <1>20 DEF PromoteDropBackup, Commits, CommitsTo, disk, config, bounds
<1>21. CASE PromoteForget
  BY <1>21 DEF PromoteForget, Commits, CommitsTo, disk, config, bounds
<1>22. CASE PromoteReport
  BY <1>22 DEF PromoteReport, Commits, CommitsTo, disk, config, bounds
<1>23. ASSUME NEW a \in Appliers, InFlight(a) PROVE Kept
  BY <1>23, ToIdle DEF InFlight, disk, config, bounds
<1>24. ASSUME NEW a \in Appliers, TakeGate(a) PROVE Kept
  BY <1>24, PipelineMoves DEF TakeGate, Moved, disk, config, bounds
<1>25. ASSUME NEW a \in Appliers, Download(a) PROVE Kept
  BY <1>25, PipelineMoves DEF Download, Moved, disk, config, bounds
<1>26. ASSUME NEW a \in Appliers, StageBackup(a) PROVE Kept
  BY <1>26, PipelineMoves DEF StageBackup, Moved, disk, config, bounds
<1>27. ASSUME NEW a \in Appliers, StageRecord(a) PROVE Kept
  <2>1. /\ UNCHANGED <<channel, pendingSwitch, activeTag, mishaps, switches>>
        /\ \/ Moved(a, "record", "recording") /\ record' = Torn
           \/ Moved(a, "recording", "bak") /\ record' = [from |-> activeTag, to |-> applier[a].to]
    BY <1>27, PipelineMoves DEF StageRecord, config, bounds
  <2>2. NeverSwitched' /\ ChecksForward' /\ StagesForward'
    BY <2>1 DEF Moved
  <2>3. CASE record' = Torn
    BY <2>2, <2>3
  <2>4. CASE Moved(a, "recording", "bak") /\ record' = [from |-> activeTag, to |-> applier[a].to]
    <3>1. OnCourse' => applier[a].to > activeTag
      BY <2>1, <2>4 DEF Moved
    <3>2. applier[a].to \in Int /\ activeTag \in Int
      BY <2>4, TagAssumption DEF Moved, Stages, TypeOK, Tags, NoTag
    <3>3. record'.to = applier[a].to /\ activeTag' = activeTag
      BY <2>1, <2>4
    <3>4. RecordForward'
      BY <3>1, <3>2, <3>3
    <3> QED BY <2>2, <3>4
  <2> QED BY <2>1, <2>3, <2>4
<1>28. ASSUME NEW a \in Appliers, StageBak(a) PROVE Kept
  BY <1>28, PipelineMoves DEF StageBak, Moved, disk, config, bounds
<1>29. ASSUME NEW a \in Appliers, StageSwap(a) PROVE Kept
  BY <1>29, PipelineMoves DEF StageSwap, Moved, disk, config, bounds
<1>30. ASSUME NEW a \in Appliers, StageMarker(a) PROVE Kept
  BY <1>30, PipelineMoves DEF StageMarker, Moved, disk, config, bounds
<1>31. ASSUME NEW a \in Appliers, ApplyFails(a) PROVE Kept
  <2>1. /\ UNCHANGED <<activeTag, channel, pendingSwitch, mishaps, switches>> /\ record' \in {record, NoRecord}
    BY <1>31 DEF ApplyFails, config, bounds
  <2>2. applier'[a].step = "idle" /\ \A b \in Appliers : b # a => applier'[b] = applier[b]
    BY <1>31, ToIdle DEF ApplyFails
  <2> QED BY <2>1, <2>2
<1>32. ASSUME NEW a \in Appliers, RestartSelf(a) PROVE Kept
  BY <1>32, AllIdle DEF RestartSelf, Exec, Down, Volatile, disk, config, bounds
<1>33. ASSUME NEW a \in Appliers, Start(a) PROVE Kept
  BY <1>33, StartFacts DEF Start, disk, config
<1>34. ASSUME NEW a \in Appliers, NEW m \in Manifests, CheckFails(a, m) PROVE Kept
  BY <1>34, ToIdle DEF CheckFails, disk, config, bounds
<1>35. ASSUME NEW a \in Appliers, NEW m \in Manifests, UpToDate(a, m) PROVE Kept
  BY <1>35, ToIdle DEF UpToDate, disk, bounds
<1>36. ASSUME NEW a \in Appliers, NEW m \in Manifests, Available(a, m) PROVE Kept
  <2>1. /\ applier[a].step = "check" /\ Verdict(a, m) = "available" /\ pendingSwitch' = FALSE
        /\ UNCHANGED <<disk, channel, mishaps, switches>>
    BY <1>36 DEF Available, bounds
  <2>2. NeverSwitched' /\ RecordForward'
    BY <2>1 DEF disk
  <2>3. switches = 0 => m.version > applier[a].current
    BY <2>1, VerdictForward
  <2>4. ChecksForward' /\ StagesForward'
    BY <1>36, <2>1, <2>3, AvailableFacts DEF disk
  <2> QED BY <2>2, <2>4
<1>37. ASSUME NEW c \in Channels, SetChannel(c) PROVE Kept
  <2>1. switches' # 0
    BY <1>37 DEF SetChannel, TypeOK
  <2> QED BY <2>1
<1>38. CASE UNCHANGED vars
  BY <1>38 DEF vars, disk, config, process, bounds
<1>39. CASE RollBackFails
  BY <1>39 DEF RollBackFails, At, Boots, disk, config, bounds
<1>40. CASE RestoreFails
  BY <1>40 DEF RestoreFails, At, Boots, disk, config, bounds
<1>41. ASSUME NEW a \in Appliers, StageBegin(a) PROVE Kept
  <2>1. /\ Moved(a, "stage", "backing") /\ mishaps' = mishaps \cup NotAskedFor(a)
        /\ UNCHANGED <<record, activeTag, channel, pendingSwitch, switches>>
    BY <1>41, PipelineMoves DEF StageBegin, config, bounds
  <2>2. NeverSwitched' /\ ChecksForward' /\ RecordForward'
    BY <2>1 DEF Moved
  <2>3. OnCourse' => OnCourse /\ applier[a].current = Current
    BY <2>1 DEF NotAskedFor, Mishaps
  <2>4. applier[a].to \in Tags /\ (OnCourse => applier[a].to > applier[a].current)
    BY <2>1 DEF Moved, Stages
  <2>5. OnCourse' => applier[a].to > activeTag
    BY <2>3, <2>4, TagAssumption DEF Current, NoTag, Tags
  <2>6. StagesForward'
    BY <2>1, <2>3, <2>5 DEF Moved
  <2> QED BY <2>2, <2>6
<1> QED BY <1>1, <1>2, <1>3, <1>4, <1>5, <1>6, <1>7, <1>8, <1>9, <1>10, <1>11, <1>12,
           <1>13, <1>14, <1>15, <1>16, <1>17, <1>18, <1>19, <1>20, <1>21, <1>22, <1>23,
           <1>24, <1>25, <1>26, <1>27, <1>28, <1>29, <1>30, <1>31, <1>32, <1>33, <1>34,
           <1>35, <1>36, <1>37, <1>38, <1>39, <1>40, <1>41
        DEF Next, BootStep, CommitStep, ApplyStep

-----------------------------------------------------------------------------
(* The hand-over is inductive as long as nothing was staged over it *)

(* An update is staged only by a settled process. *)
LEMMA NextSettled ==
    ASSUME Orderly, Orderly', TypeOK, StagesWhenSettled, [Next]_vars
    PROVE  StagesWhenSettled'
<1> USE TagFacts DEF StagesWhenSettled, Steps, Staging, Orderly
<1>1. CASE Respawn
  BY <1>1, AllIdle DEF Respawn, Exec, Down, Volatile, disk, config, bounds
<1>2. CASE Kill
  BY <1>2, AllIdle DEF Kill, Down, Volatile, disk, config
<1>3. CASE NothingStaged
  BY <1>3 DEF NothingStaged, At, Boots, disk, config, bounds
<1>4. CASE CountAttempt
  BY <1>4 DEF CountAttempt, At, Boots, config, bounds, MaxBootAttempts
<1>5. CASE RollBack
  BY <1>5 DEF RollBack, At, Boots, config, bounds
<1>6. CASE ClearMarker
  BY <1>6 DEF ClearMarker, At, Boots, config, bounds
<1>7. CASE NothingInFlight
  BY <1>7 DEF NothingInFlight, At, Boots, disk, config, bounds, RolledBack
<1>8. CASE UnreadableRecord
  BY <1>8 DEF UnreadableRecord, At, Boots, config, bounds, RolledBack
<1>9. CASE BeginRestore
  BY <1>9 DEF BeginRestore, Boots, config, bounds, RolledBack
<1>10. CASE Restore
  BY <1>10 DEF Restore, At, Boots, config, bounds
<1>11. CASE DropBackup
  BY <1>11 DEF DropBackup, At, Boots, config, bounds
<1>12. CASE Forget
  BY <1>12 DEF Forget, At, Boots, config, bounds
<1>13. CASE Report
  BY <1>13 DEF Report, At, Boots, config, bounds
<1>14. CASE Open
  BY <1>14 DEF Open, config, bounds, Migrated
<1>15. CASE CrashAtBoot
  BY <1>15, AllIdle DEF CrashAtBoot, Down, Volatile, config, bounds
<1>16. CASE Healthy
  BY <1>16 DEF Healthy, Commits, CommitsTo, config, bounds
<1>17. CASE Deadline
  BY <1>17 DEF Deadline, Commits, CommitsTo, disk, config, bounds
<1>18. CASE DropBak
  BY <1>18 DEF DropBak, Commits, CommitsTo, config, bounds
<1>19. CASE Promote
  BY <1>19 DEF Promote, CommitsTo, config, bounds, Selectable
<1>20. CASE PromoteDropBackup
  BY <1>20 DEF PromoteDropBackup, Commits, CommitsTo, config, bounds
<1>21. CASE PromoteForget
  BY <1>21 DEF PromoteForget, Commits, CommitsTo, config, bounds
<1>22. CASE PromoteReport
  BY <1>22 DEF PromoteReport, Commits, CommitsTo, config, bounds
<1>23. ASSUME NEW a \in Appliers, InFlight(a) PROVE StagesWhenSettled'
  BY <1>23, ToIdle DEF InFlight, disk, config, bounds
<1>24. ASSUME NEW a \in Appliers, TakeGate(a) PROVE StagesWhenSettled'
  BY <1>24, PipelineMoves DEF TakeGate, Moved, disk, config, bounds
<1>25. ASSUME NEW a \in Appliers, Download(a) PROVE StagesWhenSettled'
  BY <1>25, PipelineMoves DEF Download, Moved, config, bounds
<1>26. ASSUME NEW a \in Appliers, StageBackup(a) PROVE StagesWhenSettled'
  BY <1>26, PipelineMoves DEF StageBackup, Moved, config, bounds
<1>27. ASSUME NEW a \in Appliers, StageRecord(a) PROVE StagesWhenSettled'
  BY <1>27, PipelineMoves DEF StageRecord, Moved, config, bounds
<1>28. ASSUME NEW a \in Appliers, StageBak(a) PROVE StagesWhenSettled'
  BY <1>28, PipelineMoves DEF StageBak, Moved, config, bounds
<1>29. ASSUME NEW a \in Appliers, StageSwap(a) PROVE StagesWhenSettled'
  BY <1>29, PipelineMoves DEF StageSwap, Moved, config, bounds
<1>30. ASSUME NEW a \in Appliers, StageMarker(a) PROVE StagesWhenSettled'
  BY <1>30, PipelineMoves DEF StageMarker, Moved, config, bounds
<1>31. ASSUME NEW a \in Appliers, ApplyFails(a) PROVE StagesWhenSettled'
  BY <1>31, ToIdle DEF ApplyFails, config, bounds
<1>32. ASSUME NEW a \in Appliers, RestartSelf(a) PROVE StagesWhenSettled'
  BY <1>32, AllIdle DEF RestartSelf, Exec, Down, Volatile, disk, config, bounds
<1>33. ASSUME NEW a \in Appliers, Start(a) PROVE StagesWhenSettled'
  <2>1. UNCHANGED <<pc, committer, marker>>
    BY <1>33 DEF Start, disk
  <2>2. applier[a].step = "idle" /\ applier'[a].step = "check" /\ \A b \in Appliers : b # a => applier'[b] = applier[b]
    BY <1>33, StartFacts
  <2> QED BY <2>1, <2>2
<1>34. ASSUME NEW a \in Appliers, NEW m \in Manifests, CheckFails(a, m) PROVE StagesWhenSettled'
  BY <1>34, ToIdle DEF CheckFails, disk, config, bounds
<1>35. ASSUME NEW a \in Appliers, NEW m \in Manifests, UpToDate(a, m) PROVE StagesWhenSettled'
  BY <1>35, ToIdle DEF UpToDate, disk, bounds
<1>36. ASSUME NEW a \in Appliers, NEW m \in Manifests, Available(a, m) PROVE StagesWhenSettled'
  <2>1. /\ pc = "serving" /\ applier[a].step = "check"
        /\ UNCHANGED <<pc, committer, pending, gate, disk, image, proven, mishaps, switches>>
    BY <1>36 DEF Available, bounds
  <2> QED BY <1>36, <2>1, AvailableFacts DEF disk
<1>37. ASSUME NEW c \in Channels, SetChannel(c) PROVE StagesWhenSettled'
  BY <1>37 DEF SetChannel, disk, process
<1>39. CASE RollBackFails
  BY <1>39 DEF RollBackFails, At, Boots, disk, config, bounds
<1>40. CASE RestoreFails
  BY <1>40 DEF RestoreFails, At, Boots, disk, config, bounds
<1>41. ASSUME NEW a \in Appliers, StageBegin(a) PROVE StagesWhenSettled'
  BY <1>41, PipelineMoves DEF StageBegin, Moved, NotAskedFor, Mishaps, config, bounds
<1>38. CASE UNCHANGED vars
  BY <1>38 DEF vars, disk, config, process, bounds
<1> QED BY <1>1, <1>2, <1>3, <1>4, <1>5, <1>6, <1>7, <1>8, <1>9, <1>10, <1>11, <1>12,
           <1>13, <1>14, <1>15, <1>16, <1>17, <1>18, <1>19, <1>20, <1>21, <1>22, <1>23,
           <1>24, <1>25, <1>26, <1>27, <1>28, <1>29, <1>30, <1>31, <1>32, <1>33, <1>34,
           <1>35, <1>36, <1>37, <1>38, <1>39, <1>40, <1>41
        DEF Next, BootStep, CommitStep, ApplyStep

(* The committer promotes what is running and proven. *)
LEMMA NextCommitter ==
    ASSUME Orderly, Orderly', TypeOK, StagesWhenSettled, CommitterHonest, MarkerMatches, OneApply, ActiveIsProven, [Next]_vars
    PROVE  CommitterHonest' /\ ActiveIsProven'
<1> USE TagFacts DEF CommitterHonest, ActiveIsProven, Steps, Promoting, StagesWhenSettled, Staging, Orderly
<1>1. CASE Respawn
  BY <1>1, AllIdle DEF Respawn, Exec, Down, Volatile, disk, config, bounds
<1>2. CASE Kill
  BY <1>2, AllIdle DEF Kill, Down, Volatile, disk, config
<1>3. CASE NothingStaged
  BY <1>3 DEF NothingStaged, At, Boots, disk, config, bounds
<1>4. CASE CountAttempt
  BY <1>4 DEF CountAttempt, At, Boots, config, bounds, MaxBootAttempts
<1>5. CASE RollBack
  BY <1>5 DEF RollBack, At, Boots, config, bounds
<1>6. CASE ClearMarker
  BY <1>6 DEF ClearMarker, At, Boots, config, bounds
<1>7. CASE NothingInFlight
  BY <1>7 DEF NothingInFlight, At, Boots, disk, config, bounds, RolledBack
<1>8. CASE UnreadableRecord
  BY <1>8 DEF UnreadableRecord, At, Boots, config, bounds, RolledBack
<1>9. CASE BeginRestore
  BY <1>9 DEF BeginRestore, Boots, config, bounds, RolledBack
<1>10. CASE Restore
  BY <1>10 DEF Restore, At, Boots, config, bounds
<1>11. CASE DropBackup
  BY <1>11 DEF DropBackup, At, Boots, config, bounds
<1>12. CASE Forget
  BY <1>12 DEF Forget, At, Boots, config, bounds
<1>13. CASE Report
  BY <1>13 DEF Report, At, Boots, config, bounds
<1>14. CASE Open
  BY <1>14 DEF Open, config, bounds, Migrated, MarkerMatches
<1>15. CASE CrashAtBoot
  BY <1>15, AllIdle DEF CrashAtBoot, Down, Volatile, config, bounds
<1>16. CASE Healthy
  BY <1>16 DEF Healthy, Commits, CommitsTo, config, bounds, MarkerMatches, Swapped, Binaries, TypeOK
<1>17. CASE Deadline
  BY <1>17 DEF Deadline, Commits, CommitsTo, disk, config, bounds
<1>18. CASE DropBak
  BY <1>18 DEF DropBak, Commits, CommitsTo, config, bounds
<1>19. CASE Promote
  BY <1>19 DEF Promote, CommitsTo, config, bounds, Selectable, TypeOK
<1>20. CASE PromoteDropBackup
  BY <1>20 DEF PromoteDropBackup, Commits, CommitsTo, config, bounds
<1>21. CASE PromoteForget
  BY <1>21 DEF PromoteForget, Commits, CommitsTo, config, bounds
<1>22. CASE PromoteReport
  BY <1>22 DEF PromoteReport, Commits, CommitsTo, config, bounds
<1>23. ASSUME NEW a \in Appliers, InFlight(a) PROVE CommitterHonest' /\ ActiveIsProven'
  BY <1>23, ToIdle DEF InFlight, disk, config, bounds
<1>24. ASSUME NEW a \in Appliers, TakeGate(a) PROVE CommitterHonest' /\ ActiveIsProven'
  BY <1>24, PipelineMoves DEF TakeGate, Moved, disk, config, bounds
<1>25. ASSUME NEW a \in Appliers, Download(a) PROVE CommitterHonest' /\ ActiveIsProven'
  BY <1>25, PipelineMoves DEF Download, Moved, config, bounds
<1>26. ASSUME NEW a \in Appliers, StageBackup(a) PROVE CommitterHonest' /\ ActiveIsProven'
  BY <1>26, PipelineMoves DEF StageBackup, Moved, config, bounds
<1>27. ASSUME NEW a \in Appliers, StageRecord(a) PROVE CommitterHonest' /\ ActiveIsProven'
  BY <1>27, PipelineMoves DEF StageRecord, Moved, config, bounds
<1>28. ASSUME NEW a \in Appliers, StageBak(a) PROVE CommitterHonest' /\ ActiveIsProven'
  BY <1>28, PipelineMoves DEF StageBak, Moved, config, bounds
<1>29. ASSUME NEW a \in Appliers, StageSwap(a) PROVE CommitterHonest' /\ ActiveIsProven'
  BY <1>29, PipelineMoves DEF StageSwap, Moved, config, bounds
<1>30. ASSUME NEW a \in Appliers, StageMarker(a) PROVE CommitterHonest' /\ ActiveIsProven'
  BY <1>30, PipelineMoves DEF StageMarker, Moved, config, bounds
<1>31. ASSUME NEW a \in Appliers, ApplyFails(a) PROVE CommitterHonest' /\ ActiveIsProven'
  BY <1>31, ToIdle DEF ApplyFails, config, bounds
<1>32. ASSUME NEW a \in Appliers, RestartSelf(a) PROVE CommitterHonest' /\ ActiveIsProven'
  BY <1>32, AllIdle DEF RestartSelf, Exec, Down, Volatile, disk, config, bounds
<1>33. ASSUME NEW a \in Appliers, Start(a) PROVE CommitterHonest' /\ ActiveIsProven'
  BY <1>33, StartFacts DEF Start, disk, config
<1>34. ASSUME NEW a \in Appliers, NEW m \in Manifests, CheckFails(a, m) PROVE CommitterHonest' /\ ActiveIsProven'
  BY <1>34, ToIdle DEF CheckFails, disk, config, bounds
<1>35. ASSUME NEW a \in Appliers, NEW m \in Manifests, UpToDate(a, m) PROVE CommitterHonest' /\ ActiveIsProven'
  BY <1>35, ToIdle DEF UpToDate, disk, bounds
<1>36. ASSUME NEW a \in Appliers, NEW m \in Manifests, Available(a, m) PROVE CommitterHonest' /\ ActiveIsProven'
  <2>1. /\ pc = "serving" /\ applier[a].step = "check"
        /\ UNCHANGED <<pc, committer, pending, gate, disk, image, proven, mishaps, switches>>
    BY <1>36 DEF Available, bounds
  <2> QED BY <1>36, <2>1, AvailableFacts DEF disk
<1>37. ASSUME NEW c \in Channels, SetChannel(c) PROVE CommitterHonest' /\ ActiveIsProven'
  BY <1>37 DEF SetChannel, disk, process
<1>39. CASE RollBackFails
  BY <1>39 DEF RollBackFails, At, Boots, disk, config, bounds
<1>40. CASE RestoreFails
  BY <1>40 DEF RestoreFails, At, Boots, disk, config, bounds
<1>41. ASSUME NEW a \in Appliers, StageBegin(a) PROVE CommitterHonest' /\ ActiveIsProven'
  BY <1>41, PipelineMoves DEF StageBegin, Moved, config, bounds
<1>38. CASE UNCHANGED vars
  BY <1>38 DEF vars, disk, config, process, bounds
<1> QED BY <1>1, <1>2, <1>3, <1>4, <1>5, <1>6, <1>7, <1>8, <1>9, <1>10, <1>11, <1>12,
           <1>13, <1>14, <1>15, <1>16, <1>17, <1>18, <1>19, <1>20, <1>21, <1>22, <1>23,
           <1>24, <1>25, <1>26, <1>27, <1>28, <1>29, <1>30, <1>31, <1>32, <1>33, <1>34,
           <1>35, <1>36, <1>37, <1>38, <1>39, <1>40, <1>41
        DEF Next, BootStep, CommitStep, ApplyStep

(* The binary and its copy. *)
LEMMA NextInstall ==
    ASSUME Orderly, Orderly', TypeOK, Stages, OneApply, StagesWhenSettled, CommitterHonest, MarkerMatches,
           InstallWhole, BakBoots, InstallBoots, SwapBesideCopy, WayBack, [Next]_vars
    PROVE  InstallWhole' /\ BakBoots' /\ InstallBoots' /\ SwapBesideCopy' /\ WayBack'
<1> DEFINE Kept == InstallWhole' /\ BakBoots' /\ InstallBoots' /\ SwapBesideCopy' /\ WayBack'
<1> USE TagFacts DEF InstallWhole, BakBoots, InstallBoots, SwapBesideCopy, WayBack, Swapped, Steps, Orderly
<1>1. CASE Respawn
  BY <1>1, AllIdle DEF Respawn, Exec, Down, Volatile, disk, config, bounds
<1>2. CASE Kill
  BY <1>2, AllIdle DEF Kill, Down, Volatile, disk, config
<1>3. CASE NothingStaged
  BY <1>3 DEF NothingStaged, At, Boots, disk, config, bounds
<1>4. CASE CountAttempt
  BY <1>4 DEF CountAttempt, At, Boots, config, bounds, MaxBootAttempts
<1>5. CASE RollBack
  BY <1>5, TagAssumption DEF RollBack, At, Boots, config, bounds, MarkerMatches, TypeOK, Binaries, StagesWhenSettled, Staging
<1>6. CASE ClearMarker
  BY <1>6 DEF ClearMarker, At, Boots, config, bounds
<1>7. CASE NothingInFlight
  BY <1>7 DEF NothingInFlight, At, Boots, disk, config, bounds, RolledBack
<1>8. CASE UnreadableRecord
  BY <1>8 DEF UnreadableRecord, At, Boots, config, bounds, RolledBack
<1>9. CASE BeginRestore
  BY <1>9 DEF BeginRestore, Boots, config, bounds, RolledBack
<1>10. CASE Restore
  BY <1>10 DEF Restore, At, Boots, config, bounds
<1>11. CASE DropBackup
  BY <1>11 DEF DropBackup, At, Boots, config, bounds
<1>12. CASE Forget
  BY <1>12 DEF Forget, At, Boots, config, bounds
<1>13. CASE Report
  BY <1>13 DEF Report, At, Boots, config, bounds
<1>14. CASE Open
  BY <1>14 DEF Open, config, bounds, Migrated, StagesWhenSettled
<1>15. CASE CrashAtBoot
  BY <1>15, AllIdle DEF CrashAtBoot, Down, Volatile, config, bounds
<1>16. CASE Healthy
  BY <1>16 DEF Healthy, Commits, CommitsTo, config, bounds
<1>17. CASE Deadline
  BY <1>17 DEF Deadline, Commits, CommitsTo, disk, config, bounds
<1>18. CASE DropBak
  BY <1>18, TagAssumption DEF DropBak, Commits, CommitsTo, config, bounds, CommitterHonest, StagesWhenSettled, Staging
<1>19. CASE Promote
  BY <1>19 DEF Promote, CommitsTo, config, bounds, Selectable
<1>20. CASE PromoteDropBackup
  BY <1>20 DEF PromoteDropBackup, Commits, CommitsTo, config, bounds
<1>21. CASE PromoteForget
  BY <1>21 DEF PromoteForget, Commits, CommitsTo, config, bounds
<1>22. CASE PromoteReport
  BY <1>22 DEF PromoteReport, Commits, CommitsTo, config, bounds
<1>23. ASSUME NEW a \in Appliers, InFlight(a) PROVE Kept
  BY <1>23, ToIdle DEF InFlight, disk, config, bounds
<1>24. ASSUME NEW a \in Appliers, TakeGate(a) PROVE Kept
  BY <1>24, PipelineMoves DEF TakeGate, Moved, disk, config, bounds, OneApply, PastGate, Staging
<1>25. ASSUME NEW a \in Appliers, Download(a) PROVE Kept
  BY <1>25, PipelineMoves DEF Download, Moved, config, bounds, OneApply, PastGate, Staging
<1>26. ASSUME NEW a \in Appliers, StageBackup(a) PROVE Kept
  BY <1>26, PipelineMoves DEF StageBackup, Moved, config, bounds, OneApply, PastGate, Staging
<1>27. ASSUME NEW a \in Appliers, StageRecord(a) PROVE Kept
  BY <1>27, PipelineMoves DEF StageRecord, Moved, config, bounds, OneApply, PastGate, Staging
<1>28. ASSUME NEW a \in Appliers, StageBak(a) PROVE Kept
  <2>1. UNCHANGED install /\ pc = "serving" /\ Steps(a) \in {"bak", "copying"}
    BY <1>28, PipelineMoves DEF StageBak, Moved
  <2>2. \A b \in Appliers : b # a => Steps(b) \notin {"swap", "mark", "restart"}
    BY <2>1 DEF OneApply, PastGate, Staging
  <2>3. install \notin Crash
    BY <2>1, <2>2
  <2>4. CASE Moved(a, "bak", "copying") /\ bak' = Partial
    BY <2>1, <2>2, <2>3, <2>4, TagAssumption DEF Moved
  <2>5. CASE Moved(a, "copying", "swap") /\ bak' = install
    BY <2>1, <2>2, <2>3, <2>5 DEF Moved
  <2> QED BY <1>28, <2>4, <2>5, PipelineMoves
<1>29. ASSUME NEW a \in Appliers, StageSwap(a) PROVE Kept
  BY <1>29, PipelineMoves DEF StageSwap, Moved, config, bounds, OneApply, PastGate, Staging, Stages, TypeOK
<1>30. ASSUME NEW a \in Appliers, StageMarker(a) PROVE Kept
  BY <1>30, PipelineMoves DEF StageMarker, Moved, config, bounds, OneApply, PastGate, Staging
<1>31. ASSUME NEW a \in Appliers, ApplyFails(a) PROVE Kept
  BY <1>31, ToIdle DEF ApplyFails, config, bounds
<1>32. ASSUME NEW a \in Appliers, RestartSelf(a) PROVE Kept
  BY <1>32, AllIdle DEF RestartSelf, Exec, Down, Volatile, disk, config, bounds
<1>33. ASSUME NEW a \in Appliers, Start(a) PROVE Kept
  <2>1. UNCHANGED <<pc, image, committer, disk, config, proven, mishaps>>
    BY <1>33 DEF Start
  <2> QED BY <1>33, <2>1, StartFacts DEF disk, config
<1>34. ASSUME NEW a \in Appliers, NEW m \in Manifests, CheckFails(a, m) PROVE Kept
  BY <1>34, ToIdle DEF CheckFails, disk, config, bounds
<1>35. ASSUME NEW a \in Appliers, NEW m \in Manifests, UpToDate(a, m) PROVE Kept
  BY <1>35, ToIdle DEF UpToDate, disk, bounds
<1>36. ASSUME NEW a \in Appliers, NEW m \in Manifests, Available(a, m) PROVE Kept
  <2>1. /\ pc = "serving" /\ applier[a].step = "check"
        /\ UNCHANGED <<pc, committer, pending, gate, disk, image, proven, mishaps, switches>>
    BY <1>36 DEF Available, bounds
  <2> QED BY <1>36, <2>1, AvailableFacts DEF disk
<1>37. ASSUME NEW c \in Channels, SetChannel(c) PROVE Kept
  BY <1>37 DEF SetChannel, disk, process
<1>39. CASE RollBackFails
  BY <1>39 DEF RollBackFails, At, Boots, disk, config, bounds
<1>40. CASE RestoreFails
  BY <1>40 DEF RestoreFails, At, Boots, disk, config, bounds
<1>41. ASSUME NEW a \in Appliers, StageBegin(a) PROVE Kept
  BY <1>41, PipelineMoves DEF StageBegin, Moved, config, bounds, OneApply, PastGate, Staging
<1>38. CASE UNCHANGED vars
  BY <1>38 DEF vars, disk, config, process, bounds
<1> QED BY <1>1, <1>2, <1>3, <1>4, <1>5, <1>6, <1>7, <1>8, <1>9, <1>10, <1>11, <1>12,
           <1>13, <1>14, <1>15, <1>16, <1>17, <1>18, <1>19, <1>20, <1>21, <1>22, <1>23,
           <1>24, <1>25, <1>26, <1>27, <1>28, <1>29, <1>30, <1>31, <1>32, <1>33, <1>34,
           <1>35, <1>36, <1>37, <1>38, <1>39, <1>40, <1>41
        DEF Next, BootStep, CommitStep, ApplyStep

(* The record and the marker. *)
LEMMA NextRecord ==
    ASSUME Orderly, Orderly', TypeOK, Stages, OneApply, StagesWhenSettled, CommitterHonest, MarkerMatches,
           InstallWhole, InstallBoots, SwapBesideCopy, RecordStaged, [Next]_vars
    PROVE  RecordStaged' /\ MarkerMatches'
<1> USE TagFacts DEF RecordStaged, MarkerMatches, Swapped, Steps
<1>1. CASE Respawn
  BY <1>1, AllIdle DEF Respawn, Exec, Down, Volatile, disk, config, bounds
<1>2. CASE Kill
  BY <1>2, AllIdle DEF Kill, Down, Volatile, disk, config, SwapBesideCopy
<1>3. CASE NothingStaged
  BY <1>3 DEF NothingStaged, At, Boots, disk, config, bounds
<1>4. CASE CountAttempt
  BY <1>4 DEF CountAttempt, At, Boots, config, bounds, MaxBootAttempts, InstallBoots, TypeOK, StagesWhenSettled
<1>5. CASE RollBack
  BY <1>5 DEF RollBack, At, Boots, config, bounds, TypeOK, StagesWhenSettled, MaxBootAttempts
<1>6. CASE ClearMarker
  BY <1>6 DEF ClearMarker, At, Boots, config, bounds
<1>7. CASE NothingInFlight
  BY <1>7 DEF NothingInFlight, At, Boots, disk, config, bounds, RolledBack
<1>8. CASE UnreadableRecord
  BY <1>8 DEF UnreadableRecord, At, Boots, config, bounds, RolledBack, StagesWhenSettled, Staging
<1>9. CASE BeginRestore
  BY <1>9 DEF BeginRestore, Boots, config, bounds, RolledBack
<1>10. CASE Restore
  BY <1>10 DEF Restore, At, Boots, config, bounds
<1>11. CASE DropBackup
  BY <1>11 DEF DropBackup, At, Boots, config, bounds
<1>12. CASE Forget
  BY <1>12 DEF Forget, At, Boots, config, bounds, StagesWhenSettled, Staging
<1>13. CASE Report
  BY <1>13 DEF Report, At, Boots, config, bounds
<1>14. CASE Open
  BY <1>14 DEF Open, config, bounds, Migrated, StagesWhenSettled
<1>15. CASE CrashAtBoot
  BY <1>15, AllIdle DEF CrashAtBoot, Down, Volatile, config, bounds
<1>16. CASE Healthy
  BY <1>16 DEF Healthy, Commits, CommitsTo, config, bounds, CommitterHonest
<1>17. CASE Deadline
  BY <1>17 DEF Deadline, Commits, CommitsTo, disk, config, bounds
<1>18. CASE DropBak
  BY <1>18 DEF DropBak, Commits, CommitsTo, config, bounds, CommitterHonest
<1>19. CASE Promote
  BY <1>19 DEF Promote, CommitsTo, config, bounds, Selectable, StagesWhenSettled, CommitterHonest, Staging
<1>20. CASE PromoteDropBackup
  BY <1>20 DEF PromoteDropBackup, Commits, CommitsTo, config, bounds
<1>21. CASE PromoteForget
  BY <1>21 DEF PromoteForget, Commits, CommitsTo, config, bounds, StagesWhenSettled, CommitterHonest, Promoting, Staging
<1>22. CASE PromoteReport
  BY <1>22 DEF PromoteReport, Commits, CommitsTo, config, bounds
<1>23. ASSUME NEW a \in Appliers, InFlight(a) PROVE RecordStaged' /\ MarkerMatches'
  BY <1>23, ToIdle DEF InFlight, disk, config, bounds
<1>24. ASSUME NEW a \in Appliers, TakeGate(a) PROVE RecordStaged' /\ MarkerMatches'
  BY <1>24, PipelineMoves DEF TakeGate, Moved, disk, config, bounds, OneApply, PastGate, Staging
<1>25. ASSUME NEW a \in Appliers, Download(a) PROVE RecordStaged' /\ MarkerMatches'
  BY <1>25, PipelineMoves DEF Download, Moved, config, bounds, OneApply, PastGate, Staging
<1>26. ASSUME NEW a \in Appliers, StageBackup(a) PROVE RecordStaged' /\ MarkerMatches'
  BY <1>26, PipelineMoves DEF StageBackup, Moved, config, bounds, OneApply, PastGate, Staging
<1>27. ASSUME NEW a \in Appliers, StageRecord(a) PROVE RecordStaged' /\ MarkerMatches'
  BY <1>27, PipelineMoves DEF StageRecord, Moved, config, bounds, OneApply, PastGate, Staging, StagesWhenSettled
<1>28. ASSUME NEW a \in Appliers, StageBak(a) PROVE RecordStaged' /\ MarkerMatches'
  BY <1>28, PipelineMoves DEF StageBak, Moved, config, bounds, OneApply, PastGate, Staging, StagesWhenSettled
<1>29. ASSUME NEW a \in Appliers, StageSwap(a) PROVE RecordStaged' /\ MarkerMatches'
  BY <1>29, PipelineMoves DEF StageSwap, Moved, config, bounds, OneApply,
             PastGate, Staging, Stages, TypeOK, StagesWhenSettled
<1>30. ASSUME NEW a \in Appliers, StageMarker(a) PROVE RecordStaged' /\ MarkerMatches'
  <2>1. Moved(a, "mark", "restart") /\ UNCHANGED <<record, bak, install, activeTag>>
    BY <1>30, PipelineMoves DEF StageMarker
  <2>2. record = [from |-> activeTag, to |-> applier[a].to] /\ install = applier[a].to /\ bak # Partial
    BY <2>1 DEF Moved, SwapBesideCopy
  <2>3. record \in Records /\ record.to = install
    BY <2>1, <2>2 DEF Moved, Stages, Staging, Records, TypeOK
  <2>4. \A b \in Appliers : b # a => Steps(b) \notin PastGate
    BY <2>1 DEF Moved, OneApply, PastGate, Staging
  <2>5. RecordStaged'
    BY <2>1, <2>2, <2>4 DEF Moved, PastGate, Staging
  <2>6. MarkerMatches'
    BY <2>1, <2>2, <2>3 DEF Moved
  <2> QED BY <2>5, <2>6
<1>31. ASSUME NEW a \in Appliers, ApplyFails(a) PROVE RecordStaged' /\ MarkerMatches'
  <2>1. /\ Steps(a) \in PastGate \ {"mark", "restart"} /\ pc = "serving"
        /\ UNCHANGED <<pc, image, install, marker, bak, activeTag>>
        /\ record' # record => Steps(a) \in {"bak", "copying", "swap"}
    BY <1>31 DEF ApplyFails, PastGate, Staging
  <2>2. \A b \in Appliers : b # a => Steps(b) \notin PastGate
    BY <2>1 DEF OneApply
  <2>3. record' # record => marker = NoMarker
    BY <2>1, <2>2 DEF StagesWhenSettled, PastGate, Staging
  <2>4. applier'[a].step = "idle" /\ \A b \in Appliers : b # a => applier'[b] = applier[b]
    BY <1>31, ToIdle DEF ApplyFails
  <2> QED BY <2>1, <2>2, <2>3, <2>4 DEF PastGate, Staging
<1>32. ASSUME NEW a \in Appliers, RestartSelf(a) PROVE RecordStaged' /\ MarkerMatches'
  BY <1>32, AllIdle DEF RestartSelf, Exec, Down, Volatile, disk, config, bounds
<1>33. ASSUME NEW a \in Appliers, Start(a) PROVE RecordStaged' /\ MarkerMatches'
  BY <1>33, StartFacts DEF Start, disk, config
<1>34. ASSUME NEW a \in Appliers, NEW m \in Manifests, CheckFails(a, m) PROVE RecordStaged' /\ MarkerMatches'
  BY <1>34, ToIdle DEF CheckFails, disk, config, bounds
<1>35. ASSUME NEW a \in Appliers, NEW m \in Manifests, UpToDate(a, m) PROVE RecordStaged' /\ MarkerMatches'
  BY <1>35, ToIdle DEF UpToDate, disk, bounds
<1>36. ASSUME NEW a \in Appliers, NEW m \in Manifests, Available(a, m) PROVE RecordStaged' /\ MarkerMatches'
  <2>1. /\ pc = "serving" /\ applier[a].step = "check"
        /\ UNCHANGED <<pc, committer, pending, gate, disk, image, proven, mishaps, switches>>
    BY <1>36 DEF Available, bounds
  <2> QED BY <1>36, <2>1, AvailableFacts DEF disk
<1>37. ASSUME NEW c \in Channels, SetChannel(c) PROVE RecordStaged' /\ MarkerMatches'
  BY <1>37 DEF SetChannel, disk, process
<1>39. CASE RollBackFails
  BY <1>39 DEF RollBackFails, At, Boots, disk, config, bounds, TypeOK, MaxBootAttempts
<1>40. CASE RestoreFails
  BY <1>40 DEF RestoreFails, At, Boots, disk, config, bounds, RolledBack
<1>41. ASSUME NEW a \in Appliers, StageBegin(a) PROVE RecordStaged' /\ MarkerMatches'
  BY <1>41, PipelineMoves DEF StageBegin, Moved, config, bounds, OneApply, PastGate, Staging
<1>38. CASE UNCHANGED vars
  BY <1>38 DEF vars, disk, config, process, bounds
<1> QED BY <1>1, <1>2, <1>3, <1>4, <1>5, <1>6, <1>7, <1>8, <1>9, <1>10, <1>11, <1>12,
           <1>13, <1>14, <1>15, <1>16, <1>17, <1>18, <1>19, <1>20, <1>21, <1>22, <1>23,
           <1>24, <1>25, <1>26, <1>27, <1>28, <1>29, <1>30, <1>31, <1>32, <1>33, <1>34,
           <1>35, <1>36, <1>37, <1>38, <1>39, <1>40, <1>41
        DEF Next, BootStep, CommitStep, ApplyStep

-----------------------------------------------------------------------------
(* The theorems *)

LEMMA NextSound == Sound /\ [Next]_vars => Sound'
<1> SUFFICES ASSUME Sound, [Next]_vars PROVE Sound'
  OBVIOUS
<1>1. TypeOK' /\ RestoreIsResumed' /\ RestoreReadsRecord' /\ RestoredFrom'
  BY NextTypeOK, NextRestore
<1>2. OneApply' /\ Stages'
  BY NextOneApply DEF Sound
<1>3. RecordBackup'
  BY NextBackup DEF Sound
<1>4. NeverSwitched' /\ ChecksForward' /\ StagesForward' /\ RecordForward'
  BY NextForward DEF Sound
<1> QED BY <1>1, <1>2, <1>3, <1>4 DEF Sound

(* Under every schedule of updates, kills, switches and failing files. *)
THEOREM SoundAlways == Spec => []Sound
BY InitSound, NextSound, PTL DEF Spec

(* Type correctness of the files, the process and the two appliers. *)
THEOREM TypeCorrect == Spec => []TypeOK
<1>1. Sound => TypeOK
  BY DEF Sound
<1> QED BY <1>1, SoundAlways, PTL

(* Neither Runtime::new nor a served request meets an auth.db whose         *)
(* restoration a kill cut short, however often boot_reconcile is cut; only  *)
(* a copy that fails, and a backup overwritten under its record, let half a *)
(* database through.                                                        *)
THEOREM NeverPartial == Spec => []NeverOpensPartial
<1>1. Sound => NeverOpensPartial
  BY DEF Sound, RestoreIsResumed, CopiesWell, NeverOpensPartial
<1> QED BY <1>1, SoundAlways, PTL

(* APPLY_IN_FLIGHT admits one apply to the pipeline at a time, whether it  *)
(* came from the REST handler or from the scheduler.                       *)
THEOREM AppliesExclude == Spec => []OneApply
<1>1. Sound => OneApply
  BY DEF Sound
<1> QED BY <1>1, SoundAlways, PTL

LEMMA InitHandover == Init => Handover
<1> SUFFICES ASSUME Init PROVE Handover
  OBVIOUS
<1>1. \A a \in Appliers : Steps(a) = "idle"
  BY DEF Init, Idle, Steps
<1>2. First \notin Crash /\ NoTag \notin Crash
  BY TagFacts, TagAssumption
<1>3. StagesWhenSettled /\ SwapBesideCopy /\ RecordStaged /\ ~Swapped
  BY <1>1 DEF StagesWhenSettled, SwapBesideCopy, RecordStaged, Swapped, Staging
<1>4. InstallWhole /\ BakBoots /\ InstallBoots /\ WayBack
  BY <1>2, TagFacts DEF Init, InstallWhole, BakBoots, InstallBoots, WayBack
<1>5. MarkerMatches /\ CommitterHonest /\ ActiveIsProven
  BY DEF Init, MarkerMatches, CommitterHonest, ActiveIsProven, Promoting
<1> QED BY <1>3, <1>4, <1>5 DEF Handover

(* What has happened stays on record. *)
LEMMA OrderlyBefore == ASSUME [Next]_vars, Orderly' PROVE Orderly
BY DEF Orderly, Next, BootStep, CommitStep, ApplyStep, Respawn, Kill, NothingStaged, CountAttempt, RollBack,
       RollBackFails, ClearMarker, NothingInFlight, UnreadableRecord, BeginRestore, Restore, RestoreFails,
       DropBackup, Forget, Report, Open, CrashAtBoot, Healthy, Deadline, DropBak, Promote, PromoteDropBackup,
       PromoteForget, PromoteReport, Start, CheckFails, UpToDate, Available, InFlight, TakeGate, Download,
       StageBegin, StageBackup, StageRecord, StageBak, StageSwap, StageMarker, ApplyFails, RestartSelf,
       SetChannel, vars

LEMMA NextIInv == IInv /\ [Next]_vars => IInv'
<1> SUFFICES ASSUME IInv, [Next]_vars PROVE IInv'
  OBVIOUS
<1>1. Sound /\ Sound'
  BY NextSound DEF IInv
<1>2. ASSUME Orderly' PROVE Handover'
  <2> Orderly /\ Orderly' /\ Handover
    BY <1>2, OrderlyBefore DEF IInv
  <2> USE <1>1 DEF Handover, Sound
  <2>2. StagesWhenSettled'
    BY NextSettled
  <2>3. CommitterHonest' /\ ActiveIsProven'
    BY NextCommitter
  <2>4. InstallWhole' /\ BakBoots' /\ InstallBoots' /\ SwapBesideCopy' /\ WayBack'
    BY NextInstall
  <2>5. RecordStaged' /\ MarkerMatches'
    BY NextRecord
  <2> QED BY <2>2, <2>3, <2>4, <2>5
<1> QED BY <1>1, <1>2 DEF IInv

(* Sound always, and the hand-over until an update is staged over one that  *)
(* is not committed.                                                        *)
THEOREM InductiveInvariant == Spec => []IInv
<1>1. Init => IInv
  BY InitSound, InitHandover DEF IInv
<1> QED BY <1>1, NextIInv, PTL DEF Spec

(* "never leaving the box unbootable": wherever a kill or a failure cut    *)
(* stage_orchestrator_update or boot_check short, a release that cannot    *)
(* boot is installed only beside a whole one that can.                     *)
THEOREM AlwaysAWayBack == Spec => []WayBack
<1>1. IInv => WayBack
  BY DEF IInv, Orderly, Handover, WayBack
<1> QED BY <1>1, InductiveInvariant, PTL

(* promote_committed makes active only a release that answered /healthz.   *)
THEOREM OnlyProvenActive == Spec => []ActiveIsProven
<1>1. IInv => ActiveIsProven
  BY DEF IInv, Orderly, Handover, ActiveIsProven
<1> QED BY <1>1, InductiveInvariant, PTL

(* Only promote_committed writes the active release. *)
LEMMA ActiveByPromote == ASSUME [Next]_vars, activeTag' # activeTag PROVE Promote
BY DEF Next, BootStep, CommitStep, ApplyStep, Respawn, Kill, NothingStaged, CountAttempt, RollBack, RollBackFails, ClearMarker,
       NothingInFlight, UnreadableRecord, BeginRestore, Restore, RestoreFails, DropBackup, Forget, Report, Open, CrashAtBoot,
       Healthy, Deadline, DropBak, PromoteDropBackup, PromoteForget, PromoteReport, Start, CheckFails, UpToDate,
       Available, InFlight, TakeGate, Download, StageBegin, StageBackup, StageRecord, StageBak, StageSwap, StageMarker,
       ApplyFails, RestartSelf, SetChannel, vars, disk

(* Only boot_reconcile and promote_committed write the result. *)
LEMMA ResultByReports == ASSUME [Next]_vars, lastResult' # lastResult PROVE Report \/ PromoteReport
BY DEF Next, BootStep, CommitStep, ApplyStep, Respawn, Kill, NothingStaged, CountAttempt, RollBack, RollBackFails, ClearMarker,
       NothingInFlight, UnreadableRecord, BeginRestore, Restore, RestoreFails, DropBackup, Forget, Open, CrashAtBoot,
       Healthy, Deadline, DropBak, Promote, PromoteDropBackup, PromoteForget, Start, CheckFails, UpToDate,
       Available, InFlight, TakeGate, Download, StageBegin, StageBackup, StageRecord, StageBak, StageSwap, StageMarker,
       ApplyFails, RestartSelf, SetChannel, vars, disk

(* Anti-rollback: evaluate_parsed's comparison is made long before          *)
(* promote_committed acts on it, across a restart, and updates may be staged *)
(* over one another; on a box that never switched channels the release only *)
(* moves forward, as long as each was compared with the one then active.    *)
THEOREM NeverBackwards == Spec => StableMovesForward
<1>1. Sound /\ [Next]_vars =>
        [switches = 0 /\ "stale_check" \notin mishaps /\ activeTag' # activeTag => activeTag' > activeTag]_vars
  <2> SUFFICES ASSUME Sound, [Next]_vars, OnCourse, activeTag' # activeTag
               PROVE  activeTag' > activeTag
    BY DEF OnCourse
  <2>1. Promote
    BY ActiveByPromote
  <2>2. activeTag' = record.to /\ record \in Records /\ record.to >= activeTag
    BY <2>1, TagFacts DEF Promote, CommitsTo, Selectable, Sound, TypeOK, RecordForward
  <2>3. activeTag \in Int /\ record.to \in Int
    BY <2>2, TagAssumption DEF Sound, TypeOK, Records, Tags, NoTag
  <2> QED BY <2>2, <2>3
<1> QED BY <1>1, SoundAlways, PTL DEF Spec, StableMovesForward

(* What the update pane shows: promote_committed reports success only of    *)
(* the release that is installed, running, active and proven.               *)
THEOREM SuccessReported == Spec => SuccessIsTrue
<1>1. IInv /\ [Next]_vars =>
        [lastResult' # lastResult /\ lastResult'[1] = "success" /\ "overlap" \notin mishaps =>
             LET t == lastResult'[2] IN t = install /\ t = image /\ t = activeTag /\ t \in proven]_vars
  <2> SUFFICES ASSUME IInv, [Next]_vars, lastResult' # lastResult, lastResult'[1] = "success", Orderly
               PROVE  LET t == lastResult'[2] IN t = install /\ t = image /\ t = activeTag /\ t \in proven
    BY DEF Orderly
  <2>1. PromoteReport
    BY ResultByReports DEF Report
  <2>2. committer = "result" /\ lastResult' = <<"success", pending.to>>
    BY <2>1 DEF PromoteReport, Commits, CommitsTo
  <2> QED BY <2>2 DEF IInv, Handover, CommitterHonest, Promoting
<1> QED BY <1>1, InductiveInvariant, PTL DEF Spec, SuccessIsTrue

=============================================================================
