-------------------------- MODULE PersistenceWriter --------------------------
(***************************************************************************)
(* The agent's state on disk: the main loop builds a batch of file         *)
(* operations and hands it to a background thread that debounces batches,  *)
(* writes them file by file, and is flushed when the program ends.         *)
(* Sources: src/src/state/persistence, the save paths of src/src/app/run,  *)
(* handle_input_submit, handle_clear_conversation, push_history_chunk.     *)
(*                                                                         *)
(* A message is a uid, its kind and a number drawn from the counter that   *)
(* config.json keeps, and a body; bodies are numbered in the order they    *)
(* are created, so two messages that get the same uid in two lives of the  *)
(* program differ.                                                         *)
(* The files are config.json, the worker file (which names the history     *)
(* panels), the conversation panel, one file per history panel and one per *)
(* message.  The process may be killed between any two file operations.    *)
(* Another instance may open the folder meanwhile: it loads what is there, *)
(* and claims the folder with a whole save of what it loaded.              *)
(***************************************************************************)
EXTENDS Integers, Sequences, FiniteSets, SequencesExt

CONSTANTS MaxMessages,   \* messages created, over all lives
          MaxSaves,      \* batches built, over all lives
          MaxCrashes,    \* kills
          MaxShared      \* batches built, when another instance opens the folder

ASSUME BoundsAssumption ==
    /\ MaxMessages \in Nat \ {0} /\ MaxSaves \in Nat \ {0}
    /\ MaxCrashes \in Nat /\ MaxShared \in 0 .. MaxSaves

Bodies == 1 .. MaxMessages
Numbers == 1 .. 2 * MaxMessages   \* a history panel takes one as well
Uids == Numbers \X {"U", "A"}      \* UID_{n}_U and UID_{n}_A
Absent == 0                       \* the body of a missing message file
Exits == {"quit", "reload", "exec", "disowned"}

VARIABLES
    main,      \* what the main thread is doing
    exit,      \* which way out of the loop it took
    mem,       \* State: conversation, history panels, global_next_uid
    mainOps,   \* operations a synchronous save has left
    chan,      \* the channel of WriterMsg
    batch,     \* pending_batch, <<>> when None
    messages,  \* pending_messages
    exec,      \* operations the writer thread has left to execute
    then,      \* what it does after them: "loop", "ack" or "exit"
    flush,     \* the flush it is executing
    acked,     \* flushes signalled as complete
    disk,      \* the store
    made, built, crashes,   \* counters of messages, batches and kills
    handed,    \* bodies given to the writer or saved synchronously
    removed,   \* bodies deleted by Clear or moved by a detach
    overtaken, \* a synchronous save began with a batch still to be written
    stale,     \* this life was loaded after that had happened
    timedOut,  \* a flush of this exit gave up
    guest,     \* another instance: where it is in its boot, its State and save
    replaced   \* its save wrote something else over what a file said

mainVars   == <<main, exit, mem, mainOps>>
threadVars == <<batch, messages, exec, then, flush, acked>>
ghosts     == <<made, built, crashes, handed, removed, overtaken, stale, timedOut>>
ownVars == <<mainVars, chan, threadVars, disk, ghosts>>
vars == <<ownVars, guest, replaced>>

-----------------------------------------------------------------------------
(* File operations: fs::write and fs::remove_file, one file at a time. *)

Config(v) == [kind |-> "config", uid |-> 0, val |-> v]
Worker(v) == [kind |-> "worker", uid |-> 0, val |-> v]
Chat(v) == [kind |-> "chat", uid |-> 0, val |-> v]
Panel(u, v) == [kind |-> "panel", uid |-> u, val |-> v]
File(m) == [kind |-> "message", uid |-> m.uid, val |-> m.body]
NoPanel == <<>>                   \* no file; otherwise <<list of messages>>

Apply(d, op) ==
    CASE op.kind = "config" -> [d EXCEPT !.config = op.val]
      [] op.kind = "worker" -> [d EXCEPT !.worker = op.val]
      [] op.kind = "chat" -> [d EXCEPT !.chat = op.val]
      [] op.kind = "panel" -> [d EXCEPT !.panel[op.uid] = op.val]
      [] op.kind = "message" -> [d EXCEPT !.message[op.uid] = op.val]

DeleteFiles(d, ms) ==
    [d EXCEPT !.message =
        [u \in Uids |-> IF \E i \in DOMAIN ms : ms[i].uid = u THEN Absent ELSE @[u]]]

(* What a panel file records of a message: its uid.  The body and whether   *)
(* the message had been handed over when the batch was built are kept for  *)
(* the properties.                                                          *)
Listed(ms, h) ==
    [i \in DOMAIN ms |-> [uid |-> ms[i].uid, body |-> ms[i].body, handed |-> ms[i].body \in h]]

(* build_save_batch: config, worker, panels, the messages of the history   *)
(* panels, then the deletes of the panel files that no live panel owns.    *)
(* v numbers the batch; h is the set of bodies handed over so far.          *)
PanelWrites(m, h) == {Panel(u, <<Listed(m.history[u], h)>>) : u \in DOMAIN m.history}
HistoryMessages(m) ==
    UNION {{File(m.history[u][j]) : j \in DOMAIN m.history[u]} : u \in DOMAIN m.history}
OrphanDeletes(m) ==
    {Panel(u, NoPanel) : u \in {p \in Numbers \ DOMAIN m.history : disk.panel[p] # NoPanel}}

BuildSaveBatch(m, v, h) ==
    <<Config([next |-> m.next, ver |-> v, owner |-> "self", reload |-> FALSE]),
      Worker(DOMAIN m.history), Chat(Listed(m.chat, h))>>
    \o (SetToSeq(PanelWrites(m, h)) \o SetToSeq(HistoryMessages(m)) \o SetToSeq(OrphanDeletes(m)))

(* The messages of ms with one of the bodies, in their order (filter_map). *)
Of(ms, bodies) ==
    LET upTo[k \in 0 .. Len(ms)] ==
            IF k = 0 THEN <<>>
            ELSE IF ms[k].body \in bodies THEN Append(upTo[k - 1], ms[k]) ELSE upTo[k - 1]
    IN  upTo[Len(ms)]

(* The state a boot reads back: listed messages whose file is missing are  *)
(* skipped, and so are history panels the worker file does not name.       *)
LoadMessages(d, list) ==
    Of([i \in DOMAIN list |-> [uid |-> list[i].uid, body |-> d.message[list[i].uid]]], Bodies)

LoadState(d) ==
    [chat |-> LoadMessages(d, d.chat),
     history |-> [u \in {p \in d.worker : d.panel[p] # NoPanel} |-> LoadMessages(d, d.panel[u][1])],
     next |-> d.config.next]

-----------------------------------------------------------------------------
EmptyDisk ==
    [config |-> [next |-> 1, ver |-> 0, owner |-> "self", reload |-> FALSE],
     worker |-> {}, chat |-> <<>>,
     panel |-> [u \in Numbers |-> NoPanel], message |-> [u \in Uids |-> Absent]]

Default == [chat |-> <<>>, history |-> [u \in {} |-> <<>>], next |-> 1]

(* A fresh project: default state, a new writer, nothing on disk. *)
Init ==
    /\ main = "run" /\ exit = "none"
    /\ mem = Default
    /\ mainOps = <<>> /\ chan = <<>>
    /\ batch = <<>> /\ messages = <<>> /\ exec = <<>> /\ then = "loop"
    /\ flush = 0 /\ acked = {}
    /\ disk = EmptyDisk
    /\ made = 0 /\ built = 0 /\ crashes = 0
    /\ handed = {} /\ removed = {} /\ overtaken = FALSE /\ stale = FALSE /\ timedOut = FALSE
    /\ guest = [at |-> "absent", mem |-> Default, ver |-> 0, ops |-> <<>>] /\ replaced = FALSE

(* The bound on the batches built. *)
MayBuild == built < IF guest.at = "absent" THEN MaxSaves ELSE MaxShared

SendBatch(b) == [kind |-> "batch", ops |-> b]
SendMessage(op) == [kind |-> "message", ops |-> <<op>>]
SendFlush(n) == [kind |-> "flush", ops |-> <<>>, id |-> n]
SendShutdown == [kind |-> "shutdown", ops |-> <<>>]

(* save_state_async after mem has become m, behind the messages ms. *)
SaveStateAsync(m, ms) ==
    /\ MayBuild
    /\ built' = built + 1
    /\ mem' = m
    /\ chan' = chan \o [i \in DOMAIN ms |-> SendMessage(File(ms[i]))]
                    \o <<SendBatch(BuildSaveBatch(m, built + 1, handed'))>>

-----------------------------------------------------------------------------
(* The main loop. *)

(* handle_input_submit: the user's message is written by the main thread   *)
(* itself (save_message), before the batch that lists it is built.         *)
UserMessage ==
    LET msg == [uid |-> <<mem.next, "U">>, body |-> made + 1]
    IN  /\ main = "run" /\ made < MaxMessages /\ mem.next \in Numbers
        /\ made' = made + 1
        /\ handed' = handed \cup {msg.body}
        /\ disk' = Apply(disk, File(msg))
        /\ SaveStateAsync([mem EXCEPT !.chat = Append(@, msg), !.next = @ + 1], <<>>)
        /\ UNCHANGED <<main, exit, mainOps, threadVars, crashes, removed, overtaken, stale, timedOut>>

(* A stream starts: an empty assistant message is pushed and the state is  *)
(* saved; the message itself is not, until it is complete.                 *)
BeginAssistant ==
    LET msg == [uid |-> <<mem.next, "A">>, body |-> made + 1]
    IN  /\ main = "run" /\ made < MaxMessages /\ mem.next \in Numbers
        /\ made' = made + 1
        /\ UNCHANGED handed
        /\ SaveStateAsync([mem EXCEPT !.chat = Append(@, msg), !.next = @ + 1], <<>>)
        /\ UNCHANGED <<main, exit, mainOps, threadVars, disk, crashes, removed,
                       overtaken, stale, timedOut>>

(* apply_stream_done, on_stop_stream, collect_tool_results: the message is *)
(* handed over, and then the state.                                         *)
FinishAssistant ==
    /\ main = "run" /\ mem.chat # <<>>
    /\ LET msg == Last(mem.chat)
       IN  /\ msg.body \notin handed
           /\ handed' = handed \cup {msg.body}
           /\ SaveStateAsync(mem, <<msg>>)
    /\ UNCHANGED <<main, exit, mainOps, threadVars, disk, made, crashes, removed, overtaken, stale, timedOut>>

BodiesOf(ms) == {ms[i].body : i \in DOMAIN ms}

(* handle_clear_conversation: the files go at once, the panel that lists   *)
(* them when the batch is written.                                          *)
ClearConversation ==
    /\ main = "run" /\ mem.chat # <<>>
    /\ disk' = DeleteFiles(disk, mem.chat)
    /\ removed' = removed \cup BodiesOf(mem.chat)
    /\ UNCHANGED handed
    /\ SaveStateAsync([mem EXCEPT !.chat = <<>>], <<>>)
    /\ UNCHANGED <<main, exit, mainOps, threadVars, made, crashes, overtaken, stale, timedOut>>

(* push_history_chunk, in prepare_stream_context, then the save of the     *)
(* stream start: the oldest messages (one, here) move to a history panel   *)
(* with a uid of its own, and their files are deleted; the batch writes    *)
(* them again.                                                              *)
Detach ==
    /\ main = "run" /\ Len(mem.chat) > 1 /\ mem.next \in Numbers
    /\ Head(mem.chat).body \in handed
    /\ LET old == <<Head(mem.chat)>>
           u == mem.next
       IN  /\ disk' = DeleteFiles(disk, old)
           /\ removed' = removed \cup BodiesOf(old)
           /\ UNCHANGED handed
           /\ SaveStateAsync(
                [chat |-> Tail(mem.chat), next |-> u + 1,
                 history |-> [p \in DOMAIN mem.history \cup {u} |->
                                IF p = u THEN old ELSE mem.history[p]]], <<>>)
    /\ UNCHANGED <<main, exit, mainOps, threadVars, made, crashes, overtaken, stale, timedOut>>

(* A history panel is closed; its file is an orphan for the next batch. *)
ClosePanel(u) ==
    /\ main = "run" /\ u \in DOMAIN mem.history
    /\ UNCHANGED handed
    /\ SaveStateAsync([mem EXCEPT !.history = [p \in DOMAIN @ \ {u} |-> @[p]]], <<>>)
    /\ UNCHANGED <<main, exit, mainOps, threadVars, disk, made, crashes, removed,
                   overtaken, stale, timedOut>>

(* A batch is still to be written, in the channel, pending or half way. *)
BatchQueued ==
    \/ batch # <<>> \/ exec # <<>>
    \/ \E i \in DOMAIN chan : chan[i].kind = "batch"

StartSyncSave ==
    /\ built' = built + 1
    /\ mainOps' = BuildSaveBatch(mem, built + 1, handed)
    /\ overtaken' = (overtaken \/ BatchQueued)

(* destroy_reverie_on_report: save_state, on the main thread, beside the   *)
(* writer.                                                                  *)
SyncSave ==
    /\ main = "run" /\ MayBuild
    /\ StartSyncSave
    /\ main' = "saving"
    /\ UNCHANGED <<exit, mem, chan, threadVars, disk, made, crashes, handed, removed, stale, timedOut>>

(* exec_write_op / exec_delete_op, one of a synchronous save. *)
SyncOp ==
    /\ main \in {"saving", "lastSave"} /\ mainOps # <<>>
    /\ disk' = Apply(disk, Head(mainOps))
    /\ mainOps' = Tail(mainOps)
    /\ main' = IF main = "saving" /\ Tail(mainOps) = <<>> THEN "run" ELSE main
    /\ UNCHANGED <<exit, mem, chan, threadVars, ghosts>>

-----------------------------------------------------------------------------
(* The ways out of the loop. *)

Leave(e, next) ==
    /\ main = "run"
    /\ exit' = e
    /\ main' = next
    /\ chan' = Append(chan, SendFlush(1))
    /\ timedOut' = FALSE
    /\ UNCHANGED <<mem, mainOps, threadVars, disk, made, built, crashes, handed, removed, overtaken, stale>>

(* Quit and reload: writer.flush(), then save_state.  A reload either      *)
(* leaves through main under run.sh, or replaces the process by exec.      *)
Quit == \E e \in Exits \ {"disowned"} : Leave(e, "flush")

(* check_ownership, once a second: the loop is left at once; the flush is   *)
(* the one in the writer's Drop.                                            *)
Disowned == disk.config.owner # "self" /\ Leave("disowned", "drop")

(* Mutant: flush does not wait for the answer. *)
FlushForgotten(n) == UNCHANGED timedOut

(* PersistenceWriter::flush returns: the writer signalled completion, ...  *)
FlushDone(n) == n \in acked /\ UNCHANGED timedOut

(* ... or five seconds went by. *)
FlushTimeout(n) == n \notin acked /\ timedOut' = TRUE

FinalSave ==
    /\ main = "flush"
    /\ FlushDone(1) \/ FlushTimeout(1)
    /\ StartSyncSave
    /\ main' = "lastSave"
    /\ UNCHANGED <<exit, mem, chan, threadVars, disk, made, crashes, handed, removed, stale>>

(* write_reload_flag rewrites config.json after save_state; then the app   *)
(* is dropped, which flushes again, or exec replaces the process.          *)
LeaveMain ==
    /\ main = "lastSave" /\ mainOps = <<>>
    /\ disk' = IF exit = "quit" THEN disk ELSE [disk EXCEPT !.config.reload = TRUE]
    /\ main' = IF exit = "exec" THEN "down" ELSE "drop"
    /\ chan' = IF exit = "exec" THEN chan ELSE Append(chan, SendFlush(2))
    /\ UNCHANGED <<exit, mem, mainOps, threadVars, ghosts>>

(* Drop for PersistenceWriter: flush, then shutdown ... *)
DropWriter ==
    /\ main = "drop"
    /\ LET n == IF exit = "disowned" THEN 1 ELSE 2 IN FlushDone(n) \/ FlushTimeout(n)
    /\ chan' = Append(chan, SendShutdown)
    /\ main' = "join"
    /\ UNCHANGED <<exit, mem, mainOps, threadVars, disk, made, built, crashes, handed, removed, overtaken, stale>>

(* ... which joins the thread. *)
Join ==
    /\ main = "join" /\ then = "gone"
    /\ main' = "down"
    /\ UNCHANGED <<exit, mem, mainOps, chan, threadVars, disk, ghosts>>

-----------------------------------------------------------------------------
(* WriterThread::run. *)

Idle == exec = <<>> /\ then = "loop" /\ main # "down"

(* Mutant: the batch is written before the messages it lists. *)
ExecuteBatchFirst(after) ==
    /\ exec' = batch \o messages
    /\ messages' = <<>> /\ batch' = <<>>
    /\ then' = after

(* Flush, Shutdown and the debounce timeout write the messages first and   *)
(* then the batch.                                                          *)
ExecutePending(after) ==
    /\ exec' = messages \o batch
    /\ messages' = <<>> /\ batch' = <<>>
    /\ then' = after

(* Mutant: batches are merged, the older behind the newer. *)
CoalesceWrongWay ==
    /\ Idle /\ chan # <<>> /\ Head(chan).kind = "batch"
    /\ chan' = Tail(chan)
    /\ batch' = Head(chan).ops \o batch
    /\ UNCHANGED <<mainVars, messages, exec, then, flush, acked, disk, ghosts>>

Receive ==
    /\ Idle /\ chan # <<>>
    /\ chan' = Tail(chan)
    /\ LET msg == Head(chan) IN
       \/ /\ msg.kind = "batch"
          /\ batch' = msg.ops
          /\ UNCHANGED <<messages, exec, then, flush>>
       \/ /\ msg.kind = "message"
          /\ messages' = messages \o msg.ops
          /\ UNCHANGED <<batch, exec, then, flush>>
       \/ /\ msg.kind = "flush"
          /\ flush' = msg.id
          /\ ExecutePending("ack")
       \/ /\ msg.kind = "shutdown"
          /\ ExecutePending("exit")
          /\ UNCHANGED flush
    /\ UNCHANGED <<mainVars, acked, disk, ghosts>>

(* Mutant: a message that arrives stops the debounce clock. *)
DebounceStopped ==
    /\ Idle /\ chan = <<>> /\ batch # <<>> /\ messages = <<>>
    /\ ExecutePending("loop")
    /\ UNCHANGED <<mainVars, chan, flush, acked, disk, ghosts>>

(* recv_timeout, only while a batch is pending: nothing came for DEBOUNCE. *)
DebounceExpired ==
    /\ Idle /\ chan = <<>> /\ batch # <<>>
    /\ ExecutePending("loop")
    /\ UNCHANGED <<mainVars, chan, flush, acked, disk, ghosts>>

(* One write_file or remove_file of execute_pending_messages and            *)
(* execute_batch.                                                           *)
WriteFile ==
    /\ exec # <<>> /\ main # "down"
    /\ disk' = Apply(disk, Head(exec))
    /\ exec' = Tail(exec)
    /\ UNCHANGED <<mainVars, chan, batch, messages, then, flush, acked, ghosts>>

(* done_tx.send, or the end of the thread. *)
Written ==
    /\ exec = <<>> /\ then \in {"ack", "exit"} /\ main # "down"
    /\ acked' = IF then = "ack" THEN acked \cup {flush} ELSE acked
    /\ then' = IF then = "ack" THEN "loop" ELSE "gone"
    /\ UNCHANGED <<mainVars, chan, batch, messages, exec, flush, disk, ghosts>>

-----------------------------------------------------------------------------
(* The environment. *)

NewWriter ==
    /\ chan' = <<>> /\ batch' = <<>> /\ messages' = <<>> /\ exec' = <<>>
    /\ then' = "loop" /\ flush' = 0 /\ acked' = {}

Kill ==
    /\ main # "down" /\ crashes < MaxCrashes
    /\ crashes' = crashes + 1
    /\ main' = "down" /\ exit' = "killed" /\ mainOps' = <<>>
    /\ NewWriter
    /\ UNCHANGED <<mem, disk, made, built, handed, removed, overtaken, stale, timedOut>>

(* The phased boot, then the save_state that claims ownership. *)
Boot ==
    /\ main = "down" /\ MayBuild
    /\ mem' = LoadState(disk)
    /\ built' = built + 1
    /\ mainOps' = BuildSaveBatch(LoadState(disk), built + 1, handed)
    /\ main' = "saving" /\ exit' = "none"
    /\ NewWriter
    /\ stale' = overtaken
    /\ UNCHANGED <<disk, made, crashes, handed, removed, overtaken, timedOut>>

-----------------------------------------------------------------------------
(* Another instance, booted while this one has the folder open.  Its boot  *)
(* reads the files, and later saves all it has read, file by file like any *)
(* other save; what it does after that is a life of its own and not here.  *)
(* It may stop between any two steps for good.                              *)

GuestLoads ==
    /\ guest.at = "absent" /\ main # "down" /\ built < MaxShared
    /\ guest' = [guest EXCEPT !.at = "loaded", !.mem = LoadState(disk), !.ver = disk.config.ver]
    /\ UNCHANGED <<ownVars, replaced>>

(* build_save_batch of the loaded state, with the pid of the other process; *)
(* the panel files it does not know are orphans to it.  The State is not    *)
(* needed any more.                                                         *)
ClaimBatch(m, v) == [BuildSaveBatch(m, v, handed) EXCEPT ![1].val.owner = "other"]

GuestSaves ==
    /\ guest.at = "loaded"
    /\ guest' = [at |-> "saving", mem |-> Default, ver |-> 0, ops |-> ClaimBatch(guest.mem, guest.ver)]
    /\ UNCHANGED <<ownVars, replaced>>

(* exec_write_op / exec_delete_op of the other process. *)
GuestWrites ==
    /\ guest.at = "saving" /\ guest.ops # <<>>
    /\ disk' = Apply(disk, Head(guest.ops))
    /\ guest' = [guest EXCEPT !.ops = Tail(@)]
    /\ replaced' = (replaced \/ disk' \notin {disk, [disk EXCEPT !.config.owner = "other"]})
    /\ UNCHANGED <<mainVars, chan, threadVars, ghosts>>

-----------------------------------------------------------------------------
MainNext ==
    \/ UserMessage \/ BeginAssistant \/ FinishAssistant \/ ClearConversation \/ Detach
    \/ \E u \in Numbers : ClosePanel(u)
    \/ SyncSave \/ SyncOp
    \/ Quit \/ Disowned \/ FinalSave \/ LeaveMain \/ DropWriter \/ Join
ThreadNext == Receive \/ DebounceExpired \/ WriteFile \/ Written
OwnNext == MainNext \/ ThreadNext \/ Kill \/ Boot
Apart == UNCHANGED <<guest, replaced>>
Next == (OwnNext /\ Apart) \/ GuestLoads \/ GuestSaves \/ GuestWrites

Fairness ==
    /\ WF_vars(ThreadNext /\ Apart)
    /\ WF_vars((SyncOp \/ FinalSave \/ LeaveMain \/ DropWriter \/ Join) /\ Apart)

Spec == Init /\ [][Next]_vars /\ Fairness

-----------------------------------------------------------------------------
Messages == [uid : Uids, body : Bodies]
ListedMessages == [uid : Uids, body : Bodies, handed : BOOLEAN]
Configs == [next : Nat, ver : Nat, owner : {"self", "other"}, reload : BOOLEAN]

Ops ==
    [kind : {"config"}, uid : {0}, val : Configs] \cup [kind : {"worker"}, uid : {0}, val : SUBSET Numbers]
    \cup [kind : {"chat"}, uid : {0}, val : Seq(ListedMessages)]
    \cup [kind : {"panel"}, uid : Numbers, val : Seq(Seq(ListedMessages))]
    \cup [kind : {"message"}, uid : Uids, val : Bodies]
WriterMsgs ==
    [kind : {"batch", "message"}, ops : Seq(Ops)] \cup [kind : {"shutdown"}, ops : {<<>>}]
    \cup [kind : {"flush"}, ops : {<<>>}, id : {1, 2}]
Disks ==
    [config : Configs, worker : SUBSET Numbers, chat : Seq(ListedMessages),
     panel : [Numbers -> Seq(Seq(ListedMessages))], message : [Uids -> Bodies \cup {Absent}]]

StateOK(m) ==
    /\ m = [chat |-> m.chat, history |-> m.history, next |-> m.next]
    /\ m.chat \in Seq(Messages) /\ m.next \in Nat
    /\ DOMAIN m.history \subseteq Numbers /\ m.history \in [DOMAIN m.history -> Seq(Messages)]
MainTypeOK ==
    /\ main \in {"run", "saving", "flush", "lastSave", "drop", "join", "down"}
    /\ exit \in Exits \cup {"none", "killed"}
    /\ StateOK(mem) /\ mainOps \in Seq(Ops)
ThreadTypeOK ==
    /\ chan \in Seq(WriterMsgs)
    /\ batch \in Seq(Ops) /\ messages \in Seq(Ops) /\ exec \in Seq(Ops)
    /\ then \in {"loop", "ack", "exit", "gone"}
    /\ acked \subseteq {0, 1, 2} /\ flush \in 0 .. 2
CountersTypeOK ==
    /\ made \in 0 .. MaxMessages /\ built \in Nat /\ crashes \in Nat
    /\ handed \subseteq Bodies /\ removed \subseteq Bodies
    /\ overtaken \in BOOLEAN /\ stale \in BOOLEAN /\ timedOut \in BOOLEAN

OwnTypeOK == MainTypeOK /\ ThreadTypeOK /\ disk \in Disks /\ CountersTypeOK
GuestTypeOK ==
    /\ guest = [at |-> guest.at, mem |-> guest.mem, ver |-> guest.ver, ops |-> guest.ops]
    /\ guest.at \in {"absent", "loaded", "saving"} /\ guest.ver \in Nat
    /\ StateOK(guest.mem) /\ guest.ops \in Seq(Ops)
    /\ replaced \in BOOLEAN

(* Types: the state in memory and on disk, and the operations on their way *)
(* from one to the other, this instance's and the other's.                  *)
TypeOK == OwnTypeOK /\ GuestTypeOK

(* What a boot must find of the state in memory: a message still being     *)
(* streamed has not been handed over, and has no file unless an earlier     *)
(* life left one behind under the same uid.                                 *)
Kept(ms) == Of(ms, handed)

(* flush ("Used on app exit to ensure all state is persisted"), save_state *)
(* and Drop: when the program has ended, in any of its four ways and       *)
(* without a flush giving up, nothing handed to the writer is left, and    *)
(* the disk loads to the state memory held, with the flag of a reload for  *)
(* run.sh.  Excluded from the second part are lives that began after an     *)
(* older batch had overwritten a synchronous save (the uid counter may      *)
(* have gone back, and two messages then share a file), and what another    *)
(* instance replaced by the older state it had loaded.                      *)
ExitPersistsAll ==
    main = "down" /\ exit \in Exits /\ ~timedOut =>
        /\ messages = <<>> /\ ~BatchQueued
        /\ ~stale /\ ~replaced =>
               /\ LoadState(disk).next = mem.next
               /\ LoadState(disk).history = mem.history
               /\ Of(LoadState(disk).chat, BodiesOf(mem.chat)) = Kept(mem.chat)
               /\ disk.config.reload = (exit \in {"reload", "exec"})

(* A message the conversation file lists, and that had been handed over    *)
(* when that list was built, has its own file with its own body, through   *)
(* every kill and boot: pending messages are written before the batch, and *)
(* config.json, with the uid counter, before the panels, so no later life  *)
(* gives the uid to another message.  Excluded are the messages cleared or *)
(* detached since, a synchronous save that overtook a queued batch, and    *)
(* another instance that replaced a file by what it had loaded before: it   *)
(* can put an older uid counter back.                                       *)
ListedMessageIntact ==
    ~overtaken /\ ~replaced =>
        \A i \in DOMAIN disk.chat :
            LET m == disk.chat[i] IN
            m.handed /\ m.body \notin removed => disk.message[m.uid] = m.body

(* "Replace the pending batch (coalesce - only the latest state matters)": *)
(* as long as no synchronous save overtook a queued batch, config.json     *)
(* never goes back to an older state, whatever was coalesced or flushed;   *)
(* only the claim of another instance can put one back.                     *)
LatestStateWins ==
    [][~overtaken' => disk'.config.ver >= disk.config.ver \/ disk'.config.owner = "other"]_vars

(* The debounce delays a save and never drops it, and messages do not wait  *)
(* for good although the thread waits without a timeout while no batch is   *)
(* pending: whatever was handed to the writer is written or the program     *)
(* ends.                                                                    *)
SavesLand ==
    (BatchQueued \/ messages # <<>>) ~> (main = "down" \/ (~BatchQueued /\ messages = <<>>))

(* No way out hangs: flush gives up after five seconds, and the join ends   *)
(* because the thread finds the Shutdown behind its work.                   *)
ExitEnds == (main \in {"flush", "lastSave", "drop", "join"}) ~> (main = "down")

(* "Used for shutdown paths and places where the PersistenceWriter is not  *)
(* available": a state saved synchronously is not overwritten by an older  *)
(* one.                                                                     *)
SyncSaveSticks == [][disk'.config.ver >= disk.config.ver]_vars
=============================================================================
