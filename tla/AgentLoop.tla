----------------------------- MODULE AgentLoop -----------------------------
(***************************************************************************)
(* One agent's main loop (src/app/run): the stream of the language model,  *)
(* the tool pipeline with its queue and its blocking watchers, the spine   *)
(* that launches the next stream, and the user who types, stops, clears    *)
(* and reloads.                                                            *)
(*                                                                         *)
(* A tick is the sequence of handlers of run_background_phase; "pc" is the *)
(* handler to run next.  Provider threads only send on the stream channel, *)
(* which only the handler at "events" reads, so they are interleaved at    *)
(* "input" and "events" alone.  What a handler reads of the outside world  *)
(* (a panel loaded, a deadline passed, a script ended) is a choice made    *)
(* when it reads it.                                                       *)
(*                                                                         *)
(* Text is abstracted to "the message has content"; the typewriter that    *)
(* paces it and the token, cost and cache bookkeeping are left out.        *)
(***************************************************************************)
EXTENDS Integers, Sequences, FiniteSets

CONSTANTS
  ToolKinds,       \* the kinds of tool call the model may make
  MaxCalls,        \* bound: tool calls the model makes
  Inputs,          \* what comes from outside: "message", "stop", "clear", "reload", "error"
  MaxInputs,       \* bound: how often, all together
  MaxApiRetries,   \* MAX_API_RETRIES
  MaxAutoRetries,  \* SpineConfig.max_auto_retries
  OtherLimits      \* what the output, duration and message guard rails may answer

AllToolKinds ==
  {"plain",          \* runs and returns
   "edit",           \* Edit or Write: may trigger blocking callbacks
   "wait",           \* console_wait or an asynchronous tool: a blocking watcher
   "watch",          \* registers a watcher that ends in a notification
   "sleep",          \* asks for a delay before the next stream
   "guarded",        \* pre-flight activates the queue
   "invalid",        \* pre-flight error
   "queue_execute", "queue_pause",
   "reload"}         \* system_reload

ASSUME ToolKindsAssumption == ToolKinds \subseteq AllToolKinds
ASSUME BoundsAssumption ==
  /\ MaxCalls \in Nat /\ MaxInputs \in Nat
  /\ Inputs \subseteq {"message", "stop", "clear", "reload", "error"}
  /\ MaxApiRetries \in Nat /\ MaxAutoRetries \in Nat
  /\ OtherLimits \subseteq BOOLEAN /\ FALSE \in OtherLimits

VARIABLES
  pc,            \* the next handler of the tick
  llm,           \* provider threads still sending, by stream number
  channel,       \* the stream channel, oldest first
  streams,       \* streams started so far
  calls,         \* tool calls made so far
  inputs,        \* inputs so far
  phase,         \* StreamPhase
  pendingDone,   \* App.pending_done: the stream whose Done it is, or 0 for None
  pendingTools,  \* App.pending_tools
  retry,         \* App.pending_retry_error is Some
  retries,       \* State.api_retry_count
  messages,      \* State.messages
  batch,         \* tools of the batch still to execute
  results,       \* their results so far
  flushed,       \* what the last queue flush of the batch executed
  nextToolId,    \* State.next_tool_id
  queue,         \* QueueState
  waiting,       \* App.pending_console_wait_tool_results, or NoWait
  arrived,       \* App.accumulated_blocking_results, by key
  watchers,      \* WatcherRegistry
  deferred,      \* waiting_for_panels, deferred_tool_sleeping, tool_sleep_until_ms > 0
  reloading,     \* reload_pending
  unprocessed,   \* sources of the unprocessed notifications
  blocked,       \* sources of the notifications a guard rail blocked
  spine,         \* user_stopped, auto_continuation_count, continuation errors
  executed,      \* history: how often each call was executed
  broken         \* history: a stop, a clear or a reload cut through pending work

loopVars == <<phase, pendingDone, pendingTools, retry, retries, deferred, reloading>>
batchVars == <<batch, results, flushed, nextToolId>>
waitVars == <<waiting, arrived, watchers>>
providerVars == <<llm, channel, streams, calls>>
spineVars == <<unprocessed, blocked, spine>>
vars == <<pc, providerVars, inputs, loopVars, messages, batchVars, queue, waitVars,
          spineVars, executed, broken>>

NoWait == <<>>
Keys == Nat \X {"tool", "flush", "callback"}

(* The calls a batch may hold: the model's own, and those the queue        *)
(* replays under an id of their own ("flush_{index}_{id}").                *)
Call(n, via, kind) == [key |-> <<n, via>>, kind |-> kind]
Result(call, out, key) == [call |-> call.key, kind |-> call.kind, out |-> out, key |-> key]

(* Messages: what the user or the spine says, the assistant's turn, a tool *)
(* call, and the results of a batch.                                       *)
UserText(kind) == [kind |-> kind, text |-> TRUE, calls |-> <<>>]
EmptyAssistant == [kind |-> "assistant", text |-> FALSE, calls |-> <<>>]
ToolCall(call) == [kind |-> "call", text |-> FALSE, calls |-> <<Result(call, "call", call.key)>>]
ToolResults(rs) ==
  [kind |-> "result", text |-> FALSE,
   calls |-> [i \in 1..Len(rs) |-> [rs[i] EXCEPT !.key = rs[i].call]]]

Role(m) == IF m.kind \in {"assistant", "call"} THEN "assistant" ELSE "user"
HasContent(m) == m.text \/ m.calls # <<>>
LastMessage == messages[Len(messages)]
LastIsAssistant(ms) == ms # <<>> /\ Role(ms[Len(ms)]) = "assistant"

Streaming == phase \in {"receiving", "executing"}
BlockingWatchers(ws) == {w \in ws : w.blocking}

Init ==
  /\ pc = "input"
  /\ llm = {} /\ channel = <<>> /\ streams = 0 /\ calls = 0
  /\ inputs = 0
  /\ phase = "idle" /\ pendingDone = 0 /\ pendingTools = <<>>
  /\ retry = FALSE /\ retries = 0
  /\ messages = <<>>
  /\ batch = <<>> /\ results = <<>> /\ flushed = <<>> /\ nextToolId = 1
  /\ queue = [active |-> FALSE, calls |-> <<>>]
  /\ waiting = NoWait /\ arrived = {} /\ watchers = {}
  /\ deferred = [panels |-> FALSE, sleeping |-> FALSE, asked |-> FALSE]
  /\ reloading = FALSE
  /\ unprocessed = {} /\ blocked = {}
  /\ spine = [stopped |-> FALSE, count |-> 0, errors |-> 0]
  /\ executed = [n \in 1..MaxCalls |-> 0]
  /\ broken = FALSE

-----------------------------------------------------------------------------
(* The tick.  The handlers run in this order; one with nothing to do       *)
(* changes nothing and is passed over.                                     *)

(* handle_tool_execution's and finalize_stream's early returns *)
MayExecute ==
  /\ Streaming /\ pendingDone # 0 /\ pendingTools # <<>>
  /\ ~deferred.panels /\ ~deferred.sleeping

(* Mutant: a wait does not hold the stream open. *)
MayFinalizeWhileWaiting ==
  /\ Streaming /\ pendingDone # 0 /\ pendingTools = <<>>
  /\ ~deferred.panels /\ ~deferred.sleeping

MayFinalize ==
  /\ Streaming /\ pendingDone # 0 /\ pendingTools = <<>>
  /\ ~deferred.panels /\ ~deferred.sleeping /\ waiting = NoWait

(* check_spine's early returns; its backoff is a choice made there. *)
Positions(kinds) == {i \in 1..Len(messages) : messages[i].kind \in kinds}
LastOf(S) == CHOOSE i \in S : \A j \in S : j <= i

(* last_synthetic_unanswered *)
LastSyntheticUnanswered ==
  LET said == Positions({"user", "asked", "synthetic", "note"})
      last == LastOf(said)
  IN /\ said # {} /\ messages[last].kind = "synthetic"
     /\ \A i \in last..Len(messages) : ~(Role(messages[i]) = "assistant" /\ HasContent(messages[i]))

(* Mutant: the spine holds back while anything is blocked. *)
SpineMayActUnlessBlocked ==
  /\ ~Streaming /\ ~spine.stopped /\ blocked = {}
  /\ unprocessed # {} /\ ~LastSyntheticUnanswered

SpineMayAct ==
  /\ ~Streaming /\ ~spine.stopped
  /\ unprocessed # {} /\ ~LastSyntheticUnanswered

(* Mutant: the early return of an empty registry comes first. *)
WatchersMatterAlone == watchers # {}

(* check_watchers does nothing without watchers, unless results wait. *)
WatchersMatter == watchers # {} \/ waiting # NoWait

Handlers == <<"retry", "panels", "sleep", "watchers", "tools", "finalize", "spine", "reload">>

HasWork ==
  [retry    |-> retry,
   panels   |-> deferred.panels,
   sleep    |-> deferred.sleeping,
   watchers |-> WatchersMatter,
   tools    |-> MayExecute,
   finalize |-> MayFinalize,
   spine    |-> SpineMayAct,
   reload   |-> reloading]

(* The first handler from the i-th on that will find something to do. *)
GoTo(i) ==
  LET busy == {j \in i..Len(Handlers) : HasWork'[Handlers[j]]}
  IN pc' = IF busy = {} THEN "input" ELSE Handlers[CHOOSE j \in busy : \A k \in busy : j <= k]

-----------------------------------------------------------------------------
(* Provider threads.  They know nothing of stops: a stopped stream goes on *)
(* sending, and nothing in an event tells which stream it belongs to.      *)

Happens(input) == input \in Inputs /\ inputs < MaxInputs /\ inputs' = inputs + 1

SendEvent(g, ev) ==
  /\ g \in llm /\ pc \in {"input", "events"}
  /\ channel' = Append(channel, ev)
  /\ UNCHANGED <<pc, streams, loopVars, messages, batchVars, queue, waitVars, spineVars,
                 executed, broken>>

SendText(g) ==
  /\ \A i \in 1..Len(channel) : channel[i].stream # g
  /\ messages # <<>> /\ ~LastMessage.text
  /\ SendEvent(g, [stream |-> g, kind |-> "text"])
  /\ UNCHANGED <<llm, calls, inputs>>

SendToolUse(g) ==
  /\ calls < MaxCalls
  /\ calls' = calls + 1
  /\ \E k \in ToolKinds :
       SendEvent(g, [stream |-> g, kind |-> "tool", call |-> Call(calls + 1, "tool", k)])
  /\ UNCHANGED <<llm, inputs>>

SendDone(g) ==
  /\ SendEvent(g, [stream |-> g, kind |-> "done"])
  /\ llm' = llm \ {g}
  /\ UNCHANGED <<calls, inputs>>

SendError(g) ==
  /\ Happens("error")
  /\ SendEvent(g, [stream |-> g, kind |-> "error"])
  /\ llm' = llm \ {g}
  /\ UNCHANGED calls

(* start_streaming: a thread of its own, with a clone of the one sender. *)
StartStreaming == streams' = streams + 1 /\ llm' = llm \cup {streams + 1}
NoNewStream == UNCHANGED <<streams, llm>>

(* continue_streaming *)
ContinueStreaming ==
  /\ phase' = "receiving" /\ pendingDone' = 0
  /\ StartStreaming

-----------------------------------------------------------------------------
(* Input *)

NoInput ==
  /\ pc = "input" /\ pc' = "events"
  /\ UNCHANGED <<providerVars, inputs, loopVars, messages, batchVars, queue, waitVars,
                 spineVars, executed, broken>>

(* handle_input_submit: the message goes before the last one while a       *)
(* stream is on.  check_spine runs at once ("typed").                      *)
InsertUserMessage ==
  IF Streaming /\ messages # <<>>
  THEN SubSeq(messages, 1, Len(messages) - 1) \o <<UserText("user"), LastMessage>>
  ELSE Append(messages, UserText("user"))

UserMessage ==
  /\ pc = "input" /\ Happens("message")
  /\ messages' = InsertUserMessage
  /\ unprocessed' = unprocessed \cup {"user"}
  /\ spine' = [stopped |-> FALSE, count |-> 0, errors |-> 0]
  /\ pc' = "typed"
  /\ UNCHANGED <<providerVars, loopVars, batchVars, queue, waitVars, blocked, executed,
                 broken>>

(* What nothing cancels: a thread and its events, a stream to come. *)
StreamAhead == llm # {} \/ channel # <<>> \/ deferred.panels \/ deferred.sleeping
PendingWork == StreamAhead \/ waiting # NoWait \/ pendingDone # 0 \/ pendingTools # <<>>

Stopping ==
  /\ pc = "input" /\ Streaming
  /\ Happens("stop")
  /\ phase' = "idle"
  /\ spine' = [spine EXCEPT !.stopped = TRUE]
  /\ pc' = "events"
  /\ UNCHANGED <<providerVars, retry, retries, deferred, reloading, batchVars, queue,
                 unprocessed, blocked, executed>>

(* Esc: handle_stop_streaming, on_stop_stream and                          *)
(* flush_pending_tool_results_as_interrupted, which removes the watchers   *)
(* registered under a pending result's own id.                             *)
(* Mutant: the pending results are dropped. *)
WithoutInterrupted(ms) == ms

WithInterrupted(ms) ==
  IF waiting = NoWait THEN ms
  ELSE Append(ms, ToolResults([i \in 1..Len(waiting) |-> [waiting[i] EXCEPT !.out = "interrupted"]]))

Esc ==
  /\ Stopping
  /\ broken' = (broken \/ StreamAhead)
  /\ pendingDone' = 0 /\ pendingTools' = <<>>
  /\ waiting' = NoWait /\ arrived' = {}
  /\ messages' = WithInterrupted(messages)
  /\ watchers' = {w \in watchers : \A i \in 1..Len(waiting) :
                     waiting[i].out = "sentinel" => w.key # waiting[i].call}

(* apply_stop, the Stop and InterruptStream commands of the backend. *)
WebStop ==
  /\ Stopping
  /\ broken' = (broken \/ PendingWork)
  /\ UNCHANGED <<pendingDone, pendingTools, messages, waitVars>>

(* handle_clear_conversation; check_spine follows. *)
Clear ==
  /\ pc = "input"
  /\ Happens("clear")
  /\ messages # <<>> /\ messages' = <<>>
  /\ broken' = (broken \/ PendingWork \/ Streaming)
  /\ pc' = "typed"
  /\ UNCHANGED <<providerVars, loopVars, batchVars, queue, waitVars, spineVars, executed>>

(* The palette's reload command. *)
PaletteReload ==
  /\ pc = "input" /\ ~reloading
  /\ Happens("reload")
  /\ reloading' = TRUE
  /\ UNCHANGED <<pc, providerVars, phase, pendingDone, pendingTools, retry, retries, deferred,
                 messages, batchVars, queue, waitVars, spineVars, executed, broken>>

-----------------------------------------------------------------------------
(* The stream handlers *)

(* process_stream_events, one event: dropped when no stream is on. *)
AfterEvent ==
  /\ pc = "events" /\ channel # <<>>
  /\ channel' = Tail(channel)
  /\ UNCHANGED <<pc, llm, streams, calls, inputs, deferred, reloading, batchVars, queue,
                 waitVars, unprocessed, blocked, executed, broken>>

DropEvent ==
  /\ AfterEvent /\ ~Streaming
  /\ UNCHANGED <<phase, pendingDone, pendingTools, retry, retries, messages, spine>>

(* handle_append_chars: only into a last message that is the assistant's. *)
TextEvent ==
  /\ AfterEvent /\ Streaming /\ Head(channel).kind = "text"
  /\ messages' = IF LastIsAssistant(messages)
                 THEN [messages EXCEPT ![Len(messages)].text = TRUE] ELSE messages
  /\ UNCHANGED <<phase, pendingDone, pendingTools, retry, retries, spine>>

ToolEvent ==
  /\ AfterEvent /\ Streaming /\ Head(channel).kind = "tool"
  /\ pendingTools' = Append(pendingTools, Head(channel).call)
  /\ UNCHANGED <<phase, pendingDone, retry, retries, messages, spine>>

DoneEvent ==
  /\ AfterEvent /\ Streaming /\ Head(channel).kind = "done"
  /\ pendingDone' = Head(channel).stream /\ retries' = 0
  /\ UNCHANGED <<phase, pendingTools, retry, messages, spine>>

(* handle_stream_error_event: another attempt, or handle_stream_error and  *)
(* one more consecutive continuation error.                                *)
MayRetry == retries < MaxApiRetries

ErrorEvent ==
  /\ AfterEvent /\ Streaming /\ Head(channel).kind = "error"
  /\ \/ /\ MayRetry
        /\ retries' = retries + 1 /\ retry' = TRUE
        /\ UNCHANGED <<phase, messages, spine>>
     \/ /\ ~MayRetry
        /\ retries' = 0 /\ phase' = "idle"
        /\ messages' = IF LastIsAssistant(messages)
                       THEN [messages EXCEPT ![Len(messages)].text = TRUE] ELSE messages
        /\ spine' = [spine EXCEPT !.errors = @ + 1]
        /\ UNCHANGED retry
  /\ UNCHANGED <<pendingDone, pendingTools>>

EventsDrained ==
  /\ pc = "events" /\ channel = <<>>
  /\ UNCHANGED <<providerVars, inputs, loopVars, messages, batchVars, queue, waitVars,
                 spineVars, executed, broken>>
  /\ GoTo(1)

(* handle_retry; the tool calls of the failed attempt stay. *)
(* Mutant: the retry resets and does not launch. *)
ResetOnly == pendingDone' = 0 /\ NoNewStream

Relaunch == pendingDone' = 0 /\ StartStreaming

HandleRetry ==
  /\ pc = "retry"
  /\ retry' = FALSE
  /\ IF Streaming
     THEN /\ messages' = IF LastIsAssistant(messages)
                         THEN [messages EXCEPT ![Len(messages)].text = FALSE] ELSE messages
          /\ Relaunch
     ELSE NoNewStream /\ UNCHANGED <<messages, pendingDone>>
  /\ UNCHANGED <<channel, calls, inputs, phase, pendingTools, retries, deferred, reloading,
                 batchVars, queue, waitVars, spineVars, executed, broken>>
  /\ GoTo(2)

(* check_waiting_for_panels and check_deferred_sleep: the panels may be    *)
(* loaded (or five seconds gone), the timer may have expired.              *)
ResumeOrWait(cleared) ==
  /\ \/ ContinueStreaming /\ deferred' = cleared
     \/ NoNewStream /\ UNCHANGED <<deferred, phase, pendingDone>>
  /\ UNCHANGED <<channel, calls, inputs, pendingTools, retry, retries, reloading, messages,
                 batchVars, queue, waitVars, spineVars, executed, broken>>

CheckWaitingForPanels ==
  /\ pc = "panels"
  /\ ResumeOrWait([deferred EXCEPT !.panels = FALSE])
  /\ GoTo(3)

CheckDeferredSleep ==
  /\ pc = "sleep"
  /\ ResumeOrWait([deferred EXCEPT !.sleeping = FALSE])
  /\ GoTo(4)

-----------------------------------------------------------------------------
(* The tail of a batch: the results, the next assistant message, and the   *)
(* next stream at once or after the sleep or the panels.                   *)
AfterResults(ms, sleeps) ==
  \/ /\ reloading
     /\ messages' = ms
     /\ NoNewStream /\ UNCHANGED <<phase, pendingDone, deferred>>
  \/ /\ ~reloading
     /\ messages' = Append(ms, EmptyAssistant)
     /\ \/ /\ sleeps
           /\ deferred' = [deferred EXCEPT !.sleeping = TRUE, !.asked = FALSE]
           /\ NoNewStream /\ UNCHANGED <<phase, pendingDone>>
        \/ /\ ~sleeps
           /\ deferred' = [deferred EXCEPT !.panels = TRUE]
           /\ NoNewStream /\ UNCHANGED <<phase, pendingDone>>
        \/ /\ ~sleeps
           /\ ContinueStreaming /\ UNCHANGED deferred

(* resume_pipeline_after_blocking looks at the panels and not at the sleep. *)
ResumePipeline(ms) == AfterResults(ms, FALSE)

(* create_notification while a stream is on puts a message in the          *)
(* conversation, unless it would come between a call and its result.       *)
InjectNote(ms) ==
  IF Streaming /\ ~(LastIsAssistant(ms) /\ ms[Len(ms)].calls # <<>>)
  THEN Append(ms, UserText("note")) ELSE ms

(* A sentinel is replaced by what its watcher returned, or, when no        *)
(* watcher is left that could, by "result unavailable".                    *)
Resolved(r, keys) ==
  IF r.out # "sentinel" THEN r
  ELSE [r EXCEPT !.out = IF r.key \in keys THEN "ok" ELSE "unavailable"]

(* Mutant: the first result to arrive resumes the pipeline. *)
FirstArrived(left) == left # watchers \/ BlockingWatchers(left) = {}

(* Mutant: the waiting results are read and not taken. *)
ReadWaiting == UNCHANGED waiting /\ arrived' = {}

AllArrived(left) == BlockingWatchers(left) = {}
TakeWaiting == waiting' = NoWait /\ arrived' = {}

(* check_watchers: "fired" have met their condition or their deadline. *)
CheckWatchers(fired) ==
  LET left == watchers \ fired
      got == arrived \cup {w.key : w \in BlockingWatchers(fired)}
      noted == IF fired \subseteq BlockingWatchers(fired) THEN messages ELSE InjectNote(messages)
      resume == waiting # NoWait /\ AllArrived(left)
  IN
  /\ pc = "watchers"
  /\ watchers' = left
  /\ unprocessed' = IF fired \subseteq BlockingWatchers(fired) THEN unprocessed
                    ELSE unprocessed \cup {"watcher"}
  /\ \/ /\ resume
        /\ TakeWaiting
        /\ ResumePipeline(Append(noted, ToolResults([i \in 1..Len(waiting) |->
                                                       Resolved(waiting[i], got)])))
     \/ /\ ~resume
        /\ arrived' = IF waiting = NoWait THEN arrived ELSE got
        /\ messages' = noted
        /\ NoNewStream /\ UNCHANGED <<waiting, phase, pendingDone, deferred>>
  /\ UNCHANGED <<channel, calls, inputs, pendingTools, retry, retries, reloading, batchVars,
                 queue, blocked, spine, executed, broken>>
  /\ GoTo(5)

-----------------------------------------------------------------------------
(* The tool pipeline *)

(* collect_tool_results starts a batch ... *)
(* Mutant: pending_tools is cloned and not taken. *)
ClonePendingTools == batch' = pendingTools /\ UNCHANGED pendingTools

TakePendingTools == batch' = pendingTools /\ pendingTools' = <<>>

CollectTools ==
  /\ pc = "tools"
  /\ pc' = "execute" /\ phase' = "executing"
  /\ TakePendingTools
  /\ results' = <<>> /\ flushed' = <<>>
  /\ UNCHANGED <<nextToolId, providerVars, inputs, pendingDone, retry, retries, deferred, reloading,
                 messages, queue, waitVars, spineVars, executed, broken>>

(* What execute_tool does, by the kind of the call. *)
ExecutedResult(c) == Result(c, IF c.kind = "wait" THEN "sentinel" ELSE "ok", c.key)
NewWatchers(c) ==
  CASE c.kind = "wait" -> {[key |-> c.key, blocking |-> TRUE]}
    [] c.kind = "watch" -> {[key |-> c.key, blocking |-> FALSE]}
    [] OTHER -> {}

ExecuteAll(cs) ==
  /\ watchers' = watchers \cup UNION {NewWatchers(cs[i]) : i \in 1..Len(cs)}
  /\ deferred' = [deferred EXCEPT !.asked = @ \/ \E i \in 1..Len(cs) : cs[i].kind = "sleep"]
  /\ reloading' = (reloading \/ \E i \in 1..Len(cs) : cs[i].kind = "reload")
  /\ executed' = [n \in 1..MaxCalls |->
                    executed[n] + Cardinality({i \in 1..Len(cs) : cs[i].key[1] = n})]

ExecuteNone == UNCHANGED <<watchers, deferred, reloading, executed>>

(* execute_queue_flush: the queued calls run under fresh ids. *)
Replay(cs) == [i \in 1..Len(cs) |-> Call(cs[i].key[1], "flush", cs[i].kind)]

DrainedQueue == [active |-> FALSE, calls |-> <<>>]

Flush ==
  /\ flushed' = Replay(queue.calls)
  /\ ExecuteAll(Replay(queue.calls))
  /\ queue' = IF queue.calls = <<>> THEN queue ELSE DrainedQueue

(* ... one tool at a time: its message, then execute_one_tool. *)
Answer(c, out) == results' = Append(results, Result(c, out, c.key))

QueueControl(c) ==
  /\ c.kind \in {"queue_execute", "queue_pause"}
  /\ Answer(c, "ok")
  /\ \/ ExecuteNone /\ UNCHANGED <<queue, flushed>>                \* the history trap
     \/ c.kind = "queue_execute" /\ Flush
     \/ /\ c.kind = "queue_pause"
        /\ queue' = [queue EXCEPT !.active = FALSE]
        /\ ExecuteNone /\ UNCHANGED flushed

Enqueue(c) == [active |-> TRUE, calls |-> Append(queue.calls, c)]

Ordinary(c) ==
  /\ c.kind \notin {"queue_execute", "queue_pause"}
  /\ \/ /\ c.kind = "invalid"
        /\ Answer(c, "error")
        /\ ExecuteNone /\ UNCHANGED <<queue, flushed>>
     \/ /\ c.kind # "invalid" /\ (queue.active \/ c.kind = "guarded")
        /\ Answer(c, "queued")
        /\ queue' = Enqueue(c)
        /\ ExecuteNone /\ UNCHANGED flushed
     \/ /\ c.kind \notin {"invalid", "guarded"} /\ ~queue.active
        /\ results' = Append(results, ExecutedResult(c))
        /\ ExecuteAll(<<c>>)
        /\ UNCHANGED <<queue, flushed>>

ExecuteTool ==
  /\ pc = "execute" /\ batch # <<>>
  /\ batch' = Tail(batch)
  /\ messages' = Append(messages, ToolCall(Head(batch)))
  /\ nextToolId' = nextToolId + 1
  /\ QueueControl(Head(batch)) \/ Ordinary(Head(batch))
  /\ UNCHANGED <<pc, providerVars, inputs, phase, pendingDone, pendingTools, retry, retries,
                 waiting, arrived, spineVars, broken>>

(* The replayed calls join the batch with a message and a result each. *)
ReplayFlushed ==
  /\ pc = "execute" /\ batch = <<>>
  /\ pc' = "callbacks"
  /\ messages' = messages \o [i \in 1..Len(flushed) |-> ToolCall(flushed[i])]
  /\ results' = results \o [i \in 1..Len(flushed) |-> ExecutedResult(flushed[i])]
  /\ flushed' = <<>>
  /\ nextToolId' = nextToolId + Len(flushed)
  /\ UNCHANGED <<providerVars, inputs, loopVars, batch, queue, waitVars, spineVars, executed,
                 broken>>

(* fire_edit_callbacks and what follows.  A queued Edit counts as changed  *)
(* although it has not run; the sentinel of the blocking callbacks rides   *)
(* on the last Edit that did run, if there is one.  Some of the callbacks  *)
(* may not spawn.                                                          *)
Edited == {i \in 1..Len(results) : results[i].kind = "edit"}
EditedNow == {i \in Edited : results[i].out = "ok"}

Tagged(key) ==
  IF EditedNow = {} THEN results
  ELSE LET last == CHOOSE i \in EditedNow : \A j \in EditedNow : j <= i
       IN [results EXCEPT ![last] = [@ EXCEPT !.out = "sentinel", !.key = key]]

FinishBatch(fires, spawns) ==
  LET key == <<nextToolId, "callback">>
      tagged == IF fires THEN Tagged(key) ELSE results
  IN
  /\ pc = "callbacks"
  /\ fires => Edited # {}
  /\ spawns => fires
  /\ nextToolId' = IF fires THEN nextToolId + 1 ELSE nextToolId
  /\ watchers' = IF spawns THEN watchers \cup {[key |-> key, blocking |-> TRUE]} ELSE watchers
  /\ results' = <<>>
  /\ \/ /\ \E i \in 1..Len(tagged) : tagged[i].out = "sentinel"
        /\ waiting' = tagged
        /\ NoNewStream /\ UNCHANGED <<messages, phase, pendingDone, deferred>>
     \/ /\ \A i \in 1..Len(tagged) : tagged[i].out # "sentinel"
        /\ AfterResults(Append(messages, ToolResults(tagged)), deferred.asked)
        /\ UNCHANGED waiting
  /\ UNCHANGED <<channel, calls, inputs, pendingTools, retry, retries, reloading, batch,
                 flushed, queue, arrived, spineVars, executed, broken>>
  /\ GoTo(6)

(* finalize_stream and apply_stream_done *)
UnblockAll == unprocessed' = unprocessed \cup blocked /\ blocked' = {}

FinalizeStream ==
  /\ pc = "finalize"
  /\ phase' = "idle" /\ pendingDone' = 0
  /\ spine' = [spine EXCEPT !.count = 0, !.errors = 0]
  /\ UnblockAll
  /\ UNCHANGED <<providerVars, inputs, pendingTools, retry, retries, deferred, reloading,
                 messages, batchVars, queue, waitVars, executed, broken>>
  /\ GoTo(7)

-----------------------------------------------------------------------------
(* The spine *)

LastRole ==
  LET full == {i \in 1..Len(messages) : HasContent(messages[i])}
  IN IF full = {} THEN "none" ELSE Role(messages[LastOf(full)])

(* check_spine finds nothing to do, or is in its backoff. *)
SpineIdle ==
  /\ ~SpineMayAct \/ spine.errors > 0
  /\ NoNewStream
  /\ UNCHANGED <<phase, pendingTools, messages, spineVars>>

(* check_guard_rails *)
MarkAllUnprocessedAsBlocked ==
  blocked' = blocked \cup unprocessed \cup {"guard_rail"} /\ unprocessed' = {}

SpineBlocked ==
  /\ SpineMayAct
  /\ \E limit \in OtherLimits : limit \/ spine.count >= MaxAutoRetries
  /\ MarkAllUnprocessedAsBlocked
  /\ NoNewStream
  /\ UNCHANGED <<phase, pendingTools, messages, spine>>

(* build_continuation_from_notifications: a synthetic message, a user turn *)
(* after the assistant's, or nothing when the user spoke last.             *)
Continuation ==
  CASE ~(unprocessed \subseteq {"user", "reload"}) \/ "user" \notin unprocessed ->
         Append(messages, UserText("synthetic"))
    [] unprocessed \subseteq {"user", "reload"} /\ "user" \in unprocessed /\ LastRole # "user" ->
         Append(messages, UserText("asked"))
    [] OTHER -> messages

(* apply_continuation and the new stream.  pending_done is not reset here. *)
SpineContinue ==
  /\ SpineMayAct /\ spine.count < MaxAutoRetries
  /\ unprocessed' = {}
  /\ spine' = [spine EXCEPT !.count = @ + 1]
  /\ messages' = Append(Continuation, EmptyAssistant)
  /\ phase' = "receiving" /\ pendingTools' = <<>>
  /\ StartStreaming
  /\ UNCHANGED blocked

CheckSpine ==
  /\ pc \in {"typed", "spine"}
  /\ SpineIdle \/ SpineBlocked \/ SpineContinue
  /\ UNCHANGED <<channel, calls, inputs, pendingDone, retry, retries, deferred, reloading,
                 batchVars, queue, waitVars, executed, broken>>
  /\ \/ pc = "typed" /\ pc' = "events"
     \/ pc = "spine" /\ GoTo(8)

-----------------------------------------------------------------------------
(* The end of the tick: a pending reload saves the state and restarts the  *)
(* process, which resumes with a ReloadResume notification.  Threads,      *)
(* blocking watchers and all that App holds are gone; coucou watchers,     *)
(* notifications, the queue and the conversation are loaded again.         *)
Reload ==
  /\ pc = "reload" /\ pc' = "input"
  /\ llm' = {} /\ channel' = <<>>
  /\ phase' = "idle" /\ pendingDone' = 0 /\ pendingTools' = <<>>
  /\ retry' = FALSE /\ retries' = 0 /\ reloading' = FALSE
  /\ deferred' = [panels |-> FALSE, sleeping |-> FALSE, asked |-> FALSE]
  /\ waiting' = NoWait /\ arrived' = {}
  /\ watchers' = watchers \ BlockingWatchers(watchers)
  /\ unprocessed' = unprocessed \cup {"reload"}
  /\ broken' = (broken \/ PendingWork)
  /\ UNCHANGED <<streams, calls, inputs, messages, batchVars, queue, blocked, spine, executed>>

Provider == \E g \in llm : SendText(g) \/ SendToolUse(g) \/ SendDone(g) \/ SendError(g)
User == UserMessage \/ Esc \/ WebStop \/ Clear \/ PaletteReload
Events == DropEvent \/ TextEvent \/ ToolEvent \/ DoneEvent \/ ErrorEvent \/ EventsDrained
Tools ==
  \/ CollectTools \/ ExecuteTool \/ ReplayFlushed
  \/ \E fires, spawns \in BOOLEAN : FinishBatch(fires, spawns)
Tick ==
  \/ NoInput \/ Events \/ HandleRetry \/ CheckWaitingForPanels \/ CheckDeferredSleep
  \/ \E fired \in SUBSET watchers : CheckWatchers(fired)
  \/ Tools \/ FinalizeStream \/ CheckSpine \/ Reload

Next == Provider \/ User \/ Tick

(* The loop ticks (compute_poll_ms bounds every wait); a provider thread   *)
(* ends (its transport times out); a blocking watcher meets its condition  *)
(* or its deadline; panels load or are waited for five seconds; a sleep    *)
(* and the backoff of the spine expire.  Each of these happens outside the *)
(* loop, so it is strong fairness for the handler that notices.            *)
Fairness ==
  /\ WF_vars(Tick)
  /\ SF_vars(\E g \in llm : SendDone(g) \/ SendError(g))
  /\ SF_vars(CheckWatchers(watchers))
  /\ SF_vars(CheckWaitingForPanels /\ ~deferred'.panels)
  /\ SF_vars(CheckDeferredSleep /\ ~deferred'.sleeping)
  /\ SF_vars(CheckSpine /\ unprocessed' # unprocessed)

Spec == Init /\ [][Next]_vars /\ Fairness

-----------------------------------------------------------------------------
CallSet == [key : (1..MaxCalls) \X {"tool", "flush"}, kind : ToolKinds]
ResultSet ==
  [call : (1..MaxCalls) \X {"tool", "flush"}, kind : ToolKinds, key : Keys,
   out : {"call", "ok", "sentinel", "error", "queued", "interrupted", "unavailable"}]
EventSet ==
  [stream : Nat, kind : {"text", "done", "error"}]
    \cup [stream : Nat, kind : {"tool"}, call : CallSet]
MessageSet ==
  [kind : {"user", "asked", "synthetic", "note", "assistant", "call", "result"},
   text : BOOLEAN, calls : Seq(ResultSet)]
Sources == {"user", "reload", "watcher", "guard_rail"}

LoopTypeOK ==
  /\ pc \in {"input", "typed", "events", "retry", "panels", "sleep", "watchers", "tools",
             "execute", "callbacks", "finalize", "spine", "reload"}
  /\ phase \in {"idle", "receiving", "executing"}
  /\ pendingDone \in 0..streams /\ retry \in BOOLEAN /\ reloading \in BOOLEAN
  /\ retries \in 0..MaxApiRetries /\ inputs \in 0..MaxInputs /\ broken \in BOOLEAN
  /\ deferred \in [panels : BOOLEAN, sleeping : BOOLEAN, asked : BOOLEAN]

ProviderTypeOK ==
  /\ streams \in Nat /\ llm \subseteq 1..streams /\ calls \in 0..MaxCalls
  /\ channel \in Seq(EventSet)
  /\ \A i \in 1..Len(channel) : channel[i].stream \in 1..streams

PipelineTypeOK ==
  /\ pendingTools \in Seq(CallSet) /\ batch \in Seq(CallSet) /\ flushed \in Seq(CallSet)
  /\ queue \in [active : BOOLEAN, calls : Seq(CallSet)]
  /\ results \in Seq(ResultSet) /\ waiting \in Seq(ResultSet)
  /\ watchers \subseteq [key : Keys, blocking : BOOLEAN] /\ arrived \subseteq Keys
  /\ nextToolId \in Nat /\ executed \in [1..MaxCalls -> Nat]

TalkTypeOK ==
  /\ messages \in Seq(MessageSet)
  /\ spine \in [stopped : BOOLEAN, count : 0..MaxAutoRetries, errors : Nat]
  /\ unprocessed \subseteq Sources /\ blocked \subseteq Sources

(* Types; no stream number is ahead of the streams started. *)
TypeOK == LoopTypeOK /\ ProviderTypeOK /\ PipelineTypeOK /\ TalkTypeOK

(* The calls and the results of the conversation, each with its message. *)
Entries(kinds) ==
  UNION {{[at |-> i, of |-> messages[i].calls[j].call, what |-> messages[i].calls[j]] :
            j \in 1..Len(messages[i].calls)} : i \in Positions(kinds)}
Pending(rs) == {rs[i].call : i \in 1..Len(rs)}

(* No result stands in the conversation without its call before it, and no *)
(* call has two results: what every provider requires of a request.        *)
ResultsPaired ==
  ~broken =>
    \A e \in Entries({"result"}) :
      /\ \E c \in Entries({"call"}) : c.of = e.of /\ c.at < e.at
      /\ \A f \in Entries({"result"}) : f.of = e.of => f = e

(* A call in the conversation has its result, or the loop still holds it.  *)
CallsAnswered ==
  ~broken =>
    \A c \in Entries({"call"}) :
      \/ \E e \in Entries({"result"}) : e.of = c.of
      \/ c.of \in Pending(results) \cup Pending(waiting)

(* No call of the model runs twice, whatever is queued, replayed, retried, *)
(* stopped or reloaded.                                                    *)
ExecutedOnce == \A n \in 1..MaxCalls : executed[n] <= 1

(* The Done that will end the current stream is that stream's own. *)
OwnDone == ~broken => pendingDone \in {0, streams}

(* One provider thread at a time. *)
OneStream == ~broken => Cardinality(llm) <= 1

(* A blocking tool that was not interrupted gets what its watcher returned. *)
WaitDelivered ==
  ~broken => \A e \in Entries({"result"}) : e.what.kind = "wait" => e.what.out # "unavailable"

(* A batch that waits for blocking watchers (console wait, callbacks,      *)
(* asynchronous tools) is resumed or interrupted, also when the watcher it *)
(* waits for was never registered.                                         *)
WaitEnds == waiting # NoWait ~> waiting = NoWait

(* A turn ends: no flag (panels, sleep, wait, retry, a pending Done) keeps *)
(* the loop streaming for ever once the model stops calling tools.         *)
TurnEnds == phase # "idle" ~> phase = "idle"

(* A message typed by the user, also in the middle of a stream or behind a *)
(* guard rail, is taken up by the spine, unless the user stopped it or the *)
(* model answered a synthetic message with nothing.                        *)
UserAnswered ==
  "user" \in unprocessed ~>
    "user" \notin unprocessed \/ spine.stopped \/ LastSyntheticUnanswered

(* check_spine calls user_stopped an "absolute hard stop - nothing         *)
(* bypasses it": no stream starts before the user's next message.          *)
StopIsHard == [][spine.stopped => streams' = streams]_vars

=============================================================================
