--------------------------- MODULE AgentLoopProofs ---------------------------
(***************************************************************************)
(* The agent's loop for any number of calls, inputs, waits and retries.    *)
(*                                                                         *)
(* A call that has not run has one home: the channel, the pending tools,   *)
(* the batch or the queue (OneHome).  That holds whatever cuts through the *)
(* work.  A turn is in one stage at a time, until something does (OneTurn).*)
(*                                                                         *)
(* A call that has run is in the conversation, answered there or held for  *)
(* its answer by the batch or the batch that waits (Ledger), and a wait    *)
(* has the watcher it waits for or what that returned (Watched), until     *)
(* something cuts through the work.                                        *)
(***************************************************************************)
EXTENDS AgentLoop, FiniteSetTheorems, SequenceTheorems, TLAPS

Sending == llm # {} \/ channel # <<>>
Deferred == deferred.panels \/ deferred.sleeping

(* Nothing but the current stream is about, and a Done or an error is the   *)
(* last that is heard of it.                                                *)
OwnEvents ==
  /\ llm \subseteq {streams} /\ pendingDone \in {0, streams}
  /\ \A i \in 1..Len(channel) :
       /\ channel[i].stream = streams
       /\ channel[i].kind \in {"done", "error"} => i = Len(channel) /\ llm = {}

(* The turn is in one stage: the thread sends, or a retry is due, or the    *)
(* Done is in and the loop executes, waits or has put off the next stream.  *)
OneStage ==
  /\ Sending => Streaming /\ pendingDone = 0 /\ ~retry
  /\ retry => Streaming /\ pendingDone = 0
  /\ Deferred => pendingDone # 0 /\ waiting = NoWait
  /\ ~(deferred.panels /\ deferred.sleeping)
  /\ waiting # NoWait => pendingDone # 0 /\ pendingTools = <<>>
  /\ pendingDone # 0 => Streaming

(* The handler to run next has found its reason to run. *)
Reasons ==
  /\ retry => pc \in {"events", "retry"}
  /\ pc = "retry" => retry
  /\ pc = "panels" => deferred.panels
  /\ pc = "sleep" => deferred.sleeping
  /\ pc \in {"tools", "execute", "callbacks", "finalize"} =>
       pendingDone # 0 /\ ~Deferred /\ waiting = NoWait
  /\ pc \in {"execute", "callbacks"} => pendingTools = <<>>

OneTurn == ~broken => OwnEvents /\ OneStage /\ Reasons

Nums(cs) == {cs[i].key[1] : i \in 1..Len(cs)}
Distinct(cs) == \A i, j \in 1..Len(cs) : cs[i].key[1] = cs[j].key[1] => i = j
ToolEvents(ch) == {i \in 1..Len(ch) : ch[i].kind = "tool"}
EventNums(ch) == {ch[i].call.key[1] : i \in ToolEvents(ch)}
DistinctEvents(ch) ==
  \A i, j \in ToolEvents(ch) : ch[i].call.key[1] = ch[j].call.key[1] => i = j

AllDistinct ==
  DistinctEvents(channel) /\ Distinct(pendingTools) /\ Distinct(batch) /\ Distinct(queue.calls)

Apart ==
  /\ EventNums(channel) \cap Nums(pendingTools) = {}
  /\ EventNums(channel) \cap Nums(batch) = {}
  /\ EventNums(channel) \cap Nums(queue.calls) = {}
  /\ Nums(pendingTools) \cap Nums(batch) = {}
  /\ Nums(pendingTools) \cap Nums(queue.calls) = {}
  /\ Nums(batch) \cap Nums(queue.calls) = {}

Unspent ==
  \A n \in EventNums(channel) \cup Nums(pendingTools) \cup Nums(batch) \cup Nums(queue.calls) :
    n \in 1..calls /\ executed[n] = 0

Spent == \A n \in 1..MaxCalls : executed[n] \in {0, 1} /\ (n > calls => executed[n] = 0)

OneHome == AllDistinct /\ Apart /\ Unspent /\ Spent

-----------------------------------------------------------------------------
(* The tick. *)

(* GoTo ends the tick or stops at a handler that has found work. *)
LEMMA GoToHandler ==
  ASSUME NEW i \in 1..8, GoTo(i)
  PROVE  \/ pc' = "input"
         \/ \E j \in i..8 : pc' = Handlers[j] /\ HasWork'[Handlers[j]]
<1> DEFINE busy == {j \in i..Len(Handlers) : HasWork'[Handlers[j]]}
<1>1. Len(Handlers) = 8
  BY DEF Handlers
<1>2. pc' = IF busy = {} THEN "input" ELSE Handlers[CHOOSE j \in busy : \A k \in busy : j <= k]
  BY DEF GoTo
<1>3. CASE busy = {}
  BY <1>2, <1>3
<1>4. CASE busy # {}
  <2>1. \E j \in busy : \A k \in busy : j <= k
    <3> DEFINE least(n) == n \in busy /\ \A k \in busy : n <= k
    <3>1. busy \subseteq 1..8
      BY <1>1
    <3> HIDE DEF busy
    <3>2. \/ 1 \in busy \/ 2 \in busy \/ 3 \in busy \/ 4 \in busy
          \/ 5 \in busy \/ 6 \in busy \/ 7 \in busy \/ 8 \in busy
      <4>1. PICK n : n \in busy
        BY <1>4
      <4>2. n \in 1..8
        BY <3>1, <4>1
      <4> QED
        BY <4>1, <4>2
    <3> QED
      BY <3>1, <3>2
  <2>2. PICK j \in busy : pc' = Handlers[j]
    <3> HIDE DEF busy
    <3> QED
      BY <1>2, <1>4, <2>1
  <2> QED
    BY <1>1, <2>2
<1> QED
  BY <1>3, <1>4

(* What each handler's turn says of the state. *)
LEMMA GoToReasons ==
  ASSUME NEW i \in 1..8, GoTo(i)
  PROVE  /\ pc' \in {"input", "retry", "panels", "sleep", "watchers", "tools", "finalize",
                    "spine", "reload"}
         /\ pc' = "retry" => i = 1 /\ retry'
         /\ pc' = "panels" => deferred'.panels
         /\ pc' = "sleep" => deferred'.sleeping
         /\ pc' = "tools" => MayExecute'
         /\ pc' = "finalize" => MayFinalize'
<1>1. CASE pc' = "input"
  BY <1>1
<1>2. ASSUME NEW j \in i..8, pc' = Handlers[j], HasWork'[Handlers[j]]
      PROVE  /\ pc' \in {"input", "retry", "panels", "sleep", "watchers", "tools", "finalize",
                        "spine", "reload"}
             /\ pc' = "retry" => i = 1 /\ retry'
             /\ pc' = "panels" => deferred'.panels
             /\ pc' = "sleep" => deferred'.sleeping
             /\ pc' = "tools" => MayExecute'
             /\ pc' = "finalize" => MayFinalize'
  <2>1. HasWork' = [retry |-> retry', panels |-> deferred'.panels, sleep |-> deferred'.sleeping,
                    watchers |-> WatchersMatter', tools |-> MayExecute',
                    finalize |-> MayFinalize', spine |-> SpineMayAct', reload |-> reloading']
    BY DEF HasWork
  <2>2. j = 1 \/ j = 2 \/ j = 3 \/ j = 4 \/ j = 5 \/ j = 6 \/ j = 7 \/ j = 8
    OBVIOUS
  <2>3. Handlers = <<"retry", "panels", "sleep", "watchers", "tools", "finalize", "spine",
                     "reload">>
    BY DEF Handlers
  <2>4. CASE j = 1
    BY <1>2, <2>1, <2>3, <2>4
  <2>5. CASE j = 2
    BY <1>2, <2>1, <2>3, <2>5
  <2>6. CASE j = 3
    BY <1>2, <2>1, <2>3, <2>6
  <2>7. CASE j = 4
    BY <1>2, <2>1, <2>3, <2>7
  <2>8. CASE j = 5
    BY <1>2, <2>1, <2>3, <2>8
  <2>9. CASE j = 6
    BY <1>2, <2>1, <2>3, <2>9
  <2>10. CASE j = 7
    BY <1>2, <2>1, <2>3, <2>10
  <2>11. CASE j = 8
    BY <1>2, <2>1, <2>3, <2>11
  <2> QED
    BY <2>2, <2>4, <2>5, <2>6, <2>7, <2>8, <2>9, <2>10, <2>11
<1> QED
  BY <1>1, <1>2, GoToHandler

-----------------------------------------------------------------------------
(* Types. *)

(* What the conversation is made of. *)
LEMMA MessageTypes ==
  /\ UserText("user") \in MessageSet /\ UserText("note") \in MessageSet
  /\ UserText("synthetic") \in MessageSet /\ UserText("asked") \in MessageSet
  /\ EmptyAssistant \in MessageSet
  /\ \A c \in CallSet : ToolCall(c) \in MessageSet
  /\ \A rs \in Seq(ResultSet) : ToolResults(rs) \in MessageSet
<1>1. <<>> \in Seq(ResultSet)
  OBVIOUS
<1>2. ASSUME NEW c \in CallSet PROVE ToolCall(c) \in MessageSet
  <2>1. Result(c, "call", c.key) \in ResultSet
    BY DEF Result, ResultSet, CallSet, Keys
  <2>2. <<Result(c, "call", c.key)>> \in Seq(ResultSet)
    BY <2>1
  <2> QED
    BY <2>2 DEF ToolCall, MessageSet
<1>3. ASSUME NEW rs \in Seq(ResultSet) PROVE ToolResults(rs) \in MessageSet
  <2>1. ASSUME NEW i \in 1..Len(rs) PROVE [rs[i] EXCEPT !.key = rs[i].call] \in ResultSet
    <3>1. rs[i] \in ResultSet
      OBVIOUS
    <3>2. rs[i].call \in Keys
      BY <3>1 DEF ResultSet, Keys
    <3> QED
      BY <3>1, <3>2 DEF ResultSet
  <2>2. [i \in 1..Len(rs) |-> [rs[i] EXCEPT !.key = rs[i].call]] \in Seq(ResultSet)
    BY <2>1
  <2> QED
    BY <2>2 DEF ToolResults, MessageSet
<1> QED
  BY <1>1, <1>2, <1>3 DEF UserText, EmptyAssistant, MessageSet

(* The last message gets or loses its text. *)
LEMMA TextSet ==
  ASSUME NEW ms \in Seq(MessageSet), LastIsAssistant(ms), NEW b \in BOOLEAN
  PROVE  [ms EXCEPT ![Len(ms)].text = b] \in Seq(MessageSet)
<1>1. Len(ms) \in 1..Len(ms)
  BY DEF LastIsAssistant
<1>2. ms[Len(ms)] \in MessageSet
  BY <1>1
<1>3. [ms[Len(ms)] EXCEPT !.text = b] \in MessageSet
  BY <1>2 DEF MessageSet
<1>4. [ms EXCEPT ![Len(ms)] = [ms[Len(ms)] EXCEPT !.text = b]] \in Seq(MessageSet)
  BY <1>1, <1>3
<1>5. [ms EXCEPT ![Len(ms)].text = b] = [ms EXCEPT ![Len(ms)] = [ms[Len(ms)] EXCEPT !.text = b]]
  BY Zenon
<1> QED
  BY <1>4, <1>5

(* The channel behind its first event. *)
LEMMA RestTypes ==
  ASSUME ProviderTypeOK, channel # <<>>
  PROVE  /\ Tail(channel) \in Seq(EventSet)
         /\ \A i \in 1..Len(Tail(channel)) : Tail(channel)[i].stream \in 1..streams
BY DEF ProviderTypeOK

(* What the pipeline is made of. *)
LEMMA PipelineTypes ==
  /\ \A n \in 1..MaxCalls, k \in ToolKinds : Call(n, "tool", k) \in CallSet
  /\ \A c \in CallSet :
       \A out \in {"ok", "error", "queued", "sentinel"} : Result(c, out, c.key) \in ResultSet
  /\ \A c \in CallSet : ExecutedResult(c) \in ResultSet
  /\ \A cs \in Seq(CallSet) : Replay(cs) \in Seq(CallSet) /\ Len(Replay(cs)) = Len(cs)
  /\ \A c \in CallSet : NewWatchers(c) \subseteq [key : Keys, blocking : BOOLEAN]
<1>1. ASSUME NEW c \in CallSet PROVE c.key \in Keys
  BY DEF CallSet, Keys
<1>2. ASSUME NEW n \in 1..MaxCalls, NEW k \in ToolKinds PROVE Call(n, "tool", k) \in CallSet
  BY DEF Call, CallSet
<1>3. ASSUME NEW c \in CallSet, NEW out \in {"ok", "error", "queued", "sentinel"}
      PROVE  Result(c, out, c.key) \in ResultSet
  BY <1>1 DEF Result, ResultSet, CallSet
<1>4. ASSUME NEW c \in CallSet PROVE ExecutedResult(c) \in ResultSet
  BY <1>3 DEF ExecutedResult
<1>5. ASSUME NEW cs \in Seq(CallSet)
      PROVE  Replay(cs) \in Seq(CallSet) /\ Len(Replay(cs)) = Len(cs)
  <2>1. ASSUME NEW i \in 1..Len(cs) PROVE Call(cs[i].key[1], "flush", cs[i].kind) \in CallSet
    <3>1. cs[i] \in CallSet
      OBVIOUS
    <3> QED
      BY <3>1 DEF Call, CallSet
  <2> QED
    BY <2>1 DEF Replay
<1>6. ASSUME NEW c \in CallSet PROVE NewWatchers(c) \subseteq [key : Keys, blocking : BOOLEAN]
  <2>1. c.kind = "wait" => NewWatchers(c) = {[key |-> c.key, blocking |-> TRUE]}
    BY DEF NewWatchers
  <2>2. c.kind = "watch" => NewWatchers(c) = {[key |-> c.key, blocking |-> FALSE]}
    BY DEF NewWatchers
  <2>3. c.kind \notin {"wait", "watch"} => NewWatchers(c) = {}
    BY DEF NewWatchers
  <2>4. \A b \in BOOLEAN : [key |-> c.key, blocking |-> b] \in [key : Keys, blocking : BOOLEAN]
    BY <1>1
  <2>5. /\ [key |-> c.key, blocking |-> TRUE] \in [key : Keys, blocking : BOOLEAN]
        /\ [key |-> c.key, blocking |-> FALSE] \in [key : Keys, blocking : BOOLEAN]
    BY <2>4
  <2> QED
    BY <2>1, <2>2, <2>3, <2>5, Zenon
<1> QED
  BY <1>2, <1>3, <1>4, <1>5, <1>6

(* execute_tool keeps the types of what it may touch. *)
LEMMA ExecuteAllTypes ==
  ASSUME PipelineTypeOK, LoopTypeOK, NEW cs \in Seq(CallSet), ExecuteAll(cs)
  PROVE  /\ watchers' \subseteq [key : Keys, blocking : BOOLEAN]
         /\ deferred' \in [panels : BOOLEAN, sleeping : BOOLEAN, asked : BOOLEAN]
         /\ reloading' \in BOOLEAN
         /\ executed' \in [1..MaxCalls -> Nat]
<1>1. watchers' \subseteq [key : Keys, blocking : BOOLEAN]
  <2>1. ASSUME NEW i \in 1..Len(cs) PROVE NewWatchers(cs[i]) \subseteq [key : Keys, blocking : BOOLEAN]
    BY PipelineTypes
  <2> QED
    BY <2>1 DEF ExecuteAll, PipelineTypeOK
<1>2. deferred' \in [panels : BOOLEAN, sleeping : BOOLEAN, asked : BOOLEAN]
  BY DEF ExecuteAll, LoopTypeOK
<1>3. reloading' \in BOOLEAN
  BY DEF ExecuteAll, LoopTypeOK
<1>4. ASSUME NEW n \in 1..MaxCalls
      PROVE  executed[n] + Cardinality({i \in 1..Len(cs) : cs[i].key[1] = n}) \in Nat
  <2>1. IsFiniteSet(1..Len(cs))
    BY FS_Interval
  <2>2. IsFiniteSet({i \in 1..Len(cs) : cs[i].key[1] = n})
    BY <2>1, FS_Subset
  <2>3. Cardinality({i \in 1..Len(cs) : cs[i].key[1] = n}) \in Nat
    BY <2>2, FS_CardinalityType
  <2>4. executed[n] \in Nat
    BY DEF PipelineTypeOK
  <2> QED
    BY <2>3, <2>4
<1>5. executed' \in [1..MaxCalls -> Nat]
  BY <1>4 DEF ExecuteAll
<1> QED
  BY <1>1, <1>2, <1>3, <1>5

(* The sentinel of the callbacks keeps the type of the results. *)
LEMMA TaggedType ==
  ASSUME PipelineTypeOK
  PROVE  Tagged(<<nextToolId, "callback">>) \in Seq(ResultSet)
<1> DEFINE key == <<nextToolId, "callback">>
           last == CHOOSE i \in EditedNow : \A j \in EditedNow : j <= i
<1>1. results \in Seq(ResultSet) /\ key \in Keys
  BY DEF PipelineTypeOK, Keys
<1>2. CASE EditedNow = {}
  BY <1>1, <1>2 DEF Tagged
<1>3. CASE EditedNow # {}
  <2> HIDE DEF key, last
  <2>1. Tagged(key) = [results EXCEPT ![last] = [@ EXCEPT !.out = "sentinel", !.key = key]]
    BY <1>3 DEF Tagged, last
  <2>2. CASE last \in 1..Len(results)
    <3>1. results[last] \in ResultSet
      BY <1>1, <2>2
    <3>2. [results[last] EXCEPT !.out = "sentinel", !.key = key] \in ResultSet
      BY <1>1, <3>1 DEF ResultSet
    <3> QED
      BY <1>1, <2>1, <3>2 DEF key
  <2>3. CASE last \notin 1..Len(results)
    BY <1>1, <2>1, <2>3 DEF key
  <2> QED
    BY <2>2, <2>3
<1> QED
  BY <1>2, <1>3

(* What resumes a batch keeps the types. *)
LEMMA AfterResultsTypes ==
  ASSUME TypeOK, NEW ms \in Seq(MessageSet), NEW sleeps, AfterResults(ms, sleeps)
  PROVE  /\ messages' \in Seq(MessageSet)
         /\ phase' \in {"idle", "receiving", "executing"}
         /\ streams' \in Nat /\ llm' \subseteq 1..streams' /\ streams <= streams'
         /\ pendingDone' \in 0..streams'
         /\ deferred' \in [panels : BOOLEAN, sleeping : BOOLEAN, asked : BOOLEAN]
<1>1. Append(ms, EmptyAssistant) \in Seq(MessageSet)
  BY MessageTypes
<1>2. messages' \in Seq(MessageSet)
  BY <1>1 DEF AfterResults
<1>3. /\ phase' \in {"idle", "receiving", "executing"}
      /\ streams' \in Nat /\ llm' \subseteq 1..streams' /\ streams <= streams'
      /\ pendingDone' \in 0..streams'
  BY DEF AfterResults, ContinueStreaming, StartStreaming, NoNewStream, TypeOK, LoopTypeOK,
         ProviderTypeOK
<1>4. deferred' \in [panels : BOOLEAN, sleeping : BOOLEAN, asked : BOOLEAN]
  BY DEF AfterResults, TypeOK, LoopTypeOK
<1> QED
  BY <1>2, <1>3, <1>4

(* SendText keeps the types. *)
LEMMA SendTextType ==
  ASSUME TypeOK, BoundsAssumption, NEW g \in llm, SendText(g)
  PROVE  TypeOK'
<1>1. LoopTypeOK'
  BY DEF SendText, SendEvent, loopVars, providerVars, LoopTypeOK, TypeOK
<1>2. ProviderTypeOK'
  <2> DEFINE ev == [stream |-> g, kind |-> "text"]
  <2>2. ev \in EventSet /\ ev.stream \in 1..streams
    BY DEF EventSet, TypeOK, ProviderTypeOK, SendText, SendEvent
  <2>3. channel' = Append(channel, ev) /\ UNCHANGED streams
    BY DEF SendText, SendEvent
  <2> HIDE DEF ev
  <2>4. channel' \in Seq(EventSet) /\ \A i \in 1..Len(channel') : channel'[i].stream \in 1..streams
    BY <2>2, <2>3 DEF TypeOK, ProviderTypeOK
  <2> QED
    BY <2>3, <2>4 DEF SendText, SendEvent, TypeOK, ProviderTypeOK
<1>3. PipelineTypeOK'
  BY DEF SendText, SendEvent, loopVars, batchVars, waitVars, PipelineTypeOK, TypeOK
<1>4. TalkTypeOK'
  BY DEF SendText, SendEvent, spineVars, TalkTypeOK, TypeOK
<1> QED
  BY <1>1, <1>2, <1>3, <1>4 DEF TypeOK

(* SendToolUse keeps the types. *)
LEMMA SendToolUseType ==
  ASSUME TypeOK, BoundsAssumption, NEW g \in llm, SendToolUse(g)
  PROVE  TypeOK'
<1>1. LoopTypeOK'
  BY DEF SendToolUse, SendEvent, loopVars, providerVars, LoopTypeOK, TypeOK
<1>2. ProviderTypeOK'
  <2>1. PICK k \in ToolKinds :
          SendEvent(g, [stream |-> g, kind |-> "tool", call |-> Call(calls + 1, "tool", k)])
    BY DEF SendToolUse
  <2> DEFINE ev == [stream |-> g, kind |-> "tool", call |-> Call(calls + 1, "tool", k)]
  <2>2. calls + 1 \in 1..MaxCalls /\ calls' = calls + 1
    BY DEF SendToolUse, BoundsAssumption, TypeOK, ProviderTypeOK
  <2>3. Call(calls + 1, "tool", k) \in CallSet
    BY <2>2, PipelineTypes
  <2>4. ev \in EventSet /\ ev.stream \in 1..streams
    BY <2>3 DEF EventSet, TypeOK, ProviderTypeOK
  <2>5. channel' = Append(channel, ev) /\ UNCHANGED <<streams, llm>>
    BY <2>1 DEF SendEvent, SendToolUse
  <2> HIDE DEF ev
  <2>6. channel' \in Seq(EventSet) /\ \A i \in 1..Len(channel') : channel'[i].stream \in 1..streams
    BY <2>4, <2>5 DEF TypeOK, ProviderTypeOK
  <2> QED
    BY <2>2, <2>5, <2>6 DEF TypeOK, ProviderTypeOK
<1>3. PipelineTypeOK'
  BY DEF SendToolUse, SendEvent, loopVars, batchVars, waitVars, PipelineTypeOK, TypeOK
<1>4. TalkTypeOK'
  BY DEF SendToolUse, SendEvent, spineVars, TalkTypeOK, TypeOK
<1> QED
  BY <1>1, <1>2, <1>3, <1>4 DEF TypeOK

(* SendDone keeps the types. *)
LEMMA SendDoneType ==
  ASSUME TypeOK, BoundsAssumption, NEW g \in llm, SendDone(g)
  PROVE  TypeOK'
<1>1. LoopTypeOK'
  BY DEF SendDone, SendEvent, loopVars, providerVars, LoopTypeOK, TypeOK
<1>2. ProviderTypeOK'
  <2> DEFINE ev == [stream |-> g, kind |-> "done"]
  <2>2. ev \in EventSet /\ ev.stream \in 1..streams
    BY DEF EventSet, TypeOK, ProviderTypeOK, SendDone, SendEvent
  <2>3. channel' = Append(channel, ev) /\ UNCHANGED streams
    BY DEF SendDone, SendEvent
  <2> HIDE DEF ev
  <2>4. channel' \in Seq(EventSet) /\ \A i \in 1..Len(channel') : channel'[i].stream \in 1..streams
    BY <2>2, <2>3 DEF TypeOK, ProviderTypeOK
  <2> QED
    BY <2>3, <2>4 DEF SendDone, SendEvent, TypeOK, ProviderTypeOK
<1>3. PipelineTypeOK'
  BY DEF SendDone, SendEvent, loopVars, batchVars, waitVars, PipelineTypeOK, TypeOK
<1>4. TalkTypeOK'
  BY DEF SendDone, SendEvent, spineVars, TalkTypeOK, TypeOK
<1> QED
  BY <1>1, <1>2, <1>3, <1>4 DEF TypeOK

(* SendError keeps the types. *)
LEMMA SendErrorType ==
  ASSUME TypeOK, BoundsAssumption, NEW g \in llm, SendError(g)
  PROVE  TypeOK'
<1>1. LoopTypeOK'
  BY DEF SendError, SendEvent, Happens, BoundsAssumption, loopVars, providerVars,
         LoopTypeOK, TypeOK
<1>2. ProviderTypeOK'
  <2> DEFINE ev == [stream |-> g, kind |-> "error"]
  <2>2. ev \in EventSet /\ ev.stream \in 1..streams
    BY DEF EventSet, TypeOK, ProviderTypeOK, SendError, SendEvent
  <2>3. channel' = Append(channel, ev) /\ UNCHANGED streams
    BY DEF SendError, SendEvent
  <2> HIDE DEF ev
  <2>4. channel' \in Seq(EventSet) /\ \A i \in 1..Len(channel') : channel'[i].stream \in 1..streams
    BY <2>2, <2>3 DEF TypeOK, ProviderTypeOK
  <2> QED
    BY <2>3, <2>4 DEF SendError, SendEvent, TypeOK, ProviderTypeOK
<1>3. PipelineTypeOK'
  BY DEF SendError, SendEvent, Happens, loopVars, batchVars, waitVars, PipelineTypeOK,
         TypeOK
<1>4. TalkTypeOK'
  BY DEF SendError, SendEvent, Happens, spineVars, TalkTypeOK, TypeOK
<1> QED
  BY <1>1, <1>2, <1>3, <1>4 DEF TypeOK

(* NoInput keeps the types. *)
LEMMA NoInputType ==
  ASSUME TypeOK, BoundsAssumption, NoInput
  PROVE  TypeOK'
<1>1. LoopTypeOK'
  BY DEF NoInput, loopVars, providerVars, LoopTypeOK, TypeOK
<1>2. ProviderTypeOK'
  BY DEF NoInput, providerVars, ProviderTypeOK, TypeOK
<1>3. PipelineTypeOK'
  BY DEF NoInput, loopVars, batchVars, waitVars, PipelineTypeOK, TypeOK
<1>4. TalkTypeOK'
  BY DEF NoInput, spineVars, TalkTypeOK, TypeOK
<1> QED
  BY <1>1, <1>2, <1>3, <1>4 DEF TypeOK

(* UserMessage keeps the types. *)
LEMMA UserMessageType ==
  ASSUME TypeOK, BoundsAssumption, UserMessage
  PROVE  TypeOK'
<1>1. LoopTypeOK'
  BY DEF UserMessage, Happens, BoundsAssumption, loopVars, providerVars, LoopTypeOK, TypeOK
<1>2. ProviderTypeOK'
  BY DEF UserMessage, Happens, providerVars, ProviderTypeOK, TypeOK
<1>3. PipelineTypeOK'
  BY DEF UserMessage, Happens, loopVars, batchVars, waitVars, PipelineTypeOK, TypeOK
<1>4. TalkTypeOK'
  <2>1. messages' \in Seq(MessageSet)
    <3>1. messages \in Seq(MessageSet) /\ UserText("user") \in MessageSet
      BY MessageTypes DEF TypeOK, TalkTypeOK
    <3>2. InsertUserMessage \in Seq(MessageSet)
      BY <3>1 DEF InsertUserMessage, LastMessage
    <3> QED
      BY <3>2 DEF UserMessage
  <2> QED
    BY <2>1 DEF UserMessage, TypeOK, TalkTypeOK, Sources, BoundsAssumption
<1> QED
  BY <1>1, <1>2, <1>3, <1>4 DEF TypeOK

(* Esc keeps the types. *)
LEMMA EscType ==
  ASSUME TypeOK, BoundsAssumption, Esc
  PROVE  TypeOK'
<1>1. LoopTypeOK'
  <2>1. broken' \in BOOLEAN
    BY DEF Esc, TypeOK, LoopTypeOK
  <2> QED
    BY <2>1
       DEF Esc, Stopping, Happens, TypeOK, LoopTypeOK, ProviderTypeOK, BoundsAssumption,
           providerVars
<1>2. ProviderTypeOK'
  BY DEF Esc, Stopping, Happens, providerVars, ProviderTypeOK, TypeOK
<1>3. PipelineTypeOK'
  BY DEF Esc, Stopping, Happens, NoWait, loopVars, batchVars, waitVars, PipelineTypeOK,
         TypeOK
<1>4. TalkTypeOK'
  <2>1. messages' \in Seq(MessageSet)
    <3>1. messages \in Seq(MessageSet)
      BY DEF TypeOK, TalkTypeOK
    <3>2. ASSUME NEW i \in 1..Len(waiting)
          PROVE  [waiting[i] EXCEPT !.out = "interrupted"] \in ResultSet
      <4>1. waiting[i] \in ResultSet
        BY DEF TypeOK, PipelineTypeOK
      <4> QED
        BY <4>1 DEF ResultSet
    <3>3. [i \in 1..Len(waiting) |-> [waiting[i] EXCEPT !.out = "interrupted"]] \in Seq(ResultSet)
      <4>1. Len(waiting) \in Nat
        BY DEF TypeOK, PipelineTypeOK
      <4> QED
        BY <3>2, <4>1
    <3>4. WithInterrupted(messages) \in Seq(MessageSet)
      BY <3>1, <3>3, MessageTypes DEF WithInterrupted
    <3> QED
      BY <3>4 DEF Esc
  <2> QED
    BY <2>1 DEF Esc, Stopping, TypeOK, TalkTypeOK
<1> QED
  BY <1>1, <1>2, <1>3, <1>4 DEF TypeOK

(* WebStop keeps the types. *)
LEMMA WebStopType ==
  ASSUME TypeOK, BoundsAssumption, WebStop
  PROVE  TypeOK'
<1>1. LoopTypeOK'
  BY DEF WebStop, Stopping, Happens, BoundsAssumption, PendingWork, StreamAhead, loopVars,
         providerVars, LoopTypeOK, TypeOK
<1>2. ProviderTypeOK'
  BY DEF WebStop, Stopping, Happens, providerVars, ProviderTypeOK, TypeOK
<1>3. PipelineTypeOK'
  BY DEF WebStop, Stopping, Happens, loopVars, batchVars, waitVars, PipelineTypeOK, TypeOK
<1>4. TalkTypeOK'
  BY DEF WebStop, Stopping, Happens, spineVars, TalkTypeOK, TypeOK
<1> QED
  BY <1>1, <1>2, <1>3, <1>4 DEF TypeOK

(* Clear keeps the types. *)
LEMMA ClearType ==
  ASSUME TypeOK, BoundsAssumption, Clear
  PROVE  TypeOK'
<1>1. LoopTypeOK'
  BY DEF Clear, Happens, BoundsAssumption, PendingWork, StreamAhead, Streaming, loopVars,
         providerVars, LoopTypeOK, TypeOK
<1>2. ProviderTypeOK'
  BY DEF Clear, Happens, providerVars, ProviderTypeOK, TypeOK
<1>3. PipelineTypeOK'
  BY DEF Clear, Happens, loopVars, batchVars, waitVars, PipelineTypeOK, TypeOK
<1>4. TalkTypeOK'
  BY DEF Clear, Happens, spineVars, TalkTypeOK, TypeOK
<1> QED
  BY <1>1, <1>2, <1>3, <1>4 DEF TypeOK

(* PaletteReload keeps the types. *)
LEMMA PaletteReloadType ==
  ASSUME TypeOK, BoundsAssumption, PaletteReload
  PROVE  TypeOK'
<1>1. LoopTypeOK'
  BY DEF PaletteReload, Happens, BoundsAssumption, loopVars, providerVars, LoopTypeOK,
         TypeOK
<1>2. ProviderTypeOK'
  BY DEF PaletteReload, Happens, providerVars, ProviderTypeOK, TypeOK
<1>3. PipelineTypeOK'
  BY DEF PaletteReload, Happens, loopVars, batchVars, waitVars, PipelineTypeOK, TypeOK
<1>4. TalkTypeOK'
  BY DEF PaletteReload, Happens, spineVars, TalkTypeOK, TypeOK
<1> QED
  BY <1>1, <1>2, <1>3, <1>4 DEF TypeOK

(* DropEvent keeps the types. *)
LEMMA DropEventType ==
  ASSUME TypeOK, BoundsAssumption, DropEvent
  PROVE  TypeOK'
<1>1. LoopTypeOK'
  BY DEF DropEvent, AfterEvent, loopVars, providerVars, LoopTypeOK, TypeOK
<1>2. ProviderTypeOK'
  <2>1. channel # <<>>
    BY DEF DropEvent, AfterEvent
  <2> QED
    BY <2>1, RestTypes DEF DropEvent, AfterEvent, TypeOK, ProviderTypeOK
<1>3. PipelineTypeOK'
  BY DEF DropEvent, AfterEvent, loopVars, batchVars, waitVars, PipelineTypeOK, TypeOK
<1>4. TalkTypeOK'
  BY DEF DropEvent, AfterEvent, spineVars, TalkTypeOK, TypeOK
<1> QED
  BY <1>1, <1>2, <1>3, <1>4 DEF TypeOK

(* TextEvent keeps the types. *)
LEMMA TextEventType ==
  ASSUME TypeOK, BoundsAssumption, TextEvent
  PROVE  TypeOK'
<1>1. LoopTypeOK'
  BY DEF TextEvent, AfterEvent, loopVars, providerVars, LoopTypeOK, TypeOK
<1>2. ProviderTypeOK'
  <2>1. channel # <<>>
    BY DEF TextEvent, AfterEvent
  <2> QED
    BY <2>1, RestTypes DEF TextEvent, AfterEvent, TypeOK, ProviderTypeOK
<1>3. PipelineTypeOK'
  BY DEF TextEvent, AfterEvent, loopVars, batchVars, waitVars, PipelineTypeOK, TypeOK
<1>4. TalkTypeOK'
  BY TextSet DEF TextEvent, AfterEvent, spineVars, TalkTypeOK, TypeOK
<1> QED
  BY <1>1, <1>2, <1>3, <1>4 DEF TypeOK

(* ToolEvent keeps the types. *)
LEMMA ToolEventType ==
  ASSUME TypeOK, BoundsAssumption, ToolEvent
  PROVE  TypeOK'
<1>1. LoopTypeOK'
  BY DEF ToolEvent, AfterEvent, loopVars, providerVars, LoopTypeOK, TypeOK
<1>2. ProviderTypeOK'
  <2>1. channel # <<>>
    BY DEF ToolEvent, AfterEvent
  <2> QED
    BY <2>1, RestTypes DEF ToolEvent, AfterEvent, TypeOK, ProviderTypeOK
<1>3. PipelineTypeOK'
  <2>1. Head(channel) \in EventSet /\ Head(channel).kind = "tool"
    BY DEF ToolEvent, AfterEvent, TypeOK, ProviderTypeOK
  <2>2. Head(channel).call \in CallSet
    BY <2>1 DEF EventSet
  <2>3. /\ pendingTools' = Append(pendingTools, Head(channel).call)
        /\ UNCHANGED <<batchVars, queue, waitVars, executed>>
    BY DEF ToolEvent, AfterEvent
  <2> QED
    BY <2>2, <2>3 DEF TypeOK, PipelineTypeOK, batchVars, waitVars
<1>4. TalkTypeOK'
  BY DEF ToolEvent, AfterEvent, spineVars, TalkTypeOK, TypeOK
<1> QED
  BY <1>1, <1>2, <1>3, <1>4 DEF TypeOK

(* DoneEvent keeps the types. *)
LEMMA DoneEventType ==
  ASSUME TypeOK, BoundsAssumption, DoneEvent
  PROVE  TypeOK'
<1>1. LoopTypeOK'
  <2>1. Head(channel).stream \in 1..streams
    BY DEF DoneEvent, AfterEvent, TypeOK, ProviderTypeOK
  <2> QED
    BY <2>1 DEF DoneEvent, AfterEvent, TypeOK, LoopTypeOK, BoundsAssumption
<1>2. ProviderTypeOK'
  <2>1. channel # <<>>
    BY DEF DoneEvent, AfterEvent
  <2> QED
    BY <2>1, RestTypes DEF DoneEvent, AfterEvent, TypeOK, ProviderTypeOK
<1>3. PipelineTypeOK'
  BY DEF DoneEvent, AfterEvent, loopVars, batchVars, waitVars, PipelineTypeOK, TypeOK
<1>4. TalkTypeOK'
  BY DEF DoneEvent, AfterEvent, spineVars, TalkTypeOK, TypeOK
<1> QED
  BY <1>1, <1>2, <1>3, <1>4 DEF TypeOK

(* ErrorEvent keeps the types. *)
LEMMA ErrorEventType ==
  ASSUME TypeOK, BoundsAssumption, ErrorEvent
  PROVE  TypeOK'
<1>1. LoopTypeOK'
  <2>1. retry' \in BOOLEAN
    BY Zenon DEF ErrorEvent, TypeOK, LoopTypeOK
  <2>3. retries' \in 0..MaxApiRetries
    BY DEF ErrorEvent, MayRetry, TypeOK, LoopTypeOK, BoundsAssumption
  <2>2. phase' \in {"idle", "receiving", "executing"}
    BY DEF ErrorEvent, TypeOK, LoopTypeOK
  <2> QED
    BY <2>1, <2>2, <2>3 DEF ErrorEvent, AfterEvent, TypeOK, LoopTypeOK
<1>2. ProviderTypeOK'
  <2>1. channel # <<>>
    BY DEF ErrorEvent, AfterEvent
  <2> QED
    BY <2>1, RestTypes DEF ErrorEvent, AfterEvent, TypeOK, ProviderTypeOK
<1>3. PipelineTypeOK'
  BY DEF ErrorEvent, AfterEvent, loopVars, batchVars, waitVars, PipelineTypeOK, TypeOK
<1>4. TalkTypeOK'
  <2>1. messages' \in Seq(MessageSet)
    BY TextSet DEF ErrorEvent, TypeOK, TalkTypeOK
  <2>2. spine' \in [stopped : BOOLEAN, count : 0..MaxAutoRetries, errors : Nat]
    BY DEF ErrorEvent, TypeOK, TalkTypeOK
  <2> QED
    BY <2>1, <2>2 DEF ErrorEvent, AfterEvent, TypeOK, TalkTypeOK
<1> QED
  BY <1>1, <1>2, <1>3, <1>4 DEF TypeOK

(* EventsDrained keeps the types. *)
LEMMA EventsDrainedType ==
  ASSUME TypeOK, BoundsAssumption, EventsDrained
  PROVE  TypeOK'
<1>1. LoopTypeOK'
  <2>1. pc' \in {"input", "retry", "panels", "sleep", "watchers", "tools", "finalize",
                 "spine", "reload"}
    BY GoToReasons DEF EventsDrained
  <2>2. pendingDone' \in 0..streams' /\ phase' \in {"idle", "receiving", "executing"}
    BY DEF EventsDrained, loopVars, providerVars, LoopTypeOK, TypeOK
  <2>3. deferred' \in [panels : BOOLEAN, sleeping : BOOLEAN, asked : BOOLEAN]
    BY DEF EventsDrained, loopVars, providerVars, LoopTypeOK, TypeOK
  <2> QED
    BY <2>1, <2>2, <2>3 DEF EventsDrained, loopVars, providerVars, LoopTypeOK, TypeOK
<1>2. ProviderTypeOK'
  BY DEF EventsDrained, providerVars, ProviderTypeOK, TypeOK
<1>3. PipelineTypeOK'
  BY DEF EventsDrained, loopVars, batchVars, waitVars, PipelineTypeOK, TypeOK
<1>4. TalkTypeOK'
  BY DEF EventsDrained, spineVars, TalkTypeOK, TypeOK
<1> QED
  BY <1>1, <1>2, <1>3, <1>4 DEF TypeOK

(* HandleRetry keeps the types. *)
LEMMA HandleRetryType ==
  ASSUME TypeOK, BoundsAssumption, HandleRetry
  PROVE  TypeOK'
<1>1. LoopTypeOK'
  <2>1. pc' \in {"input", "retry", "panels", "sleep", "watchers", "tools", "finalize",
                 "spine", "reload"}
    BY GoToReasons DEF HandleRetry
  <2>2. pendingDone' \in 0..streams' /\ phase' \in {"idle", "receiving", "executing"}
    BY DEF HandleRetry, Relaunch, StartStreaming, NoNewStream, ProviderTypeOK, loopVars,
           providerVars, LoopTypeOK, TypeOK
  <2>3. deferred' \in [panels : BOOLEAN, sleeping : BOOLEAN, asked : BOOLEAN]
    BY DEF HandleRetry, Relaunch, StartStreaming, NoNewStream, loopVars, providerVars,
           LoopTypeOK, TypeOK
  <2> QED
    BY <2>1, <2>2, <2>3
       DEF HandleRetry, Relaunch, StartStreaming, NoNewStream, loopVars, providerVars,
           LoopTypeOK, TypeOK
<1>2. ProviderTypeOK'
  <2>1. /\ UNCHANGED <<channel, calls>>
        /\ \/ streams' = streams + 1 /\ llm' = llm \cup {streams + 1}
           \/ UNCHANGED <<streams, llm>>
    BY DEF HandleRetry, Relaunch, StartStreaming, NoNewStream
  <2>2. ProviderTypeOK
    BY DEF TypeOK
  <2>3. CASE streams' = streams + 1 /\ llm' = llm \cup {streams + 1}
    <3>1. streams' \in Nat /\ llm' \subseteq 1..streams' /\ 1..streams \subseteq 1..streams'
      BY <2>2, <2>3 DEF ProviderTypeOK
    <3> QED
      BY <2>1, <2>2, <3>1 DEF ProviderTypeOK
  <2>4. CASE UNCHANGED <<streams, llm>>
    BY <2>1, <2>2, <2>4 DEF ProviderTypeOK
  <2> QED
    BY <2>1, <2>3, <2>4
<1>3. PipelineTypeOK'
  BY DEF HandleRetry, Relaunch, StartStreaming, NoNewStream, loopVars, batchVars,
         waitVars, PipelineTypeOK, TypeOK
<1>4. TalkTypeOK'
  BY TextSet
     DEF HandleRetry, Relaunch, StartStreaming, NoNewStream, spineVars, TalkTypeOK, TypeOK
<1> QED
  BY <1>1, <1>2, <1>3, <1>4 DEF TypeOK

(* CheckWaitingForPanels keeps the types. *)
LEMMA CheckWaitingForPanelsType ==
  ASSUME TypeOK, BoundsAssumption, CheckWaitingForPanels
  PROVE  TypeOK'
<1>1. LoopTypeOK'
  <2>1. pc' \in {"input", "retry", "panels", "sleep", "watchers", "tools", "finalize",
                 "spine", "reload"}
    BY GoToReasons DEF CheckWaitingForPanels
  <2>2. pendingDone' \in 0..streams' /\ phase' \in {"idle", "receiving", "executing"}
    BY DEF CheckWaitingForPanels, ResumeOrWait, ContinueStreaming, StartStreaming,
           NoNewStream, ProviderTypeOK, loopVars, providerVars, LoopTypeOK, TypeOK
  <2>3. deferred' \in [panels : BOOLEAN, sleeping : BOOLEAN, asked : BOOLEAN]
    BY DEF CheckWaitingForPanels, ResumeOrWait, ContinueStreaming, StartStreaming,
           NoNewStream, loopVars, providerVars, LoopTypeOK, TypeOK
  <2> QED
    BY <2>1, <2>2, <2>3
       DEF CheckWaitingForPanels, ResumeOrWait, ContinueStreaming, StartStreaming,
           NoNewStream, loopVars, providerVars, LoopTypeOK, TypeOK
<1>2. ProviderTypeOK'
  BY DEF CheckWaitingForPanels, ResumeOrWait, ContinueStreaming, StartStreaming,
         NoNewStream, providerVars, ProviderTypeOK, TypeOK
<1>3. PipelineTypeOK'
  BY DEF CheckWaitingForPanels, ResumeOrWait, ContinueStreaming, StartStreaming,
         NoNewStream, loopVars, batchVars, waitVars, PipelineTypeOK, TypeOK
<1>4. TalkTypeOK'
  BY DEF CheckWaitingForPanels, ResumeOrWait, ContinueStreaming, StartStreaming,
         NoNewStream, spineVars, TalkTypeOK, TypeOK
<1> QED
  BY <1>1, <1>2, <1>3, <1>4 DEF TypeOK

(* CheckDeferredSleep keeps the types. *)
LEMMA CheckDeferredSleepType ==
  ASSUME TypeOK, BoundsAssumption, CheckDeferredSleep
  PROVE  TypeOK'
<1>1. LoopTypeOK'
  <2>1. pc' \in {"input", "retry", "panels", "sleep", "watchers", "tools", "finalize",
                 "spine", "reload"}
    BY GoToReasons DEF CheckDeferredSleep
  <2>2. pendingDone' \in 0..streams' /\ phase' \in {"idle", "receiving", "executing"}
    BY DEF CheckDeferredSleep, ResumeOrWait, ContinueStreaming, StartStreaming,
           NoNewStream, ProviderTypeOK, loopVars, providerVars, LoopTypeOK, TypeOK
  <2>3. deferred' \in [panels : BOOLEAN, sleeping : BOOLEAN, asked : BOOLEAN]
    BY DEF CheckDeferredSleep, ResumeOrWait, ContinueStreaming, StartStreaming,
           NoNewStream, loopVars, providerVars, LoopTypeOK, TypeOK
  <2> QED
    BY <2>1, <2>2, <2>3
       DEF CheckDeferredSleep, ResumeOrWait, ContinueStreaming, StartStreaming,
           NoNewStream, loopVars, providerVars, LoopTypeOK, TypeOK
<1>2. ProviderTypeOK'
  BY DEF CheckDeferredSleep, ResumeOrWait, ContinueStreaming, StartStreaming, NoNewStream,
         providerVars, ProviderTypeOK, TypeOK
<1>3. PipelineTypeOK'
  BY DEF CheckDeferredSleep, ResumeOrWait, ContinueStreaming, StartStreaming, NoNewStream,
         loopVars, batchVars, waitVars, PipelineTypeOK, TypeOK
<1>4. TalkTypeOK'
  BY DEF CheckDeferredSleep, ResumeOrWait, ContinueStreaming, StartStreaming, NoNewStream,
         spineVars, TalkTypeOK, TypeOK
<1> QED
  BY <1>1, <1>2, <1>3, <1>4 DEF TypeOK

(* CollectTools keeps the types. *)
LEMMA CollectToolsType ==
  ASSUME TypeOK, BoundsAssumption, CollectTools
  PROVE  TypeOK'
<1>1. LoopTypeOK'
  BY DEF CollectTools, TakePendingTools, loopVars, providerVars, LoopTypeOK, TypeOK
<1>2. ProviderTypeOK'
  BY DEF CollectTools, TakePendingTools, providerVars, ProviderTypeOK, TypeOK
<1>3. PipelineTypeOK'
  BY DEF CollectTools, TakePendingTools, loopVars, batchVars, waitVars, PipelineTypeOK,
         TypeOK
<1>4. TalkTypeOK'
  BY DEF CollectTools, TakePendingTools, spineVars, TalkTypeOK, TypeOK
<1> QED
  BY <1>1, <1>2, <1>3, <1>4 DEF TypeOK

(* CheckWatchers keeps the types. *)
LEMMA CheckWatchersType ==
  ASSUME TypeOK, NEW fired \in SUBSET watchers, CheckWatchers(fired)
  PROVE  TypeOK'
<1> DEFINE got == arrived \cup {w.key : w \in BlockingWatchers(fired)}
           noted == IF fired \subseteq BlockingWatchers(fired) THEN messages ELSE InjectNote(messages)
           told == ToolResults([i \in 1..Len(waiting) |-> Resolved(waiting[i], got)])
<1>1. noted \in Seq(MessageSet)
  BY MessageTypes DEF InjectNote, TypeOK, TalkTypeOK
<1>2. Append(noted, told) \in Seq(MessageSet)
  <2>1. ASSUME NEW i \in 1..Len(waiting) PROVE Resolved(waiting[i], got) \in ResultSet
    <3> HIDE DEF got
    <3>1. waiting[i] \in ResultSet
      BY DEF TypeOK, PipelineTypeOK
    <3> QED
      BY <3>1 DEF Resolved, ResultSet
  <2>2. Len(waiting) \in Nat
    BY DEF TypeOK, PipelineTypeOK
  <2> HIDE DEF got, noted
  <2>3. [i \in 1..Len(waiting) |-> Resolved(waiting[i], got)] \in Seq(ResultSet)
    BY <2>1, <2>2
  <2>4. told \in MessageSet
    BY <2>3, MessageTypes
  <2> HIDE DEF told
  <2> QED
    BY <1>1, <2>4
<1>3. got \subseteq Keys
  BY DEF BlockingWatchers, TypeOK, PipelineTypeOK
<1>4. \/ AfterResults(Append(noted, told), FALSE) /\ waiting' = NoWait /\ arrived' = {}
      \/ /\ arrived' \in {arrived, got} /\ messages' = noted
         /\ NoNewStream /\ UNCHANGED <<waiting, phase, pendingDone, deferred>>
  BY DEF CheckWatchers, TakeWaiting, ResumePipeline
<1> HIDE DEF got, noted, told
<1>5. /\ messages' \in Seq(MessageSet)
      /\ phase' \in {"idle", "receiving", "executing"}
      /\ streams' \in Nat /\ llm' \subseteq 1..streams' /\ streams <= streams'
      /\ pendingDone' \in 0..streams'
      /\ deferred' \in [panels : BOOLEAN, sleeping : BOOLEAN, asked : BOOLEAN]
  <2>1. CASE AfterResults(Append(noted, told), FALSE)
    BY <1>2, <2>1, AfterResultsTypes
  <2>2. CASE /\ messages' = noted
             /\ NoNewStream /\ UNCHANGED <<waiting, phase, pendingDone, deferred>>
    BY <1>1, <2>2 DEF NoNewStream, TypeOK, LoopTypeOK, ProviderTypeOK
  <2> QED
    BY <1>4, <2>1, <2>2
<1>6. LoopTypeOK'
  <2>1. pc' \in {"input", "retry", "panels", "sleep", "watchers", "tools", "finalize",
                 "spine", "reload"}
    BY GoToReasons DEF CheckWatchers
  <2> QED
    BY <1>5, <2>1 DEF CheckWatchers, LoopTypeOK, TypeOK
<1>7. ProviderTypeOK'
  BY <1>5 DEF CheckWatchers, ProviderTypeOK, TypeOK
<1>8. PipelineTypeOK'
  <2>1. arrived' \subseteq Keys /\ waiting' \in Seq(ResultSet)
    <3>1. arrived' = {} \/ arrived' \in {arrived, got}
      BY <1>4
    <3>2. waiting' = <<>> \/ waiting' = waiting
      BY <1>4 DEF NoWait
    <3>3. arrived \subseteq Keys /\ waiting \in Seq(ResultSet)
      BY DEF PipelineTypeOK, TypeOK
    <3>4. arrived' \subseteq Keys
      BY <1>3, <3>1, <3>3
    <3>5. waiting' \in Seq(ResultSet)
      <4>1. <<>> \in Seq(ResultSet)
        OBVIOUS
      <4> QED
        BY <3>2, <3>3, <4>1, Zenon
    <3> QED
      BY <3>4, <3>5
  <2>2. watchers' \subseteq [key : Keys, blocking : BOOLEAN]
    BY DEF CheckWatchers, PipelineTypeOK, TypeOK
  <2> QED
    BY <2>1, <2>2 DEF CheckWatchers, PipelineTypeOK, TypeOK, batchVars
<1>9. TalkTypeOK'
  BY <1>5 DEF CheckWatchers, TalkTypeOK, TypeOK, Sources
<1> QED
  BY <1>6, <1>7, <1>8, <1>9 DEF TypeOK

(* One tool: what may happen to it. *)
LEMMA ExecuteToolForms ==
  ASSUME TypeOK, ExecuteTool
  PROVE  /\ Head(batch) \in CallSet /\ Tail(batch) \in Seq(CallSet)
         /\ \/ \E out \in {"ok", "error"} : Answer(Head(batch), out)
               /\ ExecuteNone /\ UNCHANGED <<queue, flushed>>
            \/ Answer(Head(batch), "ok") /\ Flush
            \/ Answer(Head(batch), "ok") /\ queue' = [queue EXCEPT !.active = FALSE]
               /\ ExecuteNone /\ UNCHANGED flushed
            \/ Answer(Head(batch), "queued") /\ queue' = Enqueue(Head(batch))
               /\ ExecuteNone /\ UNCHANGED flushed
            \/ results' = Append(results, ExecutedResult(Head(batch)))
               /\ ExecuteAll(<<Head(batch)>>) /\ UNCHANGED <<queue, flushed>>
<1>1. Head(batch) \in CallSet /\ Tail(batch) \in Seq(CallSet)
  BY DEF ExecuteTool, TypeOK, PipelineTypeOK
<1>2. QueueControl(Head(batch)) \/ Ordinary(Head(batch))
  BY DEF ExecuteTool
<1> QED
  BY <1>1, <1>2, Zenon DEF QueueControl, Ordinary

(* ExecuteTool keeps the types. *)
LEMMA ExecuteToolType ==
  ASSUME TypeOK, ExecuteTool
  PROVE  TypeOK'
<1> DEFINE c == Head(batch)
<1>1. c \in CallSet /\ Tail(batch) \in Seq(CallSet)
  BY ExecuteToolForms
<1>2. \/ ExecuteNone
      \/ Flush
      \/ ExecuteAll(<<c>>)
  BY ExecuteToolForms
<1>3. queue.calls \in Seq(CallSet) /\ Replay(queue.calls) \in Seq(CallSet) /\ <<c>> \in Seq(CallSet)
  BY <1>1, PipelineTypes DEF TypeOK, PipelineTypeOK
<1>4. /\ watchers' \subseteq [key : Keys, blocking : BOOLEAN]
      /\ deferred' \in [panels : BOOLEAN, sleeping : BOOLEAN, asked : BOOLEAN]
      /\ reloading' \in BOOLEAN
      /\ executed' \in [1..MaxCalls -> Nat]
  <2>1. CASE ExecuteNone
    BY <2>1 DEF ExecuteNone, TypeOK, LoopTypeOK, PipelineTypeOK
  <2>2. CASE Flush
    BY <1>3, <2>2, ExecuteAllTypes DEF Flush, TypeOK
  <2>3. CASE ExecuteAll(<<c>>)
    BY <1>3, <2>3, ExecuteAllTypes DEF TypeOK
  <2> QED
    BY <1>2, <2>1, <2>2, <2>3
<1> HIDE DEF c
<1>5. results' \in Seq(ResultSet)
  <2>1. \/ \E out \in {"ok", "error", "queued"} : results' = Append(results, Result(c, out, c.key))
        \/ results' = Append(results, ExecutedResult(c))
    BY ExecuteToolForms DEF Answer, c
  <2> QED
    <3>1. \E r \in ResultSet : results' = Append(results, r)
      BY <1>1, <2>1, PipelineTypes, Zenon
    <3> QED
      BY <3>1 DEF TypeOK, PipelineTypeOK
<1>6. flushed' \in Seq(CallSet) /\ queue' \in [active : BOOLEAN, calls : Seq(CallSet)]
  <2>1. \/ UNCHANGED <<queue, flushed>>
        \/ Flush
        \/ queue' = [queue EXCEPT !.active = FALSE] /\ UNCHANGED flushed
        \/ queue' = Enqueue(c) /\ UNCHANGED flushed
    BY ExecuteToolForms DEF c
  <2>2. CASE UNCHANGED <<queue, flushed>>
    BY <2>2 DEF TypeOK, PipelineTypeOK
  <2>3. CASE Flush
    BY <1>3, <2>3 DEF Flush, DrainedQueue, TypeOK, PipelineTypeOK
  <2>4. CASE queue' = [queue EXCEPT !.active = FALSE] /\ UNCHANGED flushed
    BY <2>4 DEF TypeOK, PipelineTypeOK
  <2>5. CASE queue' = Enqueue(c) /\ UNCHANGED flushed
    BY <1>1, <1>3, <2>5 DEF Enqueue, TypeOK, PipelineTypeOK
  <2> QED
    BY <2>1, <2>2, <2>3, <2>4, <2>5
<1>7. LoopTypeOK'
  BY <1>4 DEF ExecuteTool, LoopTypeOK, TypeOK, providerVars
<1>8. ProviderTypeOK'
  BY DEF ExecuteTool, ProviderTypeOK, TypeOK, providerVars
<1>9. PipelineTypeOK'
  BY <1>1, <1>4, <1>5, <1>6 DEF ExecuteTool, PipelineTypeOK, TypeOK
<1>10. TalkTypeOK'
  <2>1. messages' \in Seq(MessageSet)
    BY <1>1, MessageTypes DEF ExecuteTool, TalkTypeOK, TypeOK, c
  <2> QED
    BY <2>1 DEF ExecuteTool, TalkTypeOK, TypeOK, spineVars
<1> QED
  BY <1>7, <1>8, <1>9, <1>10 DEF TypeOK

(* ReplayFlushed keeps the types. *)
LEMMA ReplayFlushedType ==
  ASSUME TypeOK, ReplayFlushed
  PROVE  TypeOK'
<1>1. flushed \in Seq(CallSet) /\ Len(flushed) \in Nat
  BY DEF TypeOK, PipelineTypeOK
<1>2. [i \in 1..Len(flushed) |-> ToolCall(flushed[i])] \in Seq(MessageSet)
  <2>1. ASSUME NEW i \in 1..Len(flushed) PROVE ToolCall(flushed[i]) \in MessageSet
    BY <1>1, MessageTypes
  <2> QED
    BY <1>1, <2>1
<1>3. [i \in 1..Len(flushed) |-> ExecutedResult(flushed[i])] \in Seq(ResultSet)
  <2>1. ASSUME NEW i \in 1..Len(flushed) PROVE ExecutedResult(flushed[i]) \in ResultSet
    BY <1>1, PipelineTypes
  <2> QED
    BY <1>1, <2>1
<1>4. LoopTypeOK'
  BY DEF ReplayFlushed, LoopTypeOK, TypeOK, loopVars, providerVars
<1>5. ProviderTypeOK'
  BY DEF ReplayFlushed, ProviderTypeOK, TypeOK, providerVars
<1>6. PipelineTypeOK'
  <2> DEFINE rs == [i \in 1..Len(flushed) |-> ExecutedResult(flushed[i])]
  <2>1. results' = results \o rs /\ rs \in Seq(ResultSet)
    BY <1>3 DEF ReplayFlushed
  <2> HIDE DEF rs
  <2>2. results' \in Seq(ResultSet)
    BY <2>1 DEF TypeOK, PipelineTypeOK
  <2> QED
    BY <1>1, <2>2 DEF ReplayFlushed, PipelineTypeOK, TypeOK, loopVars, waitVars
<1>7. TalkTypeOK'
  <2> DEFINE ms == [i \in 1..Len(flushed) |-> ToolCall(flushed[i])]
  <2>1. messages' = messages \o ms /\ ms \in Seq(MessageSet)
    BY <1>2 DEF ReplayFlushed
  <2> HIDE DEF ms
  <2>2. messages' \in Seq(MessageSet)
    BY <2>1 DEF TalkTypeOK, TypeOK
  <2> QED
    BY <2>2 DEF ReplayFlushed, TalkTypeOK, TypeOK, spineVars
<1> QED
  BY <1>4, <1>5, <1>6, <1>7 DEF TypeOK

(* FinishBatch keeps the types. *)
LEMMA FinishBatchType ==
  ASSUME TypeOK, NEW fires \in BOOLEAN, NEW spawns \in BOOLEAN, FinishBatch(fires, spawns)
  PROVE  TypeOK'
<1> DEFINE key == <<nextToolId, "callback">>
           tagged == IF fires THEN Tagged(key) ELSE results
<1>1. tagged \in Seq(ResultSet)
  BY TaggedType DEF TypeOK, PipelineTypeOK
<1>2. Append(messages, ToolResults(tagged)) \in Seq(MessageSet)
  <2> HIDE DEF tagged
  <2>1. ToolResults(tagged) \in MessageSet
    BY <1>1, MessageTypes
  <2> QED
    BY <2>1 DEF TypeOK, TalkTypeOK
<1>3. \/ waiting' = tagged /\ NoNewStream /\ UNCHANGED <<messages, phase, pendingDone, deferred>>
      \/ /\ AfterResults(Append(messages, ToolResults(tagged)), deferred.asked)
         /\ UNCHANGED waiting
  BY DEF FinishBatch
<1>4. [key |-> key, blocking |-> TRUE] \in [key : Keys, blocking : BOOLEAN]
  BY DEF Keys, TypeOK, PipelineTypeOK
<1> HIDE DEF tagged
<1>5. /\ messages' \in Seq(MessageSet)
      /\ phase' \in {"idle", "receiving", "executing"}
      /\ streams' \in Nat /\ llm' \subseteq 1..streams' /\ streams <= streams'
      /\ pendingDone' \in 0..streams'
      /\ deferred' \in [panels : BOOLEAN, sleeping : BOOLEAN, asked : BOOLEAN]
  <2>1. CASE AfterResults(Append(messages, ToolResults(tagged)), deferred.asked)
    BY <1>2, <2>1, AfterResultsTypes
  <2>2. CASE NoNewStream /\ UNCHANGED <<messages, phase, pendingDone, deferred>>
    BY <2>2 DEF NoNewStream, TypeOK, LoopTypeOK, ProviderTypeOK, TalkTypeOK
  <2> QED
    BY <1>3, <2>1, <2>2
<1>6. LoopTypeOK'
  <2>1. pc' \in {"input", "retry", "panels", "sleep", "watchers", "tools", "finalize",
                 "spine", "reload"}
    BY GoToReasons DEF FinishBatch
  <2> QED
    BY <1>5, <2>1 DEF FinishBatch, LoopTypeOK, TypeOK
<1>7. ProviderTypeOK'
  BY <1>5 DEF FinishBatch, ProviderTypeOK, TypeOK
<1>8. PipelineTypeOK'
  <2>1. waiting' \in Seq(ResultSet)
    BY <1>1, <1>3 DEF PipelineTypeOK, TypeOK
  <2>2. watchers' \subseteq [key : Keys, blocking : BOOLEAN]
    <3>1. watchers' \in {watchers, watchers \cup {[key |-> key, blocking |-> TRUE]}}
      BY DEF FinishBatch
    <3> QED
      BY <1>4, <3>1 DEF PipelineTypeOK, TypeOK
  <2>3. nextToolId' \in Nat
    BY DEF FinishBatch, PipelineTypeOK, TypeOK
  <2> QED
    BY <2>1, <2>2, <2>3 DEF FinishBatch, PipelineTypeOK, TypeOK
<1>9. TalkTypeOK'
  BY <1>5 DEF FinishBatch, TalkTypeOK, TypeOK, spineVars
<1> QED
  BY <1>6, <1>7, <1>8, <1>9 DEF TypeOK

(* FinalizeStream keeps the types. *)
LEMMA FinalizeStreamType ==
  ASSUME TypeOK, FinalizeStream
  PROVE  TypeOK'
<1>1. LoopTypeOK'
  <2>1. pc' \in {"input", "retry", "panels", "sleep", "watchers", "tools", "finalize",
                 "spine", "reload"}
    BY GoToReasons DEF FinalizeStream
  <2> QED
    BY <2>1 DEF FinalizeStream, LoopTypeOK, ProviderTypeOK, TypeOK, providerVars
<1>2. ProviderTypeOK'
  BY DEF FinalizeStream, ProviderTypeOK, TypeOK, providerVars
<1>3. PipelineTypeOK'
  BY DEF FinalizeStream, PipelineTypeOK, TypeOK, batchVars, waitVars
<1>4. TalkTypeOK'
  <2>1. spine' \in [stopped : BOOLEAN, count : 0..MaxAutoRetries, errors : Nat]
    <3>1. spine \in [stopped : BOOLEAN, count : 0..MaxAutoRetries, errors : Nat]
      BY DEF TalkTypeOK, TypeOK
    <3>2. 0 \in 0..MaxAutoRetries
      BY BoundsAssumption
    <3>3. spine' = [stopped |-> spine.stopped, count |-> 0, errors |-> 0]
      BY <3>1 DEF FinalizeStream
    <3> QED
      BY <3>1, <3>2, <3>3
  <2> QED
    BY <2>1 DEF FinalizeStream, UnblockAll, TalkTypeOK, TypeOK
<1> QED
  BY <1>1, <1>2, <1>3, <1>4 DEF TypeOK

(* CheckSpine keeps the types. *)
LEMMA CheckSpineType ==
  ASSUME TypeOK, CheckSpine
  PROVE  TypeOK'
<1>1. \/ /\ NoNewStream /\ UNCHANGED <<phase, pendingTools, messages, spine>>
         /\ UNCHANGED <<unprocessed, blocked>> \/ MarkAllUnprocessedAsBlocked
      \/ SpineContinue
  BY DEF CheckSpine, SpineIdle, SpineBlocked, spineVars
<1>2. pc' \in {"events", "input", "retry", "panels", "sleep", "watchers", "tools", "finalize",
               "spine", "reload"}
  BY GoToReasons DEF CheckSpine
<1>3. LoopTypeOK'
  BY <1>1, <1>2 DEF CheckSpine, SpineContinue, StartStreaming, NoNewStream, LoopTypeOK,
                    ProviderTypeOK, TypeOK
<1>4. ProviderTypeOK'
  BY <1>1 DEF CheckSpine, SpineContinue, StartStreaming, NoNewStream, ProviderTypeOK, TypeOK
<1>5. PipelineTypeOK'
  <2>1. pendingTools' \in Seq(CallSet)
    <3>1. pendingTools' = pendingTools \/ pendingTools' = <<>>
      BY <1>1 DEF SpineContinue
    <3>2. pendingTools \in Seq(CallSet)
      BY DEF PipelineTypeOK, TypeOK
    <3>3. <<>> \in Seq(CallSet)
      OBVIOUS
    <3> QED
      BY <3>1, <3>2, <3>3, Zenon
  <2> QED
    BY <2>1 DEF CheckSpine, PipelineTypeOK, TypeOK, batchVars, waitVars
<1>6. TalkTypeOK'
  <2>1. CASE UNCHANGED <<messages, spine>>
             /\ (UNCHANGED <<unprocessed, blocked>> \/ MarkAllUnprocessedAsBlocked)
    BY <2>1 DEF MarkAllUnprocessedAsBlocked, TalkTypeOK, TypeOK, Sources
  <2>2. CASE SpineContinue
    <3>1. Continuation \in Seq(MessageSet)
      BY MessageTypes DEF Continuation, TalkTypeOK, TypeOK
    <3>2. messages' \in Seq(MessageSet)
      BY <2>2, <3>1, MessageTypes DEF SpineContinue
    <3>3. spine' \in [stopped : BOOLEAN, count : 0..MaxAutoRetries, errors : Nat]
      BY <2>2, BoundsAssumption DEF SpineContinue, TalkTypeOK, TypeOK
    <3> QED
      BY <2>2, <3>2, <3>3 DEF SpineContinue, TalkTypeOK, TypeOK
  <2> QED
    BY <1>1, <2>1, <2>2
<1> QED
  BY <1>3, <1>4, <1>5, <1>6 DEF TypeOK

(* Reload keeps the types. *)
LEMMA ReloadType ==
  ASSUME TypeOK, BoundsAssumption, Reload
  PROVE  TypeOK'
<1>1. LoopTypeOK'
  <2>1. broken' \in BOOLEAN
    BY DEF Reload, LoopTypeOK, TypeOK
  <2>2. deferred' \in [panels : BOOLEAN, sleeping : BOOLEAN, asked : BOOLEAN]
    BY DEF Reload
  <2>3. pendingDone' \in 0..streams' /\ retries' \in 0..MaxApiRetries
    BY DEF Reload, ProviderTypeOK, TypeOK, BoundsAssumption
  <2> QED
    BY <2>1, <2>2, <2>3 DEF Reload, LoopTypeOK, TypeOK
<1>2. ProviderTypeOK'
  BY DEF Reload, ProviderTypeOK, TypeOK
<1>3. PipelineTypeOK'
  BY DEF Reload, PipelineTypeOK, TypeOK, batchVars, NoWait
<1>4. TalkTypeOK'
  BY DEF Reload, TalkTypeOK, TypeOK, Sources
<1> QED
  BY <1>1, <1>2, <1>3, <1>4 DEF TypeOK

-----------------------------------------------------------------------------
(* One stream at a time. *)

(* A retry that is due is the first thing the tick does. *)
LEMMA GoToRetry ==
  ASSUME GoTo(1), retry'
  PROVE  pc' = "retry"
<1> DEFINE busy == {j \in 1..Len(Handlers) : HasWork'[Handlers[j]]}
           first == CHOOSE j \in busy : \A k \in busy : j <= k
<1>1. 1 \in busy /\ busy \subseteq 1..8
  BY DEF Handlers, HasWork
<1>2. pc' = IF busy = {} THEN "input" ELSE Handlers[first]
  BY DEF GoTo
<1> HIDE DEF busy
<1>3. first = 1
  <2>1. 1 \in busy /\ \A k \in busy : 1 <= k
    BY <1>1
  <2>2. first \in busy /\ \A k \in busy : first <= k
    BY <2>1
  <2> HIDE DEF first
  <2>3. first \in 1..8 /\ first <= 1
    BY <1>1, <2>2
  <2> QED
    BY <2>3
<1>4. busy # {}
  BY <1>1
<1> HIDE DEF first
<1> QED
  BY <1>2, <1>3, <1>4 DEF Handlers

(* GoTo keeps the reasons. *)
LEMMA GoToKeepsReasons ==
  ASSUME NEW i \in 1..8, GoTo(i), OneStage', i = 1 \/ ~retry'
  PROVE  Reasons'
<1>1. retry' => pc' \in {"events", "retry"}
  BY GoToRetry
<1>2. /\ pc' \in {"input", "retry", "panels", "sleep", "watchers", "tools", "finalize",
                 "spine", "reload"}
      /\ pc' = "retry" => i = 1 /\ retry'
      /\ pc' = "panels" => deferred'.panels
      /\ pc' = "sleep" => deferred'.sleeping
      /\ pc' = "tools" => MayExecute'
      /\ pc' = "finalize" => MayFinalize'
  BY GoToReasons
<1>3. pc' \in {"tools", "finalize"} => pendingDone' # 0 /\ ~Deferred' /\ waiting' = NoWait
  BY <1>2, Zenon DEF MayExecute, MayFinalize, OneStage, Deferred
<1>4. pc' \notin {"execute", "callbacks"}
  BY <1>2
<1> QED
  BY <1>1, <1>2, <1>3, <1>4 DEF Reasons

(* Between two turns nothing is under way. *)
LEMMA QuietBetweenTurns ==
  ASSUME OneStage, ~Streaming
  PROVE  /\ llm = {} /\ channel = <<>> /\ pendingDone = 0 /\ ~retry
         /\ ~deferred.panels /\ ~deferred.sleeping /\ waiting = NoWait
BY Zenon DEF OneStage, Sending, Deferred

(* Once the Done is in, nothing more comes. *)
LEMMA QuietAfterDone ==
  ASSUME OneStage, pendingDone # 0
  PROVE  llm = {} /\ channel = <<>> /\ ~retry /\ Streaming
BY Zenon DEF OneStage, Sending

(* The events behind the first are of the current stream too. *)
LEMMA RestIsOwn ==
  ASSUME ProviderTypeOK, OwnEvents, channel # <<>>
  PROVE  \A i \in 1..Len(Tail(channel)) :
           /\ Tail(channel)[i].stream = streams
           /\ Tail(channel)[i].kind \in {"done", "error"} => i = Len(Tail(channel)) /\ llm = {}
<1> SUFFICES ASSUME NEW i \in 1..Len(Tail(channel))
             PROVE  /\ Tail(channel)[i].stream = streams
                    /\ Tail(channel)[i].kind \in {"done", "error"} =>
                         i = Len(Tail(channel)) /\ llm = {}
  OBVIOUS
<1>1. channel \in Seq(EventSet)
  BY DEF ProviderTypeOK
<1>2. /\ i + 1 \in 1..Len(channel) /\ Tail(channel)[i] = channel[i + 1]
      /\ Len(Tail(channel)) = Len(channel) - 1
  BY <1>1
<1>3. /\ channel[i + 1].stream = streams
      /\ channel[i + 1].kind \in {"done", "error"} => i + 1 = Len(channel) /\ llm = {}
  BY <1>2 DEF OwnEvents
<1>4. Len(channel) \in Nat
  BY <1>1
<1> DEFINE rest == Tail(channel)
<1>5. i \in Int /\ rest[i] = channel[i + 1] /\ Len(rest) = Len(channel) - 1
  BY <1>2
<1> HIDE DEF rest
<1>6. /\ rest[i].stream = streams
      /\ rest[i].kind \in {"done", "error"} => i = Len(rest) /\ llm = {}
  BY <1>3, <1>4, <1>5
<1> QED
  BY <1>6 DEF rest

(* A state in which nothing is under way. *)
LEMMA QuietState ==
  ASSUME llm' = {}, channel' = <<>>, pendingDone' = 0, ~retry',
         ~deferred'.panels, ~deferred'.sleeping, waiting' = NoWait
  PROVE  /\ OwnEvents' /\ OneStage'
         /\ pc' \in {"input", "events"} => Reasons'
<1>1. OwnEvents'
  BY DEF OwnEvents
<1>2. OneStage'
  BY Zenon DEF OneStage, Sending, Deferred
<1>3. pc' \in {"input", "events"} => Reasons'
  BY DEF Reasons
<1> QED
  BY <1>1, <1>2, <1>3

(* A stream that has just been started is all there is. *)
LEMMA FreshStream ==
  ASSUME llm' \subseteq {streams'}, channel' = <<>>, Streaming', pendingDone' = 0, ~retry',
         ~deferred'.panels, ~deferred'.sleeping, waiting' = NoWait
  PROVE  OwnEvents' /\ OneStage'
<1>1. OwnEvents'
  BY DEF OwnEvents
<1>2. OneStage'
  BY Zenon DEF OneStage, Sending, Deferred
<1> QED
  BY <1>1, <1>2

(* SendText keeps the turn in one stage. *)
LEMMA SendTextTurn ==
  ASSUME TypeOK, OneTurn, NEW g \in llm, SendText(g)
  PROVE  OneTurn'
<1> SUFFICES ASSUME ~broken'
             PROVE  OwnEvents' /\ OneStage' /\ Reasons'
  BY DEF OneTurn
<1>1. OwnEvents /\ OneStage /\ Reasons
  BY DEF OneTurn, SendText, SendEvent
<1>a. PICK ev : ev.stream = g /\ ev.kind = "text" /\ channel' = Append(channel, ev)
  <2>1. SendEvent(g, [stream |-> g, kind |-> "text"])
    BY DEF SendText
  <2> QED
    BY <2>1 DEF SendEvent
<1>2. g = streams /\ Streaming /\ pendingDone = 0 /\ ~retry /\ pc \in {"input", "events"}
  BY <1>1 DEF OwnEvents, OneStage, Sending, SendText, SendEvent
<1>3. OwnEvents'
  <2>1. UNCHANGED streams /\ llm' \subseteq llm /\ UNCHANGED pendingDone
    BY <1>2 DEF SendText, SendEvent, loopVars
  <2>2. channel \in Seq(EventSet) /\ \A i \in 1..Len(channel) : channel[i].kind \notin {"done", "error"}
    BY <1>1 DEF OwnEvents, TypeOK, ProviderTypeOK
  <2>3. Len(channel') = Len(channel) + 1 /\ channel'[Len(channel')] = ev
    BY <1>a, <2>2
  <2>4. \A i \in 1..Len(channel') : i # Len(channel') => i \in 1..Len(channel) /\ channel'[i] = channel[i]
    BY <1>a, <2>2
  <2> QED
    BY <1>1, <1>2, <1>a, <2>1, <2>2, <2>3, <2>4 DEF OwnEvents
<1>4. OneStage'
  BY <1>1, <1>2
     DEF OneStage, Sending, Deferred, Streaming, SendText, SendEvent, loopVars, waitVars
<1>5. Reasons'
  BY <1>1, <1>2 DEF Reasons, Deferred, SendText, SendEvent, loopVars, waitVars
<1> QED
  BY <1>3, <1>4, <1>5

(* SendToolUse keeps the turn in one stage. *)
LEMMA SendToolUseTurn ==
  ASSUME TypeOK, OneTurn, NEW g \in llm, SendToolUse(g)
  PROVE  OneTurn'
<1> SUFFICES ASSUME ~broken'
             PROVE  OwnEvents' /\ OneStage' /\ Reasons'
  BY DEF OneTurn
<1>1. OwnEvents /\ OneStage /\ Reasons
  BY DEF OneTurn, SendToolUse, SendEvent
<1>a. PICK ev : ev.stream = g /\ ev.kind = "tool" /\ channel' = Append(channel, ev)
  BY DEF SendToolUse, SendEvent
<1>2. g = streams /\ Streaming /\ pendingDone = 0 /\ ~retry /\ pc \in {"input", "events"}
  BY <1>1 DEF OwnEvents, OneStage, Sending, SendToolUse, SendEvent
<1>3. OwnEvents'
  <2>1. UNCHANGED streams /\ llm' \subseteq llm /\ UNCHANGED pendingDone
    BY <1>2 DEF SendToolUse, SendEvent, loopVars
  <2>2. channel \in Seq(EventSet) /\ \A i \in 1..Len(channel) : channel[i].kind \notin {"done", "error"}
    BY <1>1 DEF OwnEvents, TypeOK, ProviderTypeOK
  <2>3. Len(channel') = Len(channel) + 1 /\ channel'[Len(channel')] = ev
    BY <1>a, <2>2
  <2>4. \A i \in 1..Len(channel') : i # Len(channel') => i \in 1..Len(channel) /\ channel'[i] = channel[i]
    BY <1>a, <2>2
  <2> QED
    BY <1>1, <1>2, <1>a, <2>1, <2>2, <2>3, <2>4 DEF OwnEvents
<1>4. OneStage'
  BY <1>1, <1>2
     DEF OneStage, Sending, Deferred, Streaming, SendToolUse, SendEvent, loopVars,
         waitVars
<1>5. Reasons'
  BY <1>1, <1>2 DEF Reasons, Deferred, SendToolUse, SendEvent, loopVars, waitVars
<1> QED
  BY <1>3, <1>4, <1>5

(* SendDone keeps the turn in one stage. *)
LEMMA SendDoneTurn ==
  ASSUME TypeOK, OneTurn, NEW g \in llm, SendDone(g)
  PROVE  OneTurn'
<1> SUFFICES ASSUME ~broken'
             PROVE  OwnEvents' /\ OneStage' /\ Reasons'
  BY DEF OneTurn
<1>1. OwnEvents /\ OneStage /\ Reasons
  BY DEF OneTurn, SendDone, SendEvent
<1>a. PICK ev : ev.stream = g /\ ev.kind = "done" /\ channel' = Append(channel, ev)
  <2>1. SendEvent(g, [stream |-> g, kind |-> "done"])
    BY DEF SendDone
  <2> QED
    BY <2>1 DEF SendEvent
<1>2. g = streams /\ Streaming /\ pendingDone = 0 /\ ~retry /\ pc \in {"input", "events"}
  BY <1>1 DEF OwnEvents, OneStage, Sending, SendDone, SendEvent
<1>3. OwnEvents'
  <2>1. UNCHANGED streams /\ llm' \subseteq llm /\ UNCHANGED pendingDone /\ llm' = {}
    BY <1>1, <1>2 DEF SendDone, SendEvent, loopVars, OwnEvents
  <2>2. channel \in Seq(EventSet) /\ \A i \in 1..Len(channel) : channel[i].kind \notin {"done", "error"}
    BY <1>1 DEF OwnEvents, TypeOK, ProviderTypeOK
  <2>3. Len(channel') = Len(channel) + 1 /\ channel'[Len(channel')] = ev
    BY <1>a, <2>2
  <2>4. \A i \in 1..Len(channel') : i # Len(channel') => i \in 1..Len(channel) /\ channel'[i] = channel[i]
    BY <1>a, <2>2
  <2> QED
    BY <1>1, <1>2, <1>a, <2>1, <2>2, <2>3, <2>4 DEF OwnEvents
<1>4. OneStage'
  BY <1>1, <1>2
     DEF OneStage, Sending, Deferred, Streaming, SendDone, SendEvent, loopVars, waitVars
<1>5. Reasons'
  BY <1>1, <1>2 DEF Reasons, Deferred, SendDone, SendEvent, loopVars, waitVars
<1> QED
  BY <1>3, <1>4, <1>5

(* SendError keeps the turn in one stage. *)
LEMMA SendErrorTurn ==
  ASSUME TypeOK, OneTurn, NEW g \in llm, SendError(g)
  PROVE  OneTurn'
<1> SUFFICES ASSUME ~broken'
             PROVE  OwnEvents' /\ OneStage' /\ Reasons'
  BY DEF OneTurn
<1>1. OwnEvents /\ OneStage /\ Reasons
  BY DEF OneTurn, SendError, SendEvent
<1>a. PICK ev : ev.stream = g /\ ev.kind = "error" /\ channel' = Append(channel, ev)
  <2>1. SendEvent(g, [stream |-> g, kind |-> "error"])
    BY DEF SendError
  <2> QED
    BY <2>1 DEF SendEvent
<1>2. g = streams /\ Streaming /\ pendingDone = 0 /\ ~retry /\ pc \in {"input", "events"}
  BY <1>1 DEF OwnEvents, OneStage, Sending, SendError, SendEvent
<1>3. OwnEvents'
  <2>1. UNCHANGED streams /\ llm' \subseteq llm /\ UNCHANGED pendingDone /\ llm' = {}
    BY <1>1, <1>2 DEF SendError, SendEvent, loopVars, OwnEvents
  <2>2. channel \in Seq(EventSet) /\ \A i \in 1..Len(channel) : channel[i].kind \notin {"done", "error"}
    BY <1>1 DEF OwnEvents, TypeOK, ProviderTypeOK
  <2>3. Len(channel') = Len(channel) + 1 /\ channel'[Len(channel')] = ev
    BY <1>a, <2>2
  <2>4. \A i \in 1..Len(channel') : i # Len(channel') => i \in 1..Len(channel) /\ channel'[i] = channel[i]
    BY <1>a, <2>2
  <2> QED
    BY <1>1, <1>2, <1>a, <2>1, <2>2, <2>3, <2>4 DEF OwnEvents
<1>4. OneStage'
  BY <1>1, <1>2
     DEF OneStage, Sending, Deferred, Streaming, SendError, SendEvent, loopVars, waitVars
<1>5. Reasons'
  BY <1>1, <1>2 DEF Reasons, Deferred, SendError, SendEvent, loopVars, waitVars
<1> QED
  BY <1>3, <1>4, <1>5

(* NoInput keeps the turn in one stage. *)
LEMMA NoInputTurn ==
  ASSUME TypeOK, OneTurn, NoInput
  PROVE  OneTurn'
<1> SUFFICES ASSUME ~broken'
             PROVE  OwnEvents' /\ OneStage' /\ Reasons'
  BY DEF OneTurn
<1>1. OwnEvents /\ OneStage /\ Reasons
  BY DEF OneTurn, NoInput
<1>2. OwnEvents'
  BY <1>1 DEF OwnEvents, NoInput, loopVars, providerVars
<1>3. OneStage'
  BY <1>1
     DEF OneStage, Sending, Deferred, Streaming, NoInput, loopVars, providerVars, waitVars
<1>4. Reasons'
  BY <1>1 DEF Reasons, Deferred, NoInput, loopVars, waitVars
<1> QED
  BY <1>2, <1>3, <1>4

(* UserMessage keeps the turn in one stage. *)
LEMMA UserMessageTurn ==
  ASSUME TypeOK, OneTurn, UserMessage
  PROVE  OneTurn'
<1> SUFFICES ASSUME ~broken'
             PROVE  OwnEvents' /\ OneStage' /\ Reasons'
  BY DEF OneTurn
<1>1. OwnEvents /\ OneStage /\ Reasons
  BY DEF OneTurn, UserMessage
<1>2. OwnEvents'
  BY <1>1 DEF OwnEvents, UserMessage, loopVars, providerVars
<1>3. OneStage'
  BY <1>1
     DEF OneStage, Sending, Deferred, Streaming, UserMessage, loopVars, providerVars,
         waitVars
<1>4. Reasons'
  BY <1>1 DEF Reasons, Deferred, UserMessage, loopVars, waitVars
<1> QED
  BY <1>2, <1>3, <1>4

(* Clear keeps the turn in one stage. *)
LEMMA ClearTurn ==
  ASSUME TypeOK, OneTurn, Clear
  PROVE  OneTurn'
<1> SUFFICES ASSUME ~broken'
             PROVE  OwnEvents' /\ OneStage' /\ Reasons'
  BY DEF OneTurn
<1>1. OwnEvents /\ OneStage /\ Reasons
  BY DEF OneTurn, Clear
<1>2. OwnEvents'
  BY <1>1 DEF OwnEvents, Clear, loopVars, providerVars
<1>3. OneStage'
  BY <1>1
     DEF OneStage, Sending, Deferred, Streaming, Clear, loopVars, providerVars, waitVars
<1>4. Reasons'
  BY <1>1 DEF Reasons, Deferred, Clear, loopVars, waitVars
<1> QED
  BY <1>2, <1>3, <1>4

(* PaletteReload keeps the turn in one stage. *)
LEMMA PaletteReloadTurn ==
  ASSUME TypeOK, OneTurn, PaletteReload
  PROVE  OneTurn'
<1> SUFFICES ASSUME ~broken'
             PROVE  OwnEvents' /\ OneStage' /\ Reasons'
  BY DEF OneTurn
<1>1. OwnEvents /\ OneStage /\ Reasons
  BY DEF OneTurn, PaletteReload
<1>2. OwnEvents'
  BY <1>1 DEF OwnEvents, PaletteReload, loopVars, providerVars
<1>3. OneStage'
  BY <1>1
     DEF OneStage, Sending, Deferred, Streaming, PaletteReload, loopVars, providerVars,
         waitVars
<1>4. Reasons'
  BY <1>1 DEF Reasons, Deferred, PaletteReload, loopVars, waitVars
<1> QED
  BY <1>2, <1>3, <1>4

(* Esc keeps the turn in one stage. *)
LEMMA EscTurn ==
  ASSUME TypeOK, OneTurn, Esc
  PROVE  OneTurn'
<1> SUFFICES ASSUME ~broken'
             PROVE  OwnEvents' /\ OneStage' /\ Reasons'
  BY DEF OneTurn
<1>1. OwnEvents /\ OneStage /\ Reasons
  BY DEF OneTurn, Esc
<1>2. /\ llm' = {} /\ channel' = <<>> /\ ~deferred'.panels /\ ~deferred'.sleeping
  BY DEF Esc, Stopping, StreamAhead, providerVars
<1>3. pendingDone' = 0 /\ ~retry' /\ waiting' = NoWait /\ pc' = "events"
  BY <1>1 DEF Esc, Stopping, Reasons
<1> QED
  BY <1>2, <1>3, QuietState

(* WebStop keeps the turn in one stage. *)
LEMMA WebStopTurn ==
  ASSUME TypeOK, OneTurn, WebStop
  PROVE  OneTurn'
<1> SUFFICES ASSUME ~broken'
             PROVE  OwnEvents' /\ OneStage' /\ Reasons'
  BY DEF OneTurn
<1>1. OwnEvents /\ OneStage /\ Reasons
  BY DEF OneTurn, WebStop
<1>2. /\ llm' = {} /\ channel' = <<>> /\ ~deferred'.panels /\ ~deferred'.sleeping
  BY DEF WebStop, Stopping, StreamAhead, PendingWork, providerVars
<1>3. pendingDone' = 0 /\ ~retry' /\ waiting' = NoWait /\ pc' = "events"
  BY <1>1 DEF WebStop, Stopping, Reasons, PendingWork, waitVars
<1> QED
  BY <1>2, <1>3, QuietState

(* DropEvent keeps the turn in one stage. *)
LEMMA DropEventTurn ==
  ASSUME TypeOK, OneTurn, DropEvent
  PROVE  OneTurn'
<1> SUFFICES ASSUME ~broken'
             PROVE  OwnEvents' /\ OneStage' /\ Reasons'
  BY DEF OneTurn
<1>1. OwnEvents /\ OneStage /\ Reasons
  BY DEF OneTurn, DropEvent, AfterEvent
<1> QED
  BY <1>1, QuietBetweenTurns DEF DropEvent, AfterEvent

(* TextEvent keeps the turn in one stage. *)
LEMMA TextEventTurn ==
  ASSUME TypeOK, OneTurn, TextEvent
  PROVE  OneTurn'
<1> SUFFICES ASSUME ~broken'
             PROVE  OwnEvents' /\ OneStage' /\ Reasons'
  BY DEF OneTurn
<1>1. OwnEvents /\ OneStage /\ Reasons
  BY DEF OneTurn, TextEvent, AfterEvent
<1>2. OwnEvents'
  <2>1. channel' = Tail(channel) /\ channel # <<>>
    BY DEF TextEvent, AfterEvent
  <2>2. \A i \in 1..Len(channel') :
          /\ channel'[i].stream = streams
          /\ channel'[i].kind \in {"done", "error"} => i = Len(channel') /\ llm = {}
    BY <1>1, <2>1, RestIsOwn DEF TypeOK
  <2> QED
    BY <1>1, <2>2 DEF OwnEvents, TextEvent, AfterEvent
<1>3. Streaming' /\ pendingDone' = 0 /\ ~retry' /\ pc' = "events"
  BY <1>1 DEF OneStage, Sending, Streaming, TextEvent, AfterEvent
<1>4. waiting' = NoWait /\ ~Deferred'
  BY <1>1 DEF OneStage, Sending, Deferred, TextEvent, AfterEvent, waitVars
<1>5. OneStage'
  BY <1>3, <1>4, Zenon DEF OneStage, Deferred
<1>6. Reasons'
  BY <1>3, <1>4 DEF Reasons
<1> QED
  BY <1>2, <1>5, <1>6

(* ToolEvent keeps the turn in one stage. *)
LEMMA ToolEventTurn ==
  ASSUME TypeOK, OneTurn, ToolEvent
  PROVE  OneTurn'
<1> SUFFICES ASSUME ~broken'
             PROVE  OwnEvents' /\ OneStage' /\ Reasons'
  BY DEF OneTurn
<1>1. OwnEvents /\ OneStage /\ Reasons
  BY DEF OneTurn, ToolEvent, AfterEvent
<1>2. OwnEvents'
  <2>1. channel' = Tail(channel) /\ channel # <<>>
    BY DEF ToolEvent, AfterEvent
  <2>2. \A i \in 1..Len(channel') :
          /\ channel'[i].stream = streams
          /\ channel'[i].kind \in {"done", "error"} => i = Len(channel') /\ llm = {}
    BY <1>1, <2>1, RestIsOwn DEF TypeOK
  <2> QED
    BY <1>1, <2>2 DEF OwnEvents, ToolEvent, AfterEvent
<1>3. Streaming' /\ pendingDone' = 0 /\ ~retry' /\ pc' = "events"
  BY <1>1 DEF OneStage, Sending, Streaming, ToolEvent, AfterEvent
<1>4. waiting' = NoWait /\ ~Deferred'
  BY <1>1 DEF OneStage, Sending, Deferred, ToolEvent, AfterEvent, waitVars
<1>5. OneStage'
  BY <1>3, <1>4, Zenon DEF OneStage, Deferred
<1>6. Reasons'
  BY <1>3, <1>4 DEF Reasons
<1> QED
  BY <1>2, <1>5, <1>6

(* DoneEvent keeps the turn in one stage. *)
LEMMA DoneEventTurn ==
  ASSUME TypeOK, OneTurn, DoneEvent
  PROVE  OneTurn'
<1> SUFFICES ASSUME ~broken'
             PROVE  OwnEvents' /\ OneStage' /\ Reasons'
  BY DEF OneTurn
<1>1. OwnEvents /\ OneStage /\ Reasons
  BY DEF OneTurn, DoneEvent, AfterEvent
<1>2. channel' = <<>> /\ llm' = {}
  <2>1. channel \in Seq(EventSet) /\ channel # <<>> /\ channel' = Tail(channel)
    BY DEF DoneEvent, AfterEvent, TypeOK, ProviderTypeOK
  <2>2. channel[1].kind \in {"done", "error"} /\ 1 \in 1..Len(channel)
    BY <2>1 DEF DoneEvent
  <2>3. Len(channel) = 1 /\ llm = {}
    BY <1>1, <2>2 DEF OwnEvents
  <2> QED
    BY <2>1, <2>3 DEF DoneEvent, AfterEvent
<1>3. pendingDone' = streams' /\ ~retry' /\ Streaming' /\ pc' = "events"
  <2>1. Head(channel).stream = streams
    BY <1>1 DEF OwnEvents, DoneEvent, AfterEvent, TypeOK, ProviderTypeOK
  <2> QED
    BY <1>1, <2>1 DEF OneStage, Sending, Streaming, DoneEvent, AfterEvent
<1>4. waiting' = NoWait /\ ~Deferred'
  BY <1>1 DEF OneStage, Sending, Deferred, DoneEvent, AfterEvent, waitVars
<1>5. OwnEvents'
  BY <1>2, <1>3 DEF OwnEvents
<1>6. OneStage'
  BY <1>2, <1>3, <1>4, Zenon DEF OneStage, Deferred, Sending
<1>7. Reasons'
  BY <1>3, <1>4 DEF Reasons
<1> QED
  BY <1>5, <1>6, <1>7

(* ErrorEvent keeps the turn in one stage. *)
LEMMA ErrorEventTurn ==
  ASSUME TypeOK, OneTurn, ErrorEvent
  PROVE  OneTurn'
<1> SUFFICES ASSUME ~broken'
             PROVE  OwnEvents' /\ OneStage' /\ Reasons'
  BY DEF OneTurn
<1>1. OwnEvents /\ OneStage /\ Reasons
  BY DEF OneTurn, ErrorEvent, AfterEvent
<1>2. channel' = <<>> /\ llm' = {}
  <2>1. channel \in Seq(EventSet) /\ channel # <<>> /\ channel' = Tail(channel)
    BY DEF ErrorEvent, AfterEvent, TypeOK, ProviderTypeOK
  <2>2. channel[1].kind \in {"done", "error"} /\ 1 \in 1..Len(channel)
    BY <2>1 DEF ErrorEvent
  <2>3. Len(channel) = 1 /\ llm = {}
    BY <1>1, <2>2 DEF OwnEvents
  <2> QED
    BY <2>1, <2>3 DEF ErrorEvent, AfterEvent
<1>3. pendingDone' = 0 /\ (retry' => Streaming') /\ pc' = "events"
  <2>1. pendingDone = 0 /\ ~retry /\ Streaming
    BY <1>1 DEF OneStage, Sending, ErrorEvent, AfterEvent
  <2>2. UNCHANGED phase \/ UNCHANGED retry
    BY DEF ErrorEvent
  <2> QED
    BY <2>1, <2>2 DEF ErrorEvent, AfterEvent, Streaming
<1>4. waiting' = NoWait /\ ~Deferred'
  BY <1>1 DEF OneStage, Sending, Deferred, ErrorEvent, AfterEvent, waitVars
<1>5. OwnEvents'
  BY <1>2, <1>3 DEF OwnEvents
<1>6. OneStage'
  BY <1>2, <1>3, <1>4, Zenon DEF OneStage, Deferred, Sending
<1>7. Reasons'
  BY <1>3, <1>4 DEF Reasons
<1> QED
  BY <1>5, <1>6, <1>7

(* EventsDrained keeps the turn in one stage. *)
LEMMA EventsDrainedTurn ==
  ASSUME TypeOK, OneTurn, EventsDrained
  PROVE  OneTurn'
<1> SUFFICES ASSUME ~broken'
             PROVE  OwnEvents' /\ OneStage' /\ Reasons'
  BY DEF OneTurn
<1>1. OwnEvents /\ OneStage /\ Reasons
  BY DEF OneTurn, EventsDrained
<1>2. OwnEvents'
  BY <1>1 DEF OwnEvents, EventsDrained, loopVars, providerVars
<1>3. OneStage'
  BY <1>1
     DEF OneStage, Sending, Deferred, Streaming, EventsDrained, loopVars, providerVars,
         waitVars
<1>4. Reasons'
  BY <1>3, GoToKeepsReasons DEF EventsDrained
<1> QED
  BY <1>2, <1>3, <1>4

(* HandleRetry keeps the turn in one stage. *)
LEMMA HandleRetryTurn ==
  ASSUME TypeOK, OneTurn, HandleRetry
  PROVE  OneTurn'
<1> SUFFICES ASSUME ~broken'
             PROVE  OwnEvents' /\ OneStage' /\ Reasons'
  BY DEF OneTurn
<1>1. OwnEvents /\ OneStage /\ Reasons
  BY DEF OneTurn, HandleRetry
<1>2. /\ Streaming /\ llm = {} /\ channel = <<>>
      /\ ~deferred.panels /\ ~deferred.sleeping /\ waiting = NoWait
  BY <1>1, Zenon DEF OneStage, Reasons, Sending, Deferred, HandleRetry
<1>3. /\ llm' = {streams'} /\ channel' = <<>> /\ Streaming' /\ pendingDone' = 0 /\ ~retry'
      /\ ~deferred'.panels /\ ~deferred'.sleeping /\ waiting' = NoWait
  BY <1>2 DEF HandleRetry, Relaunch, StartStreaming, Streaming, waitVars
<1>4. OwnEvents' /\ OneStage'
  BY <1>3, FreshStream
<1>5. Reasons'
  BY <1>3, <1>4, GoToKeepsReasons DEF HandleRetry
<1> QED
  BY <1>4, <1>5

(* CheckWaitingForPanels keeps the turn in one stage. *)
LEMMA CheckWaitingForPanelsTurn ==
  ASSUME TypeOK, OneTurn, CheckWaitingForPanels
  PROVE  OneTurn'
<1> SUFFICES ASSUME ~broken'
             PROVE  OwnEvents' /\ OneStage' /\ Reasons'
  BY DEF OneTurn
<1>1. OwnEvents /\ OneStage /\ Reasons
  BY DEF OneTurn, CheckWaitingForPanels, ResumeOrWait
<1>2. deferred.panels /\ ~deferred.sleeping /\ pendingDone # 0 /\ waiting = NoWait
  BY <1>1, Zenon DEF OneStage, Reasons, Deferred, CheckWaitingForPanels
<1>3. llm = {} /\ channel = <<>> /\ ~retry
  BY <1>1, <1>2, QuietAfterDone
<1>4. OwnEvents' /\ OneStage'
  <2>1. CASE ContinueStreaming /\ deferred' = [deferred EXCEPT !.panels = FALSE]
    <3>1. ~deferred'.panels /\ ~deferred'.sleeping
      BY <1>2, <2>1 DEF TypeOK, LoopTypeOK
    <3>2. llm' = {streams'} /\ Streaming' /\ pendingDone' = 0
      BY <1>3, <2>1 DEF ContinueStreaming, StartStreaming, Streaming
    <3>3. channel' = <<>> /\ ~retry' /\ waiting' = NoWait
      BY <1>2, <1>3 DEF CheckWaitingForPanels, ResumeOrWait, waitVars
    <3> QED
      BY <3>1, <3>2, <3>3, FreshStream
  <2>2. CASE NoNewStream /\ UNCHANGED <<deferred, phase, pendingDone>>
    <3>1. OwnEvents'
      BY <1>1, <2>2 DEF OwnEvents, NoNewStream, CheckWaitingForPanels, ResumeOrWait
    <3>2. OneStage'
      BY <1>1, <2>2
         DEF OneStage, Sending, Deferred, Streaming, NoNewStream, CheckWaitingForPanels,
             ResumeOrWait, waitVars
    <3> QED
      BY <3>1, <3>2
  <2> QED
    BY <2>1, <2>2 DEF CheckWaitingForPanels, ResumeOrWait
<1>5. Reasons'
  <2>1. ~retry'
    BY <1>3 DEF CheckWaitingForPanels, ResumeOrWait
  <2> QED
    BY <1>4, <2>1, GoToKeepsReasons DEF CheckWaitingForPanels
<1> QED
  BY <1>4, <1>5

(* CheckDeferredSleep keeps the turn in one stage. *)
LEMMA CheckDeferredSleepTurn ==
  ASSUME TypeOK, OneTurn, CheckDeferredSleep
  PROVE  OneTurn'
<1> SUFFICES ASSUME ~broken'
             PROVE  OwnEvents' /\ OneStage' /\ Reasons'
  BY DEF OneTurn
<1>1. OwnEvents /\ OneStage /\ Reasons
  BY DEF OneTurn, CheckDeferredSleep, ResumeOrWait
<1>2. deferred.sleeping /\ ~deferred.panels /\ pendingDone # 0 /\ waiting = NoWait
  BY <1>1, Zenon DEF OneStage, Reasons, Deferred, CheckDeferredSleep
<1>3. llm = {} /\ channel = <<>> /\ ~retry
  BY <1>1, <1>2, QuietAfterDone
<1>4. OwnEvents' /\ OneStage'
  <2>1. CASE ContinueStreaming /\ deferred' = [deferred EXCEPT !.sleeping = FALSE]
    <3>1. ~deferred'.panels /\ ~deferred'.sleeping
      BY <1>2, <2>1 DEF TypeOK, LoopTypeOK
    <3>2. llm' = {streams'} /\ Streaming' /\ pendingDone' = 0
      BY <1>3, <2>1 DEF ContinueStreaming, StartStreaming, Streaming
    <3>3. channel' = <<>> /\ ~retry' /\ waiting' = NoWait
      BY <1>2, <1>3 DEF CheckDeferredSleep, ResumeOrWait, waitVars
    <3> QED
      BY <3>1, <3>2, <3>3, FreshStream
  <2>2. CASE NoNewStream /\ UNCHANGED <<deferred, phase, pendingDone>>
    <3>1. OwnEvents'
      BY <1>1, <2>2 DEF OwnEvents, NoNewStream, CheckDeferredSleep, ResumeOrWait
    <3>2. OneStage'
      BY <1>1, <2>2
         DEF OneStage, Sending, Deferred, Streaming, NoNewStream, CheckDeferredSleep,
             ResumeOrWait, waitVars
    <3> QED
      BY <3>1, <3>2
  <2> QED
    BY <2>1, <2>2 DEF CheckDeferredSleep, ResumeOrWait
<1>5. Reasons'
  <2>1. ~retry'
    BY <1>3 DEF CheckDeferredSleep, ResumeOrWait
  <2> QED
    BY <1>4, <2>1, GoToKeepsReasons DEF CheckDeferredSleep
<1> QED
  BY <1>4, <1>5

(* The tail of a batch: the next stream, or a reason to put it off. *)
LEMMA AfterResultsTurn ==
  ASSUME TypeOK, OwnEvents, OneStage, pendingDone # 0, ~deferred.panels, ~deferred.sleeping,
         NEW ms, NEW sleeps, AfterResults(ms, sleeps),
         UNCHANGED <<channel, retry, pendingTools>>, waiting' = NoWait
  PROVE  OwnEvents' /\ OneStage'
<1>1. llm = {} /\ channel = <<>> /\ ~retry /\ Streaming
  BY QuietAfterDone
<1>2. deferred \in [panels : BOOLEAN, sleeping : BOOLEAN, asked : BOOLEAN]
  BY DEF TypeOK, LoopTypeOK
<1>3. CASE ContinueStreaming /\ UNCHANGED deferred
  <2>1. llm' = {streams'} /\ Streaming' /\ pendingDone' = 0
    BY <1>1, <1>3 DEF ContinueStreaming, StartStreaming, Streaming
  <2>2. channel' = <<>> /\ ~retry' /\ ~deferred'.panels /\ ~deferred'.sleeping
    BY <1>1, <1>3
  <2> QED
    BY <2>1, <2>2, FreshStream
<1>4. CASE /\ NoNewStream /\ UNCHANGED <<phase, pendingDone>>
           /\ \/ UNCHANGED deferred
              \/ deferred' = [deferred EXCEPT !.sleeping = TRUE, !.asked = FALSE]
              \/ deferred' = [deferred EXCEPT !.panels = TRUE]
  <2>1. OwnEvents'
    BY <1>4 DEF OwnEvents, NoNewStream
  <2>2. ~(deferred'.panels /\ deferred'.sleeping)
    BY <1>2, <1>4
  <2>3. llm' = {} /\ channel' = <<>> /\ ~retry' /\ pendingDone' # 0 /\ Streaming'
    BY <1>1, <1>4 DEF NoNewStream, Streaming
  <2>4. OneStage'
    BY <2>2, <2>3, Zenon DEF OneStage, Sending
  <2> QED
    BY <2>1, <2>4
<1> QED
  BY <1>3, <1>4, Zenon DEF AfterResults

(* CheckWatchers keeps the turn in one stage. *)
LEMMA CheckWatchersTurn ==
  ASSUME TypeOK, OneTurn, NEW fired \in SUBSET watchers, CheckWatchers(fired)
  PROVE  OneTurn'
<1> SUFFICES ASSUME ~broken'
             PROVE  OwnEvents' /\ OneStage' /\ Reasons'
  BY DEF OneTurn
<1>1. OwnEvents /\ OneStage /\ Reasons
  BY DEF OneTurn, CheckWatchers
<1>2. CASE /\ waiting # NoWait /\ waiting' = NoWait
           /\ \E ms : AfterResults(ms, FALSE)
  <2>1. pendingDone # 0 /\ ~deferred.panels /\ ~deferred.sleeping
    BY <1>1, <1>2, Zenon DEF OneStage, Deferred
  <2>2. OwnEvents' /\ OneStage'
    BY <1>1, <1>2, <2>1, AfterResultsTurn DEF CheckWatchers
  <2>3. ~retry'
    BY <1>1, <2>1, QuietAfterDone DEF CheckWatchers
  <2> QED
    BY <2>2, <2>3, GoToKeepsReasons DEF CheckWatchers
<1>3. CASE NoNewStream /\ UNCHANGED <<waiting, phase, pendingDone, deferred>>
  <2>1. OwnEvents'
    BY <1>1, <1>3 DEF OwnEvents, NoNewStream, CheckWatchers
  <2>2. OneStage'
    BY <1>1, <1>3 DEF OneStage, Sending, Deferred, Streaming, NoNewStream, CheckWatchers
  <2>3. ~retry'
    BY <1>1 DEF Reasons, CheckWatchers
  <2> QED
    BY <2>1, <2>2, <2>3, GoToKeepsReasons DEF CheckWatchers
<1> QED
  BY <1>2, <1>3, Zenon DEF CheckWatchers, TakeWaiting, ResumePipeline

(* CollectTools keeps the turn in one stage. *)
LEMMA CollectToolsTurn ==
  ASSUME TypeOK, OneTurn, CollectTools
  PROVE  OneTurn'
<1> SUFFICES ASSUME ~broken'
             PROVE  OwnEvents' /\ OneStage' /\ Reasons'
  BY DEF OneTurn
<1>1. OwnEvents /\ OneStage /\ Reasons
  BY DEF OneTurn, CollectTools
<1>2. OwnEvents'
  BY <1>1 DEF OwnEvents, CollectTools, providerVars
<1>3. pendingDone # 0 /\ ~Deferred /\ waiting = NoWait /\ llm = {} /\ channel = <<>> /\ ~retry
  BY <1>1, QuietAfterDone DEF Reasons, CollectTools
<1>4. /\ pendingDone' # 0 /\ ~deferred'.panels /\ ~deferred'.sleeping /\ waiting' = NoWait /\ ~retry'
      /\ llm' = {} /\ channel' = <<>> /\ Streaming' /\ pendingTools' = <<>> /\ pc' = "execute"
  BY <1>3 DEF CollectTools, TakePendingTools, Deferred, Streaming, providerVars, waitVars
<1>5. OneStage'
  BY <1>4, Zenon DEF OneStage, Sending, Deferred
<1>6. Reasons'
  BY <1>4 DEF Reasons, Deferred
<1> QED
  BY <1>2, <1>5, <1>6

(* ExecuteTool keeps the turn in one stage. *)
LEMMA ExecuteToolTurn ==
  ASSUME TypeOK, OneTurn, ExecuteTool
  PROVE  OneTurn'
<1> SUFFICES ASSUME ~broken'
             PROVE  OwnEvents' /\ OneStage' /\ Reasons'
  BY DEF OneTurn
<1>1. OwnEvents /\ OneStage /\ Reasons
  BY DEF OneTurn, ExecuteTool
<1>2. OwnEvents'
  BY <1>1 DEF OwnEvents, ExecuteTool, providerVars
<1>3. deferred'.panels = deferred.panels /\ deferred'.sleeping = deferred.sleeping
  <2>1. UNCHANGED deferred \/ \E b : deferred' = [deferred EXCEPT !.asked = b]
    BY ExecuteToolForms DEF ExecuteNone, ExecuteAll, Flush
  <2> QED
    BY <2>1 DEF TypeOK, LoopTypeOK
<1>4. OneStage'
  BY <1>1, <1>3 DEF OneStage, Sending, Deferred, Streaming, ExecuteTool, providerVars
<1>5. Reasons'
  BY <1>1, <1>3 DEF Reasons, Deferred, ExecuteTool
<1> QED
  BY <1>2, <1>4, <1>5

(* ReplayFlushed keeps the turn in one stage. *)
LEMMA ReplayFlushedTurn ==
  ASSUME TypeOK, OneTurn, ReplayFlushed
  PROVE  OneTurn'
<1> SUFFICES ASSUME ~broken'
             PROVE  OwnEvents' /\ OneStage' /\ Reasons'
  BY DEF OneTurn
<1>1. OwnEvents /\ OneStage /\ Reasons
  BY DEF OneTurn, ReplayFlushed
<1>2. OwnEvents'
  BY <1>1 DEF OwnEvents, ReplayFlushed, loopVars, providerVars
<1>3. OneStage'
  BY <1>1
     DEF OneStage, Sending, Deferred, Streaming, ReplayFlushed, loopVars, providerVars,
         waitVars
<1>4. Reasons'
  BY <1>1 DEF Reasons, Deferred, ReplayFlushed, loopVars, waitVars
<1> QED
  BY <1>2, <1>3, <1>4

(* FinishBatch keeps the turn in one stage. *)
LEMMA FinishBatchTurn ==
  ASSUME TypeOK, OneTurn, NEW fires \in BOOLEAN, NEW spawns \in BOOLEAN, FinishBatch(fires, spawns)
  PROVE  OneTurn'
<1> SUFFICES ASSUME ~broken'
             PROVE  OwnEvents' /\ OneStage' /\ Reasons'
  BY DEF OneTurn
<1>1. OwnEvents /\ OneStage /\ Reasons
  BY DEF OneTurn, FinishBatch
<1>2. pendingDone # 0 /\ ~deferred.panels /\ ~deferred.sleeping /\ waiting = NoWait
      /\ pendingTools = <<>>
  BY <1>1, Zenon DEF Reasons, Deferred, FinishBatch
<1>3. llm = {} /\ channel = <<>> /\ ~retry /\ Streaming
  BY <1>1, <1>2, QuietAfterDone
<1>4. OwnEvents' /\ OneStage'
  <2>1. CASE UNCHANGED waiting /\ \E ms : AfterResults(ms, deferred.asked)
    <3>1. UNCHANGED <<channel, retry, pendingTools>> /\ waiting' = NoWait
      BY <1>2, <2>1 DEF FinishBatch
    <3> QED
      BY <1>1, <1>2, <2>1, <3>1, AfterResultsTurn
  <2>2. CASE NoNewStream /\ UNCHANGED <<messages, phase, pendingDone, deferred>>
    <3>1. OwnEvents'
      BY <1>1, <2>2 DEF OwnEvents, NoNewStream, FinishBatch
    <3>2. /\ pendingDone' # 0 /\ ~deferred'.panels /\ ~deferred'.sleeping /\ ~retry'
          /\ llm' = {} /\ channel' = <<>> /\ Streaming' /\ pendingTools' = <<>>
      BY <1>2, <1>3, <2>2 DEF NoNewStream, FinishBatch, Streaming
    <3>3. OneStage'
      BY <3>2, Zenon DEF OneStage, Sending, Deferred
    <3> QED
      BY <3>1, <3>3
  <2> QED
    BY <2>1, <2>2, Zenon DEF FinishBatch
<1>5. ~retry'
  BY <1>3 DEF FinishBatch
<1>6. Reasons'
  BY <1>4, <1>5, GoToKeepsReasons DEF FinishBatch
<1> QED
  BY <1>4, <1>6

(* FinalizeStream keeps the turn in one stage. *)
LEMMA FinalizeStreamTurn ==
  ASSUME TypeOK, OneTurn, FinalizeStream
  PROVE  OneTurn'
<1> SUFFICES ASSUME ~broken'
             PROVE  OwnEvents' /\ OneStage' /\ Reasons'
  BY DEF OneTurn
<1>1. OwnEvents /\ OneStage /\ Reasons
  BY DEF OneTurn, FinalizeStream
<1>2. pendingDone # 0 /\ ~deferred.panels /\ ~deferred.sleeping /\ waiting = NoWait
  BY <1>1, Zenon DEF Reasons, Deferred, FinalizeStream
<1>3. llm = {} /\ channel = <<>> /\ ~retry
  BY <1>1, <1>2, QuietAfterDone
<1>4. /\ pendingDone' = 0 /\ ~deferred'.panels /\ ~deferred'.sleeping /\ waiting' = NoWait
      /\ llm' = {} /\ channel' = <<>> /\ ~retry'
  BY <1>2, <1>3 DEF FinalizeStream, providerVars, waitVars
<1>5. OwnEvents' /\ OneStage'
  BY <1>4, QuietState
<1>6. Reasons'
  BY <1>4, <1>5, GoToKeepsReasons DEF FinalizeStream
<1> QED
  BY <1>5, <1>6

(* CheckSpine keeps the turn in one stage. *)
LEMMA CheckSpineTurn ==
  ASSUME TypeOK, OneTurn, CheckSpine
  PROVE  OneTurn'
<1> SUFFICES ASSUME ~broken'
             PROVE  OwnEvents' /\ OneStage' /\ Reasons'
  BY DEF OneTurn
<1>1. OwnEvents /\ OneStage /\ Reasons
  BY DEF OneTurn, CheckSpine
<1>2. OwnEvents' /\ OneStage'
  <2>1. CASE SpineContinue
    <3>1. ~Streaming
      BY <2>1 DEF SpineContinue, SpineMayAct
    <3>2. /\ llm = {} /\ channel = <<>> /\ pendingDone = 0 /\ ~retry
          /\ ~deferred.panels /\ ~deferred.sleeping /\ waiting = NoWait
      BY <1>1, <3>1, QuietBetweenTurns
    <3>3. /\ llm' = {streams'} /\ channel' = <<>> /\ Streaming' /\ pendingDone' = 0 /\ ~retry'
          /\ ~deferred'.panels /\ ~deferred'.sleeping /\ waiting' = NoWait
      BY <2>1, <3>2 DEF CheckSpine, SpineContinue, StartStreaming, Streaming, waitVars
    <3> QED
      BY <3>3, FreshStream
  <2>2. CASE NoNewStream /\ UNCHANGED <<phase, pendingTools>>
    <3>1. OwnEvents'
      BY <1>1, <2>2 DEF OwnEvents, NoNewStream, CheckSpine
    <3>2. OneStage'
      BY <1>1, <2>2
         DEF OneStage, Sending, Deferred, Streaming, NoNewStream, CheckSpine, waitVars
    <3> QED
      BY <3>1, <3>2
  <2> QED
    BY <2>1, <2>2 DEF CheckSpine, SpineIdle, SpineBlocked
<1>3. ~retry'
  BY <1>1 DEF Reasons, CheckSpine
<1>4. Reasons'
  <2>1. CASE pc' = "events"
    BY <2>1, <1>3 DEF Reasons
  <2>2. CASE GoTo(8)
    BY <1>2, <1>3, <2>2, GoToKeepsReasons
  <2> QED
    BY <2>1, <2>2 DEF CheckSpine
<1> QED
  BY <1>2, <1>4

(* Reload keeps the turn in one stage. *)
LEMMA ReloadTurn ==
  ASSUME TypeOK, OneTurn, Reload
  PROVE  OneTurn'
<1> SUFFICES ASSUME ~broken'
             PROVE  OwnEvents' /\ OneStage' /\ Reasons'
  BY DEF OneTurn
<1>1. OwnEvents /\ OneStage /\ Reasons
  BY DEF OneTurn, Reload
<1>2. /\ pendingDone' = 0 /\ ~deferred'.panels /\ ~deferred'.sleeping /\ waiting' = NoWait
      /\ llm' = {} /\ channel' = <<>> /\ ~retry' /\ pc' = "input"
  BY DEF Reload
<1> QED
  BY <1>2, QuietState

-----------------------------------------------------------------------------
(* Every call has one home. *)

(* The numbers of a list of calls, as the list grows and shrinks. *)
LEMMA NumsAppend ==
  ASSUME NEW cs \in Seq(CallSet), NEW c \in CallSet
  PROVE  /\ Nums(Append(cs, c)) = Nums(cs) \cup {c.key[1]}
         /\ Distinct(cs) /\ c.key[1] \notin Nums(cs) => Distinct(Append(cs, c))
<1> DEFINE new == Append(cs, c)
<1>1. /\ Len(new) = Len(cs) + 1 /\ new[Len(cs) + 1] = c /\ Len(cs) \in Nat
      /\ \A i \in 1..Len(cs) : new[i] = cs[i]
  OBVIOUS
<1> HIDE DEF new
<1>2. 1..Len(new) = 1..Len(cs) \cup {Len(cs) + 1}
  BY <1>1
<1>3. Nums(new) = Nums(cs) \cup {c.key[1]}
  BY <1>1, <1>2 DEF Nums
<1>4. ASSUME Distinct(cs), c.key[1] \notin Nums(cs) PROVE Distinct(new)
  <2>1. \A i \in 1..Len(cs) : cs[i].key[1] # c.key[1]
    BY <1>4 DEF Nums
  <2> QED
    BY <1>1, <1>2, <1>4, <2>1 DEF Distinct
<1> QED
  BY <1>3, <1>4 DEF new

LEMMA NumsTail ==
  ASSUME NEW cs \in Seq(CallSet), cs # <<>>
  PROVE  /\ Nums(Tail(cs)) \subseteq Nums(cs) /\ Head(cs).key[1] \in Nums(cs)
         /\ Distinct(cs) => Distinct(Tail(cs)) /\ Head(cs).key[1] \notin Nums(Tail(cs))
<1> DEFINE rest == Tail(cs)
<1>1. /\ Len(cs) \in Nat /\ 1 \in 1..Len(cs) /\ Head(cs) = cs[1] /\ Len(rest) = Len(cs) - 1
      /\ \A i \in 1..Len(rest) : i + 1 \in 1..Len(cs) /\ rest[i] = cs[i + 1]
  OBVIOUS
<1> HIDE DEF rest
<1>2. Nums(rest) \subseteq Nums(cs)
  BY <1>1 DEF Nums
<1>3. Head(cs).key[1] \in Nums(cs)
  BY <1>1 DEF Nums
<1>4. ASSUME Distinct(cs) PROVE Distinct(rest)
  <2>1. ASSUME NEW i \in 1..Len(rest), NEW j \in 1..Len(rest), rest[i].key[1] = rest[j].key[1]
        PROVE  i = j
    <3>1. i + 1 \in 1..Len(cs) /\ j + 1 \in 1..Len(cs) /\ cs[i + 1].key[1] = cs[j + 1].key[1]
      BY <1>1, <2>1
    <3>2. i + 1 = j + 1
      BY <1>4, <3>1 DEF Distinct
    <3> QED
      BY <3>2
  <2> QED
    BY <2>1 DEF Distinct
<1>5. ASSUME Distinct(cs), Head(cs).key[1] \in Nums(rest) PROVE FALSE
  <2>1. PICK i \in 1..Len(rest) : Head(cs).key[1] = rest[i].key[1]
    BY <1>5 DEF Nums
  <2>2. i + 1 \in 1..Len(cs) /\ cs[1].key[1] = cs[i + 1].key[1]
    BY <1>1, <2>1
  <2>3. 1 = i + 1
    BY <1>1, <1>5, <2>2 DEF Distinct
  <2> QED
    BY <2>3
<1> QED
  BY <1>2, <1>3, <1>4, <1>5 DEF rest

LEMMA NumsEmpty == Nums(<<>>) = {} /\ Distinct(<<>>)
BY DEF Nums, Distinct

LEMMA NumsOne ==
  ASSUME NEW c
  PROVE  Nums(<<c>>) = {c.key[1]} /\ Distinct(<<c>>)
<1>1. 1..Len(<<c>>) = {1} /\ <<c>>[1] = c
  OBVIOUS
<1> QED
  BY <1>1 DEF Nums, Distinct

(* A replayed call keeps its number. *)
LEMMA NumsReplay ==
  ASSUME NEW cs \in Seq(CallSet)
  PROVE  Nums(Replay(cs)) = Nums(cs) /\ (Distinct(cs) => Distinct(Replay(cs)))
<1>1. Len(Replay(cs)) = Len(cs)
  BY PipelineTypes
<1>2. \A i \in 1..Len(cs) : Replay(cs)[i].key[1] = cs[i].key[1]
  BY DEF Replay, Call
<1> QED
  BY <1>1, <1>2 DEF Nums, Distinct

(* The tool calls of the channel, as events come and go. *)
LEMMA EventsAppend ==
  ASSUME NEW ch \in Seq(EventSet), NEW ev
  PROVE  /\ ev.kind # "tool" =>
              /\ EventNums(Append(ch, ev)) = EventNums(ch)
              /\ DistinctEvents(ch) => DistinctEvents(Append(ch, ev))
         /\ ev.kind = "tool" =>
              /\ EventNums(Append(ch, ev)) = EventNums(ch) \cup {ev.call.key[1]}
              /\ DistinctEvents(ch) /\ ev.call.key[1] \notin EventNums(ch) =>
                   DistinctEvents(Append(ch, ev))
<1> DEFINE new == Append(ch, ev)
<1>1. /\ Len(new) = Len(ch) + 1 /\ new[Len(ch) + 1] = ev /\ Len(ch) \in Nat
      /\ \A i \in 1..Len(ch) : new[i] = ch[i]
  OBVIOUS
<1> HIDE DEF new
<1>2. 1..Len(new) = 1..Len(ch) \cup {Len(ch) + 1}
  BY <1>1
<1>3. ASSUME ev.kind # "tool"
      PROVE  EventNums(new) = EventNums(ch) /\ (DistinctEvents(ch) => DistinctEvents(new))
  <2>1. ToolEvents(new) = ToolEvents(ch)
    BY <1>1, <1>2, <1>3 DEF ToolEvents
  <2>2. \A i \in ToolEvents(ch) : new[i] = ch[i]
    BY <1>1 DEF ToolEvents
  <2> QED
    BY <2>1, <2>2 DEF EventNums, DistinctEvents
<1>4. ASSUME ev.kind = "tool"
      PROVE  /\ EventNums(new) = EventNums(ch) \cup {ev.call.key[1]}
             /\ DistinctEvents(ch) /\ ev.call.key[1] \notin EventNums(ch) => DistinctEvents(new)
  <2>1. ToolEvents(new) = ToolEvents(ch) \cup {Len(ch) + 1}
    BY <1>1, <1>2, <1>4 DEF ToolEvents
  <2>2. \A i \in ToolEvents(ch) : new[i] = ch[i]
    BY <1>1 DEF ToolEvents
  <2>3. EventNums(new) = EventNums(ch) \cup {ev.call.key[1]}
    BY <1>1, <2>1, <2>2 DEF EventNums
  <2>4. ASSUME DistinctEvents(ch), ev.call.key[1] \notin EventNums(ch) PROVE DistinctEvents(new)
    <3>1. \A i \in ToolEvents(ch) : ch[i].call.key[1] # ev.call.key[1]
      BY <2>4 DEF EventNums
    <3> QED
      BY <1>1, <2>1, <2>2, <2>4, <3>1 DEF DistinctEvents
  <2> QED
    BY <2>3, <2>4
<1> QED
  BY <1>3, <1>4 DEF new

LEMMA EventsTail ==
  ASSUME NEW ch \in Seq(EventSet), ch # <<>>
  PROVE  /\ EventNums(Tail(ch)) \subseteq EventNums(ch)
         /\ DistinctEvents(ch) => DistinctEvents(Tail(ch))
         /\ Head(ch).kind = "tool" =>
              /\ Head(ch).call.key[1] \in EventNums(ch)
              /\ DistinctEvents(ch) => Head(ch).call.key[1] \notin EventNums(Tail(ch))
<1> DEFINE rest == Tail(ch)
<1>1. /\ Len(ch) \in Nat /\ 1 \in 1..Len(ch) /\ Head(ch) = ch[1]
      /\ \A i \in 1..Len(rest) : i + 1 \in 1..Len(ch) /\ rest[i] = ch[i + 1]
  OBVIOUS
<1> HIDE DEF rest
<1>2. \A i \in ToolEvents(rest) : i \in Int /\ i + 1 \in ToolEvents(ch) /\ rest[i] = ch[i + 1]
  BY <1>1 DEF ToolEvents
<1>3. EventNums(rest) \subseteq EventNums(ch)
  BY <1>2 DEF EventNums
<1>4. ASSUME DistinctEvents(ch) PROVE DistinctEvents(rest)
  <2>1. ASSUME NEW i \in ToolEvents(rest), NEW j \in ToolEvents(rest),
               rest[i].call.key[1] = rest[j].call.key[1]
        PROVE  i = j
    <3>1. /\ i + 1 \in ToolEvents(ch) /\ j + 1 \in ToolEvents(ch)
          /\ ch[i + 1].call.key[1] = ch[j + 1].call.key[1]
      BY <1>2, <2>1
    <3>2. i + 1 = j + 1
      BY <1>4, <3>1 DEF DistinctEvents
    <3> QED
      BY <1>2, <3>2
  <2> QED
    BY <2>1 DEF DistinctEvents
<1>5. ASSUME Head(ch).kind = "tool"
      PROVE  /\ Head(ch).call.key[1] \in EventNums(ch)
             /\ DistinctEvents(ch) => Head(ch).call.key[1] \notin EventNums(rest)
  <2>1. 1 \in ToolEvents(ch)
    BY <1>1, <1>5 DEF ToolEvents
  <2>2. Head(ch).call.key[1] \in EventNums(ch)
    BY <1>1, <2>1 DEF EventNums
  <2>3. ASSUME DistinctEvents(ch), Head(ch).call.key[1] \in EventNums(rest) PROVE FALSE
    <3>1. PICK i \in ToolEvents(rest) : Head(ch).call.key[1] = rest[i].call.key[1]
      BY <2>3 DEF EventNums
    <3>2. i + 1 \in ToolEvents(ch) /\ ch[1].call.key[1] = ch[i + 1].call.key[1]
      BY <1>1, <1>2, <3>1
    <3>3. 1 = i + 1 /\ i \in 1..Len(rest)
      BY <2>1, <2>3, <3>2 DEF DistinctEvents, ToolEvents
    <3> QED
      BY <3>3
  <2> QED
    BY <2>2, <2>3
<1> QED
  BY <1>3, <1>4, <1>5 DEF rest

(* What is executed of a list without repetitions is counted once. *)
LEMMA ExecuteAllCounts ==
  ASSUME PipelineTypeOK, NEW cs \in Seq(CallSet), Distinct(cs), ExecuteAll(cs), NEW n \in 1..MaxCalls
  PROVE  executed'[n] = IF n \in Nums(cs) THEN executed[n] + 1 ELSE executed[n]
<1> DEFINE at == {i \in 1..Len(cs) : cs[i].key[1] = n}
<1>1. executed'[n] = executed[n] + Cardinality(at)
  BY DEF ExecuteAll
<1>2. executed[n] \in Nat
  BY DEF PipelineTypeOK
<1>3. CASE n \in Nums(cs)
  <2>1. PICK i \in 1..Len(cs) : cs[i].key[1] = n
    BY <1>3 DEF Nums
  <2>2. at = {i}
    BY <2>1 DEF Distinct
  <2>3. Cardinality(at) = 1
    BY <2>2, FS_Singleton
  <2> QED
    BY <1>1, <1>3, <2>3
<1>4. CASE n \notin Nums(cs)
  <2>1. at = {}
    BY <1>4 DEF Nums
  <2>2. Cardinality(at) = 0
    BY <2>1, FS_EmptySet
  <2> QED
    BY <1>1, <1>2, <1>4, <2>2
<1> QED
  BY <1>3, <1>4

(* Calls may be lost on the way. *)
LEMMA CallsLost ==
  ASSUME OneHome, UNCHANGED <<calls, executed>>,
         EventNums(channel') \subseteq EventNums(channel), DistinctEvents(channel'),
         Nums(pendingTools') \subseteq Nums(pendingTools), Distinct(pendingTools'),
         Nums(batch') \subseteq Nums(batch), Distinct(batch'),
         Nums(queue'.calls) \subseteq Nums(queue.calls), Distinct(queue'.calls)
  PROVE  OneHome'
<1>1. AllDistinct'
  BY DEF AllDistinct
<1>2. Apart'
  BY DEF OneHome, Apart
<1>3. Unspent'
  BY DEF OneHome, Unspent
<1>4. Spent'
  BY DEF OneHome, Spent
<1> QED
  BY <1>1, <1>2, <1>3, <1>4 DEF OneHome

(* Nothing that holds calls is touched. *)
LEMMA CallsStay ==
  ASSUME OneHome, UNCHANGED <<channel, calls, pendingTools, batch, queue, executed>>
  PROVE  OneHome'
<1>1. AllDistinct' /\ Apart'
  BY DEF OneHome, AllDistinct, Apart
<1>2. Unspent' /\ Spent'
  BY DEF OneHome, Unspent, Spent
<1> QED
  BY <1>1, <1>2 DEF OneHome

(* An event that is no tool call joins the channel. *)
LEMMA OtherEventSent ==
  ASSUME TypeOK, OneHome, NEW g, NEW ev, ev.kind # "tool", SendEvent(g, ev), UNCHANGED calls
  PROVE  OneHome'
<1>1. EventNums(channel') = EventNums(channel) /\ DistinctEvents(channel')
  BY EventsAppend DEF SendEvent, TypeOK, ProviderTypeOK, OneHome, AllDistinct
<1>2. UNCHANGED <<calls, pendingTools, batch, queue, executed>>
  BY DEF SendEvent, loopVars, batchVars
<1> QED
  BY <1>1, <1>2, CallsLost DEF OneHome, AllDistinct

(* A tool call joins the channel under a number of its own. *)
LEMMA SendToolUseHome ==
  ASSUME TypeOK, OneHome, NEW g \in llm, SendToolUse(g)
  PROVE  OneHome'
<1>1. PICK ev : ev.kind = "tool" /\ ev.call.key[1] = calls + 1 /\ channel' = Append(channel, ev)
  BY DEF SendToolUse, SendEvent, Call
<1>2. calls' = calls + 1 /\ calls \in Nat /\ UNCHANGED <<pendingTools, batch, queue, executed>>
  BY DEF SendToolUse, SendEvent, loopVars, batchVars, TypeOK, ProviderTypeOK
<1>3. calls + 1 \notin EventNums(channel)
  BY <1>2 DEF OneHome, Unspent
<1>4. EventNums(channel') = EventNums(channel) \cup {calls + 1} /\ DistinctEvents(channel')
  BY <1>1, <1>3, EventsAppend DEF TypeOK, ProviderTypeOK, OneHome, AllDistinct
<1>5. AllDistinct'
  BY <1>2, <1>4 DEF OneHome, AllDistinct
<1>6. Apart'
  <2>1. calls + 1 \notin Nums(pendingTools) \cup Nums(batch) \cup Nums(queue.calls)
    BY <1>2 DEF OneHome, Unspent
  <2> QED
    BY <1>2, <1>4, <2>1 DEF OneHome, Apart
<1>7. Unspent'
  <2>1. calls + 1 \in 1..MaxCalls
    BY BoundsAssumption DEF SendToolUse, TypeOK, ProviderTypeOK
  <2>2. executed[calls + 1] = 0
    BY <1>2, <2>1 DEF OneHome, Spent
  <2> QED
    BY <1>2, <1>4, <2>2 DEF OneHome, Unspent
<1>8. Spent'
  BY <1>2 DEF OneHome, Spent
<1> QED
  BY <1>5, <1>6, <1>7, <1>8 DEF OneHome

(* An event is taken from the channel and no call of it kept. *)
LEMMA EventDropped ==
  ASSUME TypeOK, OneHome, AfterEvent, UNCHANGED pendingTools
  PROVE  OneHome'
<1>1. EventNums(channel') \subseteq EventNums(channel) /\ DistinctEvents(channel')
  BY EventsTail DEF AfterEvent, TypeOK, ProviderTypeOK, OneHome, AllDistinct
<1>2. UNCHANGED <<calls, batch, queue, executed>>
  BY DEF AfterEvent, batchVars
<1> QED
  BY <1>1, <1>2, CallsLost DEF OneHome, AllDistinct

(* A call moves from the channel to the pending tools. *)
LEMMA ToolEventHome ==
  ASSUME TypeOK, OneHome, ToolEvent
  PROVE  OneHome'
<1> DEFINE c == Head(channel).call
<1>1. channel \in Seq(EventSet) /\ channel # <<>> /\ Head(channel).kind = "tool"
  BY DEF ToolEvent, AfterEvent, TypeOK, ProviderTypeOK
<1>2. c \in CallSet
  <2>1. Head(channel) \in EventSet
    BY <1>1
  <2> QED
    BY <1>1, <2>1 DEF EventSet
<1>3. /\ EventNums(channel') \subseteq EventNums(channel) /\ DistinctEvents(channel')
      /\ c.key[1] \in EventNums(channel) /\ c.key[1] \notin EventNums(channel')
  BY <1>1, EventsTail DEF ToolEvent, AfterEvent, OneHome, AllDistinct
<1>4. pendingTools' = Append(pendingTools, c)
      /\ UNCHANGED <<calls, batch, queue, executed>>
  BY DEF ToolEvent, AfterEvent, batchVars
<1> HIDE DEF c
<1>5. Nums(pendingTools') = Nums(pendingTools) \cup {c.key[1]} /\ Distinct(pendingTools')
  <2>1. c.key[1] \notin Nums(pendingTools)
    BY <1>3 DEF OneHome, Apart
  <2> QED
    BY <1>2, <1>4, <2>1, NumsAppend DEF TypeOK, PipelineTypeOK, OneHome, AllDistinct
<1>6. AllDistinct'
  BY <1>3, <1>4, <1>5 DEF OneHome, AllDistinct
<1>7. Apart'
  BY <1>3, <1>4, <1>5 DEF OneHome, Apart
<1>8. Unspent'
  BY <1>3, <1>4, <1>5 DEF OneHome, Unspent
<1>9. Spent'
  BY <1>4 DEF OneHome, Spent
<1> QED
  BY <1>6, <1>7, <1>8, <1>9 DEF OneHome

(* The pending tools are taken, not copied. *)
LEMMA CollectToolsHome ==
  ASSUME TypeOK, OneHome, CollectTools
  PROVE  OneHome'
<1>1. batch' = pendingTools /\ pendingTools' = <<>> /\ UNCHANGED <<channel, calls, queue, executed>>
  BY DEF CollectTools, TakePendingTools, providerVars
<1>2. Nums(pendingTools') = {} /\ Distinct(pendingTools')
  BY <1>1, NumsEmpty
<1>3. AllDistinct'
  BY <1>1, <1>2 DEF OneHome, AllDistinct
<1>4. Apart'
  BY <1>1, <1>2 DEF OneHome, Apart
<1>5. Unspent' /\ Spent'
  BY <1>1, <1>2 DEF OneHome, Unspent, Spent
<1> QED
  BY <1>3, <1>4, <1>5 DEF OneHome

(* One tool leaves the batch: dropped, queued or executed; or the queue is  *)
(* executed and emptied.                                                    *)
LEMMA ExecuteToolHome ==
  ASSUME TypeOK, OneHome, ExecuteTool
  PROVE  OneHome'
<1> DEFINE c == Head(batch)
           n == c.key[1]
<1>1. /\ c \in CallSet /\ batch \in Seq(CallSet) /\ batch # <<>> /\ batch' = Tail(batch)
      /\ UNCHANGED <<channel, calls, pendingTools>>
  BY ExecuteToolForms DEF ExecuteTool, providerVars, TypeOK, PipelineTypeOK
<1>2. /\ Nums(batch') \subseteq Nums(batch) /\ n \in Nums(batch) /\ Distinct(batch')
      /\ n \notin Nums(batch')
  BY <1>1, NumsTail DEF OneHome, AllDistinct
<1>3. queue.calls \in Seq(CallSet) /\ Distinct(queue.calls)
  BY DEF TypeOK, PipelineTypeOK, OneHome, AllDistinct
<1>4. n \in 1..MaxCalls
  BY <1>1 DEF CallSet
<1> HIDE DEF n
<1>6. CASE ExecuteNone /\ queue'.calls = queue.calls
  <2>1. UNCHANGED executed
    BY <1>6 DEF ExecuteNone
  <2> QED
    BY <1>1, <1>2, <1>6, <2>1, CallsLost DEF OneHome, AllDistinct
<1>7. CASE queue' = Enqueue(c) /\ ExecuteNone
  <2>1. UNCHANGED executed
    BY <1>7 DEF ExecuteNone
  <2>2. n \notin Nums(queue.calls)
    BY <1>2 DEF OneHome, Apart
  <2>3. queue'.calls = Append(queue.calls, c)
    BY <1>7 DEF Enqueue
  <2>4. Nums(queue'.calls) = Nums(queue.calls) \cup {n} /\ Distinct(queue'.calls)
    BY <1>1, <1>3, <2>2, <2>3, NumsAppend DEF n
  <2>5. AllDistinct'
    BY <1>1, <1>2, <2>4 DEF OneHome, AllDistinct
  <2>6. Apart'
    BY <1>1, <1>2, <2>4 DEF OneHome, Apart
  <2>7. Unspent'
    BY <1>1, <1>2, <2>1, <2>4 DEF OneHome, Unspent
  <2>8. Spent'
    BY <1>1, <2>1 DEF OneHome, Spent
  <2> QED
    BY <2>5, <2>6, <2>7, <2>8 DEF OneHome
<1>8. CASE Flush
  <2>1. Nums(queue'.calls) = {} /\ Distinct(queue'.calls)
    BY <1>8, NumsEmpty DEF Flush, DrainedQueue
  <2>2. ASSUME NEW m \in 1..MaxCalls
        PROVE  executed'[m] = IF m \in Nums(queue.calls) THEN executed[m] + 1 ELSE executed[m]
    <3>1. Replay(queue.calls) \in Seq(CallSet) /\ Distinct(Replay(queue.calls))
          /\ Nums(Replay(queue.calls)) = Nums(queue.calls)
      BY <1>3, PipelineTypes, NumsReplay
    <3>2. ExecuteAll(Replay(queue.calls))
      BY <1>8 DEF Flush
    <3>3. executed'[m] = IF m \in Nums(Replay(queue.calls)) THEN executed[m] + 1 ELSE executed[m]
      BY <3>1, <3>2, ExecuteAllCounts DEF TypeOK
    <3> QED
      BY <3>1, <3>3
  <2>3. AllDistinct'
    BY <1>1, <1>2, <2>1 DEF OneHome, AllDistinct
  <2>4. Apart'
    BY <1>1, <1>2, <2>1 DEF OneHome, Apart
  <2>5. Unspent'
    <3>1. \A m \in EventNums(channel) \cup Nums(pendingTools) \cup Nums(batch) :
            m \in 1..calls /\ executed[m] = 0 /\ m \notin Nums(queue.calls)
      BY DEF OneHome, Unspent, Apart
    <3>2. \A m \in 1..calls : m \in 1..MaxCalls
      BY BoundsAssumption DEF TypeOK, ProviderTypeOK
    <3> QED
      BY <1>1, <1>2, <2>1, <2>2, <3>1, <3>2 DEF Unspent
  <2>6. Spent'
    <3>1. \A m \in Nums(queue.calls) : m \in 1..calls /\ executed[m] = 0
      BY DEF OneHome, Unspent
    <3> QED
      BY <1>1, <2>2, <3>1 DEF OneHome, Spent, TypeOK, ProviderTypeOK
  <2> QED
    BY <2>3, <2>4, <2>5, <2>6 DEF OneHome
<1>9. CASE ExecuteAll(<<c>>) /\ UNCHANGED queue
  <2>1. ASSUME NEW m \in 1..MaxCalls
        PROVE  executed'[m] = IF m = n THEN executed[m] + 1 ELSE executed[m]
    <3>1. <<c>> \in Seq(CallSet) /\ Distinct(<<c>>) /\ Nums(<<c>>) = {n}
      BY <1>1, NumsOne DEF n
    <3>2. executed'[m] = IF m \in Nums(<<c>>) THEN executed[m] + 1 ELSE executed[m]
      BY <1>9, <3>1, ExecuteAllCounts DEF TypeOK
    <3> QED
      BY <3>1, <3>2
  <2>2. AllDistinct'
    BY <1>1, <1>2, <1>9 DEF OneHome, AllDistinct
  <2>3. Apart'
    BY <1>1, <1>2, <1>9 DEF OneHome, Apart
  <2>4. Unspent'
    <3>1. \A m \in EventNums(channel) \cup Nums(pendingTools) \cup Nums(batch') \cup Nums(queue.calls) :
            m \in 1..calls /\ executed[m] = 0 /\ m # n
      BY <1>2 DEF OneHome, Unspent, Apart
    <3>2. \A m \in 1..calls : m \in 1..MaxCalls
      BY BoundsAssumption DEF TypeOK, ProviderTypeOK
    <3> QED
      BY <1>1, <1>9, <2>1, <3>1, <3>2 DEF Unspent
  <2>5. Spent'
    <3>1. n \in 1..calls /\ executed[n] = 0
      BY <1>2 DEF OneHome, Unspent
    <3> QED
      BY <1>1, <2>1, <3>1 DEF OneHome, Spent, TypeOK, ProviderTypeOK
  <2> QED
    BY <2>2, <2>3, <2>4, <2>5 DEF OneHome
<1>10. \/ ExecuteNone /\ UNCHANGED queue
       \/ Flush
       \/ queue' = [queue EXCEPT !.active = FALSE] /\ ExecuteNone
       \/ queue' = Enqueue(c) /\ ExecuteNone
       \/ ExecuteAll(<<c>>) /\ UNCHANGED queue
  BY ExecuteToolForms, Zenon
<1>11. queue' = [queue EXCEPT !.active = FALSE] => queue'.calls = queue.calls
  BY DEF TypeOK, PipelineTypeOK
<1> QED
  BY <1>6, <1>7, <1>8, <1>9, <1>10, <1>11

(* The pending tools are dropped, and possibly the channel too. *)
LEMMA PendingDropped ==
  ASSUME OneHome, UNCHANGED <<calls, batch, queue, executed>>,
         channel' = channel \/ channel' = <<>>,
         pendingTools' = pendingTools \/ pendingTools' = <<>>
  PROVE  OneHome'
<1>1. EventNums(<<>>) = {} /\ DistinctEvents(<<>>)
  BY DEF EventNums, DistinctEvents, ToolEvents
<1>2. EventNums(channel') \subseteq EventNums(channel) /\ DistinctEvents(channel')
  BY <1>1 DEF OneHome, AllDistinct
<1>3. Nums(pendingTools') \subseteq Nums(pendingTools) /\ Distinct(pendingTools')
  BY NumsEmpty DEF OneHome, AllDistinct
<1> QED
  BY <1>2, <1>3, CallsLost DEF OneHome, AllDistinct

-----------------------------------------------------------------------------
(* The inductive invariant and what follows from it. *)

(* The types, the one stage of the turn and the one home of every call. *)
IInv == TypeOK /\ OneTurn /\ OneHome

(* Every step keeps the types. *)
LEMMA TypeStep ==
  ASSUME TypeOK, [Next]_vars
  PROVE  TypeOK'
<1>1. ASSUME NEW g \in llm, SendText(g) PROVE TypeOK'
  BY <1>1, SendTextType, BoundsAssumption
<1>2. ASSUME NEW g \in llm, SendToolUse(g) PROVE TypeOK'
  BY <1>2, SendToolUseType, BoundsAssumption
<1>3. ASSUME NEW g \in llm, SendDone(g) PROVE TypeOK'
  BY <1>3, SendDoneType, BoundsAssumption
<1>4. ASSUME NEW g \in llm, SendError(g) PROVE TypeOK'
  BY <1>4, SendErrorType, BoundsAssumption
<1>5. CASE NoInput
  BY <1>5, NoInputType, BoundsAssumption
<1>6. CASE UserMessage
  BY <1>6, UserMessageType, BoundsAssumption
<1>7. CASE Esc
  BY <1>7, EscType, BoundsAssumption
<1>8. CASE WebStop
  BY <1>8, WebStopType, BoundsAssumption
<1>9. CASE Clear
  BY <1>9, ClearType, BoundsAssumption
<1>10. CASE PaletteReload
  BY <1>10, PaletteReloadType, BoundsAssumption
<1>11. CASE DropEvent
  BY <1>11, DropEventType, BoundsAssumption
<1>12. CASE TextEvent
  BY <1>12, TextEventType, BoundsAssumption
<1>13. CASE ToolEvent
  BY <1>13, ToolEventType, BoundsAssumption
<1>14. CASE DoneEvent
  BY <1>14, DoneEventType, BoundsAssumption
<1>15. CASE ErrorEvent
  BY <1>15, ErrorEventType, BoundsAssumption
<1>16. CASE EventsDrained
  BY <1>16, EventsDrainedType, BoundsAssumption
<1>17. CASE HandleRetry
  BY <1>17, HandleRetryType, BoundsAssumption
<1>18. CASE CheckWaitingForPanels
  BY <1>18, CheckWaitingForPanelsType, BoundsAssumption
<1>19. CASE CheckDeferredSleep
  BY <1>19, CheckDeferredSleepType, BoundsAssumption
<1>20. CASE CollectTools
  BY <1>20, CollectToolsType, BoundsAssumption
<1>21. CASE ExecuteTool
  BY <1>21, ExecuteToolType
<1>22. CASE ReplayFlushed
  BY <1>22, ReplayFlushedType
<1>23. CASE FinalizeStream
  BY <1>23, FinalizeStreamType
<1>24. CASE CheckSpine
  BY <1>24, CheckSpineType
<1>25. CASE Reload
  BY <1>25, ReloadType, BoundsAssumption
<1>26. ASSUME NEW fired \in SUBSET watchers, CheckWatchers(fired) PROVE TypeOK'
  BY <1>26, CheckWatchersType
<1>27. ASSUME NEW fires \in BOOLEAN, NEW spawns \in BOOLEAN, FinishBatch(fires, spawns)
       PROVE  TypeOK'
  BY <1>27, FinishBatchType
<1>28. CASE UNCHANGED vars
  <2>1. LoopTypeOK' /\ ProviderTypeOK'
    BY <1>28 DEF TypeOK, LoopTypeOK, ProviderTypeOK, vars, loopVars, providerVars
  <2>2. PipelineTypeOK' /\ TalkTypeOK'
    BY <1>28
       DEF TypeOK, PipelineTypeOK, TalkTypeOK, vars, loopVars, providerVars, batchVars,
           waitVars, spineVars
  <2> QED
    BY <2>1, <2>2 DEF TypeOK
<1> QED
  BY <1>1, <1>2, <1>3, <1>4, <1>5, <1>6, <1>7, <1>8, <1>9, <1>10, <1>11, <1>12, <1>13,
     <1>14, <1>15, <1>16, <1>17, <1>18, <1>19, <1>20, <1>21, <1>22, <1>23, <1>24,
     <1>25, <1>26, <1>27, <1>28
     DEF Next, Provider, User, Tick, Events, Tools

(* Every step keeps the turn in one stage. *)
LEMMA TurnStep ==
  ASSUME TypeOK, OneTurn, [Next]_vars
  PROVE  OneTurn'
<1>1. ASSUME NEW g \in llm, SendText(g) PROVE OneTurn'
  BY <1>1, SendTextTurn
<1>2. ASSUME NEW g \in llm, SendToolUse(g) PROVE OneTurn'
  BY <1>2, SendToolUseTurn
<1>3. ASSUME NEW g \in llm, SendDone(g) PROVE OneTurn'
  BY <1>3, SendDoneTurn
<1>4. ASSUME NEW g \in llm, SendError(g) PROVE OneTurn'
  BY <1>4, SendErrorTurn
<1>5. CASE NoInput
  BY <1>5, NoInputTurn
<1>6. CASE UserMessage
  BY <1>6, UserMessageTurn
<1>7. CASE Esc
  BY <1>7, EscTurn
<1>8. CASE WebStop
  BY <1>8, WebStopTurn
<1>9. CASE Clear
  BY <1>9, ClearTurn
<1>10. CASE PaletteReload
  BY <1>10, PaletteReloadTurn
<1>11. CASE DropEvent
  BY <1>11, DropEventTurn
<1>12. CASE TextEvent
  BY <1>12, TextEventTurn
<1>13. CASE ToolEvent
  BY <1>13, ToolEventTurn
<1>14. CASE DoneEvent
  BY <1>14, DoneEventTurn
<1>15. CASE ErrorEvent
  BY <1>15, ErrorEventTurn
<1>16. CASE EventsDrained
  BY <1>16, EventsDrainedTurn
<1>17. CASE HandleRetry
  BY <1>17, HandleRetryTurn
<1>18. CASE CheckWaitingForPanels
  BY <1>18, CheckWaitingForPanelsTurn
<1>19. CASE CheckDeferredSleep
  BY <1>19, CheckDeferredSleepTurn
<1>20. CASE CollectTools
  BY <1>20, CollectToolsTurn
<1>21. CASE ExecuteTool
  BY <1>21, ExecuteToolTurn
<1>22. CASE ReplayFlushed
  BY <1>22, ReplayFlushedTurn
<1>23. CASE FinalizeStream
  BY <1>23, FinalizeStreamTurn
<1>24. CASE CheckSpine
  BY <1>24, CheckSpineTurn
<1>25. CASE Reload
  BY <1>25, ReloadTurn
<1>26. ASSUME NEW fired \in SUBSET watchers, CheckWatchers(fired) PROVE OneTurn'
  BY <1>26, CheckWatchersTurn
<1>27. ASSUME NEW fires \in BOOLEAN, NEW spawns \in BOOLEAN, FinishBatch(fires, spawns)
       PROVE  OneTurn'
  BY <1>27, FinishBatchTurn
<1>28. CASE UNCHANGED vars
  <2>1. UNCHANGED <<pc, llm, channel, streams, phase, pendingDone, pendingTools, retry, deferred,
                     waiting, broken>>
    BY <1>28 DEF vars, loopVars, providerVars, waitVars
  <2> QED
    BY <2>1 DEF OneTurn, OwnEvents, OneStage, Reasons, Sending, Deferred, Streaming
<1> QED
  BY <1>1, <1>2, <1>3, <1>4, <1>5, <1>6, <1>7, <1>8, <1>9, <1>10, <1>11, <1>12, <1>13,
     <1>14, <1>15, <1>16, <1>17, <1>18, <1>19, <1>20, <1>21, <1>22, <1>23, <1>24,
     <1>25, <1>26, <1>27, <1>28
     DEF Next, Provider, User, Tick, Events, Tools

(* Every step keeps every call in one home. *)
LEMMA HomeStep ==
  ASSUME TypeOK, OneHome, [Next]_vars
  PROVE  OneHome'
<1>1. ASSUME NEW g \in llm, SendText(g) PROVE OneHome'
  BY <1>1, OtherEventSent DEF SendText
<1>2. ASSUME NEW g \in llm, SendToolUse(g) PROVE OneHome'
  BY <1>2, SendToolUseHome
<1>3. ASSUME NEW g \in llm, SendDone(g) PROVE OneHome'
  BY <1>3, OtherEventSent DEF SendDone
<1>4. ASSUME NEW g \in llm, SendError(g) PROVE OneHome'
  BY <1>4, OtherEventSent DEF SendError
<1>5. CASE NoInput
  BY <1>5, CallsStay DEF NoInput, loopVars, providerVars, batchVars
<1>6. CASE UserMessage
  BY <1>6, CallsStay DEF UserMessage, loopVars, providerVars, batchVars
<1>7. CASE Esc
  BY <1>7, PendingDropped DEF Esc, Stopping, providerVars, batchVars
<1>8. CASE WebStop
  BY <1>8, CallsStay DEF WebStop, Stopping, providerVars, batchVars
<1>9. CASE Clear
  BY <1>9, CallsStay DEF Clear, loopVars, providerVars, batchVars
<1>10. CASE PaletteReload
  BY <1>10, CallsStay DEF PaletteReload, providerVars, batchVars
<1>11. CASE DropEvent
  BY <1>11, EventDropped DEF DropEvent
<1>12. CASE TextEvent
  BY <1>12, EventDropped DEF TextEvent
<1>13. CASE ToolEvent
  BY <1>13, ToolEventHome
<1>14. CASE DoneEvent
  BY <1>14, EventDropped DEF DoneEvent
<1>15. CASE ErrorEvent
  BY <1>15, EventDropped DEF ErrorEvent
<1>16. CASE EventsDrained
  BY <1>16, CallsStay DEF EventsDrained, loopVars, providerVars, batchVars
<1>17. CASE HandleRetry
  BY <1>17, CallsStay DEF HandleRetry, batchVars
<1>18. CASE CheckWaitingForPanels
  BY <1>18, CallsStay DEF CheckWaitingForPanels, ResumeOrWait, batchVars
<1>19. CASE CheckDeferredSleep
  BY <1>19, CallsStay DEF CheckDeferredSleep, ResumeOrWait, batchVars
<1>20. CASE CollectTools
  BY <1>20, CollectToolsHome
<1>21. CASE ExecuteTool
  BY <1>21, ExecuteToolHome
<1>22. CASE ReplayFlushed
  BY <1>22, CallsStay DEF ReplayFlushed, loopVars, providerVars
<1>23. CASE FinalizeStream
  BY <1>23, CallsStay DEF FinalizeStream, providerVars, batchVars
<1>24. CASE CheckSpine
  BY <1>24, PendingDropped DEF CheckSpine, SpineIdle, SpineBlocked, SpineContinue, batchVars
<1>25. CASE Reload
  BY <1>25, PendingDropped DEF Reload, batchVars
<1>26. ASSUME NEW fired \in SUBSET watchers, CheckWatchers(fired) PROVE OneHome'
  BY <1>26, CallsStay DEF CheckWatchers, batchVars
<1>27. ASSUME NEW fires \in BOOLEAN, NEW spawns \in BOOLEAN, FinishBatch(fires, spawns)
       PROVE  OneHome'
  BY <1>27, CallsStay DEF FinishBatch
<1>28. CASE UNCHANGED vars
  BY <1>28, CallsStay DEF vars, loopVars, providerVars, batchVars
<1> QED
  BY <1>1, <1>2, <1>3, <1>4, <1>5, <1>6, <1>7, <1>8, <1>9, <1>10, <1>11, <1>12, <1>13,
     <1>14, <1>15, <1>16, <1>17, <1>18, <1>19, <1>20, <1>21, <1>22, <1>23, <1>24,
     <1>25, <1>26, <1>27, <1>28
     DEF Next, Provider, User, Tick, Events, Tools

LEMMA InitIInv == Init => IInv
<1> SUFFICES ASSUME Init PROVE IInv
  OBVIOUS
<1>1. LoopTypeOK
  <2>1. deferred \in [panels : BOOLEAN, sleeping : BOOLEAN, asked : BOOLEAN]
    BY DEF Init
  <2>2. pendingDone \in 0..streams /\ retries \in 0..MaxApiRetries /\ inputs \in 0..MaxInputs
    BY BoundsAssumption DEF Init
  <2> QED
    BY <2>1, <2>2 DEF Init, LoopTypeOK
<1>2. ProviderTypeOK
  BY BoundsAssumption DEF Init, ProviderTypeOK
<1>3. PipelineTypeOK
  BY DEF Init, PipelineTypeOK, NoWait
<1>4. TalkTypeOK
  BY BoundsAssumption DEF Init, TalkTypeOK
<1>5. OneTurn
  <2>1. OwnEvents
    BY DEF Init, OwnEvents
  <2>2. OneStage /\ Reasons
    BY DEF Init, OneStage, Reasons, Sending, Deferred
  <2> QED
    BY <2>1, <2>2 DEF OneTurn
<1>6. OneHome
  <2>1. EventNums(channel) = {} /\ DistinctEvents(channel)
    BY DEF Init, EventNums, DistinctEvents, ToolEvents
  <2>2. /\ Nums(pendingTools) = {} /\ Distinct(pendingTools) /\ Nums(batch) = {} /\ Distinct(batch)
        /\ Nums(queue.calls) = {} /\ Distinct(queue.calls)
    BY NumsEmpty DEF Init
  <2>3. Spent
    BY DEF Init, Spent
  <2> QED
    BY <2>1, <2>2, <2>3 DEF OneHome, AllDistinct, Apart, Unspent
<1> QED
  BY <1>1, <1>2, <1>3, <1>4, <1>5, <1>6 DEF IInv, TypeOK

(* The inductive invariant of the agent's loop, for any tools, bounds and   *)
(* inputs.                                                                  *)
THEOREM InductiveInvariant == Spec => []IInv
<1>1. IInv /\ [Next]_vars => IInv'
  BY TypeStep, TurnStep, HomeStep DEF IInv
<1> QED
  BY <1>1, InitIInv, PTL DEF Spec

(* State and App keep their types, and no event or pending Done is of a     *)
(* stream that was never started.                                           *)
THEOREM TypeCorrect == Spec => []TypeOK
<1>1. IInv => TypeOK
  BY DEF IInv
<1> QED
  BY <1>1, InductiveInvariant, PTL

(* execute_tool, execute_queue_flush, collect_tool_results: no call of the  *)
(* model runs twice, whatever is queued, replayed, retried, stopped,        *)
(* cleared or reloaded.                                                     *)
THEOREM NoToolTwice == Spec => []ExecutedOnce
<1>1. IInv => ExecutedOnce
  BY DEF IInv, OneHome, Spent, ExecutedOnce
<1> QED
  BY <1>1, InductiveInvariant, PTL

(* start_streaming: as long as no stop, clear or reload has cut through     *)
(* pending work, one provider thread sends at a time, although the retry,   *)
(* the panels, the sleep, the watchers, the batch and the spine each start  *)
(* streams.                                                                 *)
THEOREM OneThreadAtATime == Spec => []OneStream
<1>1. IInv => OneStream
  <2> SUFFICES ASSUME IInv, ~broken PROVE Cardinality(llm) <= 1
    BY DEF OneStream
  <2>1. llm \subseteq {streams}
    BY DEF IInv, OneTurn, OwnEvents
  <2>2. llm = {} \/ llm = {streams}
    BY <2>1
  <2>3. Cardinality({}) = 0 /\ Cardinality({streams}) = 1
    BY FS_EmptySet, FS_Singleton
  <2>4. Cardinality(llm) = 0 \/ Cardinality(llm) = 1
    BY <2>2, <2>3
  <2> QED
    BY <2>4
<1> QED
  BY <1>1, InductiveInvariant, PTL

(* process_stream_events keeps no stream id in pending_done: on the same    *)
(* condition, the Done that ends the current stream is still its own.       *)
THEOREM DoneIsOwn == Spec => []OwnDone
<1>1. IInv => OwnDone
  BY DEF IInv, OneTurn, OwnEvents, OwnDone
<1> QED
  BY <1>1, InductiveInvariant, PTL

-----------------------------------------------------------------------------
(* The conversation: the calls made before a message, all the calls, and    *)
(* the results.                                                             *)
CallsAt(ms) == {h \in 1..Len(ms) : ms[h].kind = "call"}
ResultsAt(ms) == {h \in 1..Len(ms) : ms[h].kind = "result"}
CalledBy(ms, i) == {ms[h].calls[1].call : h \in {h \in CallsAt(ms) : h < i}}
Called(ms) == {ms[h].calls[1].call : h \in CallsAt(ms)}
Answered(ms) == UNION {Pending(ms[h].calls) : h \in ResultsAt(ms)}

(* What a message is made of. *)
Silent(m) == m.kind \notin {"call", "result"} /\ m.calls = <<>>
WellMade(ms) ==
  \A i \in 1..Len(ms) :
    /\ ms[i].kind = "call" => Len(ms[i].calls) = 1
    /\ ms[i].kind \notin {"call", "result"} => Silent(ms[i])

(* A result comes after its call, once, and a wait's is what it waited for. *)
Apiece(rs) == \A i, j \in 1..Len(rs) : rs[i].call = rs[j].call => i = j
CalledFirst(ms) == \A i \in ResultsAt(ms) : Pending(ms[i].calls) \subseteq CalledBy(ms, i)
AnsweredOnce(ms) ==
  /\ \A i \in ResultsAt(ms) : Apiece(ms[i].calls)
  /\ \A i, j \in ResultsAt(ms) : Pending(ms[i].calls) \cap Pending(ms[j].calls) # {} => i = j
Answers(rs) == \A i \in 1..Len(rs) : rs[i].kind = "wait" => rs[i].out # "unavailable"
Delivered(ms) == \A i \in ResultsAt(ms) : Answers(ms[i].calls)

(* A batch is under way only while the pipeline executes. *)
BetweenBatches ==
  /\ pc # "execute" => batch = <<>> /\ flushed = <<>>
  /\ pc \notin {"execute", "callbacks"} => results = <<>>

(* The model's own calls and the replayed ones are told apart by their ids. *)
Keyed(cs, via) == \A i \in 1..Len(cs) : cs[i].key[2] = via
OwnKeys ==
  /\ \A i \in ToolEvents(channel) : channel[i].call.key[2] = "tool"
  /\ Keyed(pendingTools, "tool") /\ Keyed(batch, "tool") /\ Keyed(flushed, "flush")

(* What has not run is not in the conversation; what the queue replays has  *)
(* run, and is not there before the batch ends.                             *)
NotYetCalled ==
  \A n \in EventNums(channel) \cup Nums(pendingTools) \cup Nums(batch) :
    <<n, "tool">> \notin Called(messages)
NotYetMade == \A n \in Nat : n > calls => <<n, "tool">> \notin Called(messages)
ReplayedRan ==
  /\ \A n \in 1..MaxCalls : <<n, "flush">> \in Called(messages) => executed[n] # 0
  /\ \A n \in Nums(flushed) :
       n \in 1..MaxCalls /\ executed[n] # 0 /\ <<n, "flush">> \notin Called(messages)
  /\ Distinct(flushed)
FreshKeys == NotYetCalled /\ NotYetMade /\ ReplayedRan

(* The calls of the conversation are answered, or the batch or the wait     *)
(* holds their results, and never both.                                     *)
Held == Pending(results) \cup Pending(waiting)
Ledger ==
  ~broken =>
    /\ CalledFirst(messages) /\ AnsweredOnce(messages) /\ Delivered(messages)
    /\ Called(messages) = Answered(messages) \cup Held
    /\ Answered(messages) \cap Held = {}
    /\ Apiece(results) /\ Apiece(waiting)

(* A wait that is not answered yet has its watcher, or what it returned. *)
BlockingKeys == {w.key : w \in BlockingWatchers(watchers)}
Awaited(rs, keys) ==
  \A i \in 1..Len(rs) :
    rs[i].kind = "wait" =>
      rs[i].out # "unavailable" /\ (rs[i].out = "sentinel" => rs[i].key \in keys)
Watched ==
  ~broken =>
    /\ Awaited(results, BlockingKeys)
    /\ Awaited(waiting, arrived \cup BlockingKeys)
    /\ \A i \in 1..Len(flushed) : flushed[i].kind = "wait" => flushed[i].key \in BlockingKeys

Conversation ==
  WellMade(messages) /\ BetweenBatches /\ OwnKeys /\ FreshKeys /\ Ledger /\ Watched

-----------------------------------------------------------------------------
(* What a step does to the conversation. *)

(* Nothing that matters to calls and results. *)
SameTalk(ms, ns) ==
  /\ Called(ns) = Called(ms) /\ Answered(ns) = Answered(ms)
  /\ WellMade(ms) => WellMade(ns)
  /\ CalledFirst(ms) => CalledFirst(ns)
  /\ AnsweredOnce(ms) => AnsweredOnce(ns)
  /\ Delivered(ms) => Delivered(ns)

LEMMA SameRefl == ASSUME NEW ms PROVE SameTalk(ms, ms)
BY DEF SameTalk

LEMMA SameTrans ==
  ASSUME NEW ms, NEW ns, NEW os, SameTalk(ms, ns), SameTalk(ns, os)
  PROVE  SameTalk(ms, os)
BY DEF SameTalk

(* Messages that keep their order, with silent ones put among them. *)
LEMMA Moved ==
  ASSUME NEW ms \in Seq(MessageSet), NEW ns \in Seq(MessageSet),
         NEW at \in [1..Len(ms) -> 1..Len(ns)],
         \A i, j \in 1..Len(ms) : i < j => at[i] < at[j],
         \A i \in 1..Len(ms) : ns[at[i]].kind = ms[i].kind /\ ns[at[i]].calls = ms[i].calls,
         \A k \in 1..Len(ns) : Silent(ns[k]) \/ \E i \in 1..Len(ms) : k = at[i]
  PROVE  SameTalk(ms, ns)
PROOF
  <1>1. /\ \A i \in 1..Len(ms) : at[i] \in 1..Len(ns) /\ at[i] \in Nat /\ i \in Nat
        /\ \A k \in 1..Len(ns) : k \in Nat
        /\ \A i, j \in 1..Len(ms) : at[i] < at[j] => i < j
        /\ \A i, j \in 1..Len(ms) : at[i] = at[j] => i = j
    <2>1. \A i \in 1..Len(ms) : at[i] \in 1..Len(ns)
      BY Zenon
    <2>2. \A i \in 1..Len(ms) : at[i] \in Nat /\ i \in Nat
      BY <2>1
    <2>3. ASSUME NEW i \in 1..Len(ms), NEW j \in 1..Len(ms)
          PROVE  (at[i] < at[j] => i < j) /\ (at[i] = at[j] => i = j)
      <3>1. i \in Nat /\ j \in Nat /\ at[i] \in Nat /\ at[j] \in Nat
        BY <2>2
      <3>2. (i < j => at[i] < at[j]) /\ (j < i => at[j] < at[i])
        OBVIOUS
      <3>3. i < j \/ i = j \/ j < i
        BY ONLY <3>1
      <3> QED BY ONLY <3>1, <3>2, <3>3
    <2>4. \A k \in 1..Len(ns) : k \in Nat
      OBVIOUS
    <2> QED BY ONLY <2>1, <2>2, <2>3, <2>4
  <1>2. \A i \in CallsAt(ms) : at[i] \in CallsAt(ns)
    BY <1>1 DEF CallsAt
  <1>3. \A i \in ResultsAt(ms) : at[i] \in ResultsAt(ns)
    BY <1>1 DEF ResultsAt
  <1>4. \A k \in CallsAt(ns) : \E i \in CallsAt(ms) : k = at[i]
    <2> SUFFICES ASSUME NEW k \in CallsAt(ns) PROVE \E i \in CallsAt(ms) : k = at[i]
      OBVIOUS
    <2>1. k \in 1..Len(ns) /\ ~Silent(ns[k])
      BY DEF CallsAt, Silent
    <2>2. PICK i \in 1..Len(ms) : k = at[i]
      BY <2>1
    <2>3. ns[k].kind = ms[i].kind
      BY <2>2
    <2> QED BY <2>2, <2>3 DEF CallsAt
  <1>5. \A k \in ResultsAt(ns) : \E i \in ResultsAt(ms) : k = at[i]
    <2> SUFFICES ASSUME NEW k \in ResultsAt(ns) PROVE \E i \in ResultsAt(ms) : k = at[i]
      OBVIOUS
    <2>1. k \in 1..Len(ns) /\ ~Silent(ns[k])
      BY DEF ResultsAt, Silent
    <2>2. PICK i \in 1..Len(ms) : k = at[i]
      BY <2>1
    <2>3. ns[k].kind = ms[i].kind
      BY <2>2
    <2> QED BY <2>2, <2>3 DEF ResultsAt
  <1>6. /\ \A i \in CallsAt(ms) : i \in 1..Len(ms) /\ ns[at[i]].calls = ms[i].calls
        /\ \A i \in ResultsAt(ms) : i \in 1..Len(ms) /\ ns[at[i]].calls = ms[i].calls
    BY DEF CallsAt, ResultsAt
  <1>7. Called(ns) = Called(ms)
    <2>1. ASSUME NEW x \in Called(ns) PROVE x \in Called(ms)
      BY <1>4, <1>6 DEF Called
    <2>2. ASSUME NEW x \in Called(ms) PROVE x \in Called(ns)
      BY <1>2, <1>6 DEF Called
    <2> QED BY ONLY <2>1, <2>2
  <1>8. Answered(ns) = Answered(ms)
    <2>1. ASSUME NEW x \in Answered(ns) PROVE x \in Answered(ms)
      BY <1>5, <1>6 DEF Answered
    <2>2. ASSUME NEW x \in Answered(ms) PROVE x \in Answered(ns)
      BY <1>3, <1>6 DEF Answered
    <2> QED BY ONLY <2>1, <2>2
  <1>9. ASSUME WellMade(ms) PROVE WellMade(ns)
    <2> SUFFICES ASSUME NEW k \in 1..Len(ns), ~Silent(ns[k])
                 PROVE  /\ ns[k].kind = "call" => Len(ns[k].calls) = 1
                        /\ ns[k].kind \in {"call", "result"}
      BY DEF WellMade, Silent
    <2>1. PICK i \in 1..Len(ms) : k = at[i]
      OBVIOUS
    <2>2. ns[k].kind = ms[i].kind /\ ns[k].calls = ms[i].calls
      BY <2>1
    <2> QED BY <1>9, <2>2 DEF WellMade, Silent
  <1>10. ASSUME CalledFirst(ms) PROVE CalledFirst(ns)
    <2> SUFFICES ASSUME NEW k \in ResultsAt(ns), NEW x \in Pending(ns[k].calls)
                 PROVE  x \in CalledBy(ns, k)
      BY DEF CalledFirst
    <2>1. PICK i \in ResultsAt(ms) : k = at[i]
      BY <1>5
    <2>2. x \in CalledBy(ms, i)
      BY <2>1, <1>6, <1>10 DEF CalledFirst
    <2>3. PICK h \in CallsAt(ms) : h < i /\ x = ms[h].calls[1].call
      BY <2>2 DEF CalledBy
    <2>4. at[h] \in CallsAt(ns) /\ at[h] < k /\ x = ns[at[h]].calls[1].call
      BY <2>1, <2>3, <1>2, <1>6
    <2> QED BY <2>4 DEF CalledBy
  <1>11. ASSUME AnsweredOnce(ms) PROVE AnsweredOnce(ns)
    <2>1. ASSUME NEW k \in ResultsAt(ns) PROVE Apiece(ns[k].calls)
      BY <1>5, <1>6, <1>11 DEF AnsweredOnce
    <2>2. ASSUME NEW k \in ResultsAt(ns), NEW l \in ResultsAt(ns),
                 Pending(ns[k].calls) \cap Pending(ns[l].calls) # {}
          PROVE  k = l
      <3>1. PICK i \in ResultsAt(ms) : k = at[i]
        BY <1>5
      <3>2. PICK j \in ResultsAt(ms) : l = at[j]
        BY <1>5
      <3>3. Pending(ms[i].calls) \cap Pending(ms[j].calls) # {}
        BY <2>2, <3>1, <3>2, <1>6
      <3> QED BY <3>1, <3>2, <3>3, <1>11 DEF AnsweredOnce
    <2> QED BY <2>1, <2>2 DEF AnsweredOnce
  <1>12. ASSUME Delivered(ms) PROVE Delivered(ns)
    BY <1>5, <1>6, <1>12 DEF Delivered
  <1> QED BY <1>7, <1>8, <1>9, <1>10, <1>11, <1>12 DEF SameTalk

(* A silent message at the end. *)
LEMMA SilentAppended ==
  ASSUME NEW ms \in Seq(MessageSet), NEW m \in MessageSet, Silent(m)
  PROVE  SameTalk(ms, Append(ms, m)) /\ Append(ms, m) \in Seq(MessageSet)
PROOF
  <1> DEFINE ns == Append(ms, m)
             at == [i \in 1..Len(ms) |-> i]
  <1>1. ns \in Seq(MessageSet) /\ Len(ns) = Len(ms) + 1 /\ ns[Len(ms) + 1] = m
        /\ \A i \in 1..Len(ms) : ns[i] = ms[i]
    OBVIOUS
  <1>2. at \in [1..Len(ms) -> 1..Len(ns)] /\ \A i \in 1..Len(ms) : at[i] = i
    BY <1>1
  <1> HIDE DEF ns, at
  <1>3. \A k \in 1..Len(ns) : Silent(ns[k]) \/ \E i \in 1..Len(ms) : k = at[i]
    BY <1>1, <1>2
  <1>4. \A i, j \in 1..Len(ms) : i < j => at[i] < at[j]
    BY <1>2
  <1>5. \A i \in 1..Len(ms) : ns[at[i]].kind = ms[i].kind /\ ns[at[i]].calls = ms[i].calls
    BY <1>1, <1>2
  <1>6. SameTalk(ms, ns)
    BY <1>1, <1>2, <1>3, <1>4, <1>5, Moved, Zenon
  <1> QED BY <1>1, <1>6 DEF ns

(* The last message's text changes. *)
LEMMA TextTalk ==
  ASSUME NEW ms \in Seq(MessageSet), LastIsAssistant(ms), NEW b \in BOOLEAN
  PROVE  SameTalk(ms, [ms EXCEPT ![Len(ms)].text = b])
PROOF
  <1> DEFINE ns == [ms EXCEPT ![Len(ms)].text = b]
             at == [i \in 1..Len(ms) |-> i]
  <1>1. ns \in Seq(MessageSet)
    BY TextSet
  <1>2. ns = [ms EXCEPT ![Len(ms)] = [ms[Len(ms)] EXCEPT !.text = b]]
    BY Zenon
  <1>3. /\ Len(ns) = Len(ms) /\ Len(ms) \in 1..Len(ms)
        /\ \A i \in 1..Len(ms) : i # Len(ms) => ns[i] = ms[i]
        /\ ns[Len(ms)] = [ms[Len(ms)] EXCEPT !.text = b]
    BY <1>2 DEF LastIsAssistant
  <1>4. at \in [1..Len(ms) -> 1..Len(ns)] /\ \A i \in 1..Len(ms) : at[i] = i
    BY <1>3
  <1>5. \A i \in 1..Len(ms) : ns[i].kind = ms[i].kind /\ ns[i].calls = ms[i].calls
    <2>1. ms[Len(ms)] \in MessageSet
      BY <1>3
    <2>2. ns[Len(ms)].kind = ms[Len(ms)].kind /\ ns[Len(ms)].calls = ms[Len(ms)].calls
      BY <1>3, <2>1 DEF MessageSet
    <2> QED BY <1>3, <2>2
  <1> HIDE DEF ns, at
  <1>6. \A k \in 1..Len(ns) : \E i \in 1..Len(ms) : k = at[i]
    BY <1>3, <1>4
  <1>7. /\ at \in [1..Len(ms) -> 1..Len(ns)]
        /\ \A i, j \in 1..Len(ms) : i < j => at[i] < at[j]
        /\ \A i \in 1..Len(ms) : ns[at[i]].kind = ms[i].kind /\ ns[at[i]].calls = ms[i].calls
    BY ONLY <1>4, <1>5
  <1>8. SameTalk(ms, ns)
    BY <1>1, <1>6, <1>7, Moved, Zenon
  <1> QED BY <1>8 DEF ns

(* The user's message goes behind the last one or before it. *)
LEMMA InsertTalk ==
  ASSUME messages \in Seq(MessageSet)
  PROVE  SameTalk(messages, InsertUserMessage)
PROOF
  <1> DEFINE m == UserText("user")
             n == Len(messages)
             ns == SubSeq(messages, 1, n - 1) \o <<m, LastMessage>>
             at == [i \in 1..n |-> IF i = n THEN n + 1 ELSE i]
  <1>1. m \in MessageSet /\ Silent(m)
    BY MessageTypes DEF UserText, Silent
  <1>2. CASE ~(Streaming /\ messages # <<>>)
    BY <1>1, <1>2, SilentAppended DEF InsertUserMessage
  <1>3. CASE Streaming /\ messages # <<>>
    <2>1. InsertUserMessage = ns
      BY <1>3 DEF InsertUserMessage
    <2>2. n \in Nat /\ n > 0 /\ n \in 1..n /\ LastMessage = messages[n] /\ LastMessage \in MessageSet
      BY <1>3 DEF LastMessage
    <2>3. SubSeq(messages, 1, n - 1) \in Seq(MessageSet) /\ Len(SubSeq(messages, 1, n - 1)) = n - 1
          /\ \A i \in 1..n : i # n => SubSeq(messages, 1, n - 1)[i] = messages[i]
      <3>1. 1 \in 1..(Len(messages) + 1) /\ n - 1 \in 0..Len(messages)
        BY <2>2
      <3>2. /\ SubSeq(messages, 1, n - 1) \in Seq(MessageSet)
            /\ Len(SubSeq(messages, 1, n - 1)) = IF 1 <= n - 1 THEN n - 1 - 1 + 1 ELSE 0
            /\ \A i \in 1..(n - 1 - 1 + 1) : SubSeq(messages, 1, n - 1)[i] = messages[1 + i - 1]
        BY <3>1, SubSeqProperties
      <3>3. n \in Nat /\ n > 0
        BY <2>2
      <3> HIDE DEF n
      <3>4. (IF 1 <= n - 1 THEN n - 1 - 1 + 1 ELSE 0) = n - 1
        BY ONLY <3>3
      <3>5. \A i \in 1..n : i # n => i \in 1..(n - 1 - 1 + 1) /\ 1 + i - 1 = i
        BY ONLY <3>3
      <3> QED BY ONLY <3>2, <3>4, <3>5
    <2>4. <<m, LastMessage>> \in Seq(MessageSet)
      BY <1>1, <2>2
    <2> DEFINE front == SubSeq(messages, 1, n - 1)
               two == <<m, LastMessage>>
    <2>5. Len(two) = 2 /\ two[1] = m /\ two[2] = messages[n]
      BY <2>2
    <2> HIDE DEF front, two, m
    <2>6. front \in Seq(MessageSet) /\ Len(front) = n - 1 /\ two \in Seq(MessageSet)
          /\ \A i \in 1..n : i # n => front[i] = messages[i]
      BY <2>3, <2>4 DEF front, two
    <2>7. ns = front \o two
      BY DEF front, two
    <2>8. /\ ns \in Seq(MessageSet) /\ Len(ns) = n + 1
          /\ \A i \in 1..n : i # n => ns[i] = messages[i]
          /\ ns[n] = m /\ ns[n + 1] = messages[n]
      <3> HIDE DEF ns
      <3>1. /\ ns \in Seq(MessageSet) /\ Len(ns) = Len(front) + Len(two)
            /\ \A i \in 1..Len(front) : ns[i] = front[i]
        BY <2>6, <2>7, ConcatProperties
      <3>2. ns[Len(front) + 1] = two[1] /\ ns[Len(front) + 2] = two[2]
        <4>1. Len(front) + 1 \in 1..(Len(front) + Len(two)) /\ Len(front) + 2 \in 1..(Len(front) + Len(two))
          BY <2>2, <2>5, <2>6
        <4>2. \A i \in 1..(Len(front) + Len(two)) :
                ns[i] = IF i <= Len(front) THEN front[i] ELSE two[i - Len(front)]
          BY <2>6, <2>7, ConcatProperties
        <4> QED BY <4>1, <4>2, <2>2, <2>6
      <3>3. Len(front) + 1 = n /\ Len(front) + 2 = n + 1 /\ Len(front) + Len(two) = n + 1
            /\ \A i \in 1..n : i # n => i \in 1..Len(front)
        BY <2>2, <2>5, <2>6
      <3> QED BY <3>1, <3>2, <3>3, <2>5, <2>6
    <2>9. /\ at \in [1..Len(messages) -> 1..Len(ns)]
          /\ \A i \in 1..n : at[i] = IF i = n THEN n + 1 ELSE i
      <3> HIDE DEF ns
      <3> QED BY <2>2, <2>8
    <2> HIDE DEF ns, at
    <2>10. \A i, j \in 1..Len(messages) : i < j => at[i] < at[j]
      BY <2>2, <2>9
    <2>11. \A i \in 1..Len(messages) : ns[at[i]] = messages[i]
      BY <2>2, <2>8, <2>9
    <2>12. \A k \in 1..Len(ns) : Silent(ns[k]) \/ \E i \in 1..Len(messages) : k = at[i]
      <3> SUFFICES ASSUME NEW k \in 1..Len(ns), k # n PROVE \E i \in 1..Len(messages) : k = at[i]
        BY <2>8, <1>1
      <3>1. CASE k = n + 1
        BY <3>1, <2>2, <2>9
      <3>2. CASE k # n + 1
        <4>1. k \in 1..n
          BY <3>2, <2>2, <2>8
        <4> QED BY <4>1, <2>9
      <3> QED BY <3>1, <3>2
    <2>13. SameTalk(messages, ns)
      BY <2>8, <2>9, <2>10, <2>11, <2>12, Moved
    <2> QED BY <2>1, <2>13
  <1> QED BY <1>2, <1>3

(* Calls are added to the conversation. *)
LEMMA CallsAdded ==
  ASSUME NEW ms \in Seq(MessageSet), NEW cs \in Seq(CallSet), NEW ds \in Seq(MessageSet),
         Len(ds) = Len(cs), \A i \in 1..Len(cs) : ds[i] = ToolCall(cs[i]),
         NEW ns, ns = ms \o ds
  PROVE  /\ Called(ns) = Called(ms) \cup {cs[i].key : i \in 1..Len(cs)}
         /\ Answered(ns) = Answered(ms)
         /\ WellMade(ms) => WellMade(ns)
         /\ CalledFirst(ms) => CalledFirst(ns)
         /\ AnsweredOnce(ms) => AnsweredOnce(ns)
         /\ Delivered(ms) => Delivered(ns)
PROOF
  <1>1. ds \in Seq(MessageSet) /\ Len(ds) = Len(cs) /\ \A i \in 1..Len(cs) : ds[i] = ToolCall(cs[i])
    OBVIOUS
  <1>2. \A c \in CallSet : /\ ToolCall(c).kind = "call" /\ Len(ToolCall(c).calls) = 1
                           /\ ToolCall(c).calls[1].call = c.key
    BY DEF ToolCall, Result
  <1>3. \A i \in 1..Len(ds) : /\ ds[i].kind = "call" /\ Len(ds[i].calls) = 1
                              /\ ds[i].calls[1].call = cs[i].key
    BY <1>1, <1>2
  <1>4. Len(ms) \in Nat /\ Len(cs) \in Nat /\ Len(ns) = Len(ms) + Len(cs)
        /\ \A i \in 1..(Len(ms) + Len(ds)) : ns[i] = IF i <= Len(ms) THEN ms[i] ELSE ds[i - Len(ms)]
    <2>1. /\ Len(ms \o ds) = Len(ms) + Len(ds)
          /\ \A i \in 1..(Len(ms) + Len(ds)) :
               (ms \o ds)[i] = IF i <= Len(ms) THEN ms[i] ELSE ds[i - Len(ms)]
      BY <1>1, ConcatProperties, Zenon
    <2>2. Len(ms) \in Nat /\ Len(cs) \in Nat
      OBVIOUS
    <2> QED BY <2>1, <2>2, <1>1
  <1>5. /\ \A i \in 1..Len(ms) : ns[i] = ms[i] /\ i \in 1..Len(ns)
        /\ \A i \in 1..Len(cs) : ns[Len(ms) + i] = ds[i] /\ Len(ms) + i \in 1..Len(ns)
    BY <1>1, <1>4
  <1>6. \A k \in 1..Len(ns) : k \in 1..Len(ms) \/ \E i \in 1..Len(cs) : k = Len(ms) + i
    <2> SUFFICES ASSUME NEW k \in 1..Len(ns), k \notin 1..Len(ms)
                 PROVE  k - Len(ms) \in 1..Len(cs) /\ k = Len(ms) + (k - Len(ms))
      OBVIOUS
    <2> QED BY <1>4
  <1>7. ResultsAt(ns) = ResultsAt(ms)
    <2>1. ASSUME NEW k \in ResultsAt(ms) PROVE k \in ResultsAt(ns)
      BY <1>5 DEF ResultsAt
    <2>2. ASSUME NEW k \in ResultsAt(ns) PROVE k \in ResultsAt(ms)
      <3>1. k \in 1..Len(ns) /\ ns[k].kind = "result"
        BY DEF ResultsAt
      <3>2. CASE k \in 1..Len(ms)
        BY <3>1, <3>2, <1>5 DEF ResultsAt
      <3>3. ASSUME NEW i \in 1..Len(cs), k = Len(ms) + i PROVE FALSE
        BY <3>1, <3>3, <1>1, <1>3, <1>5
      <3> QED BY <3>1, <3>2, <3>3, <1>6
    <2> QED BY ONLY <2>1, <2>2
  <1>8. \A k \in ResultsAt(ms) : k \in 1..Len(ms) /\ ns[k] = ms[k]
    BY <1>5 DEF ResultsAt
  <1>9. \A k \in CallsAt(ms) : k \in 1..Len(ms) /\ ns[k] = ms[k] /\ k \in CallsAt(ns)
    BY <1>5 DEF CallsAt
  <1>10. \A i \in 1..Len(cs) : Len(ms) + i \in CallsAt(ns) /\ ns[Len(ms) + i].calls[1].call = cs[i].key
    <2> SUFFICES ASSUME NEW i \in 1..Len(cs)
                 PROVE  Len(ms) + i \in CallsAt(ns) /\ ns[Len(ms) + i].calls[1].call = cs[i].key
      OBVIOUS
    <2>1. ns[Len(ms) + i] = ds[i] /\ Len(ms) + i \in 1..Len(ns)
      BY <1>5
    <2>2. ds[i].kind = "call" /\ ds[i].calls[1].call = cs[i].key
      BY <1>1, <1>3
    <2> QED BY <2>1, <2>2 DEF CallsAt
  <1>11. \A k \in CallsAt(ns) : k \in CallsAt(ms) \/ \E i \in 1..Len(cs) : k = Len(ms) + i
    BY <1>5, <1>6 DEF CallsAt
  <1>12. Called(ns) = Called(ms) \cup {cs[i].key : i \in 1..Len(cs)}
    <2>1. ASSUME NEW x \in Called(ns) PROVE x \in Called(ms) \/ x \in {cs[i].key : i \in 1..Len(cs)}
      <3>1. PICK k \in CallsAt(ns) : x = ns[k].calls[1].call
        BY DEF Called
      <3>2. CASE k \in CallsAt(ms)
        BY <3>1, <3>2, <1>9 DEF Called
      <3>3. ASSUME NEW i \in 1..Len(cs), k = Len(ms) + i
            PROVE  x \in {cs[j].key : j \in 1..Len(cs)}
        BY <3>1, <3>3, <1>10
      <3> QED BY <3>2, <3>3, <1>11
    <2>2. ASSUME NEW x \in Called(ms) PROVE x \in Called(ns)
      BY <1>9 DEF Called
    <2>3. ASSUME NEW i \in 1..Len(cs) PROVE cs[i].key \in Called(ns)
      BY <1>10 DEF Called
    <2> QED BY ONLY <2>1, <2>2, <2>3
  <1>13. Answered(ns) = Answered(ms)
    BY <1>7, <1>8 DEF Answered
  <1>14. ASSUME WellMade(ms) PROVE WellMade(ns)
    <2> SUFFICES ASSUME NEW k \in 1..Len(ns)
                 PROVE  /\ ns[k].kind = "call" => Len(ns[k].calls) = 1
                        /\ ns[k].kind \notin {"call", "result"} => Silent(ns[k])
      BY DEF WellMade
    <2>1. CASE k \in 1..Len(ms)
      BY <2>1, <1>5, <1>14 DEF WellMade
    <2>2. ASSUME NEW i \in 1..Len(cs), k = Len(ms) + i
          PROVE  ns[k].kind = "call" /\ Len(ns[k].calls) = 1
      BY <2>2, <1>1, <1>3, <1>5
    <2> QED BY <2>1, <2>2, <1>6
  <1>15. ASSUME CalledFirst(ms) PROVE CalledFirst(ns)
    <2>1. \A i : CalledBy(ms, i) \subseteq CalledBy(ns, i)
      BY <1>9 DEF CalledBy
    <2> QED BY <2>1, <1>7, <1>8, <1>15 DEF CalledFirst
  <1>16. ASSUME AnsweredOnce(ms) PROVE AnsweredOnce(ns)
    BY <1>7, <1>8, <1>16 DEF AnsweredOnce
  <1>17. ASSUME Delivered(ms) PROVE Delivered(ns)
    BY <1>7, <1>8, <1>17 DEF Delivered
  <1> QED BY <1>12, <1>13, <1>14, <1>15, <1>16, <1>17

(* Results are added to the conversation. *)
LEMMA ResultsAdded ==
  ASSUME NEW ms \in Seq(MessageSet), NEW rs \in Seq(ResultSet),
         NEW ns, ns = Append(ms, ToolResults(rs))
  PROVE  /\ ns \in Seq(MessageSet)
         /\ Called(ns) = Called(ms)
         /\ Answered(ns) = Answered(ms) \cup Pending(rs)
         /\ WellMade(ms) => WellMade(ns)
         /\ CalledFirst(ms) /\ Pending(rs) \subseteq Called(ms) => CalledFirst(ns)
         /\ AnsweredOnce(ms) /\ Apiece(rs) /\ Pending(rs) \cap Answered(ms) = {} => AnsweredOnce(ns)
         /\ Delivered(ms) /\ Answers(rs) => Delivered(ns)
PROOF
  <1> DEFINE m == ToolResults(rs)
             n == Len(ms)
  <1>1. m \in MessageSet /\ m.kind = "result" /\ Len(m.calls) = Len(rs)
        /\ \A i \in 1..Len(rs) : m.calls[i] = [rs[i] EXCEPT !.key = rs[i].call]
    BY MessageTypes DEF ToolResults
  <1>2. \A i \in 1..Len(rs) : /\ m.calls[i].call = rs[i].call /\ m.calls[i].kind = rs[i].kind
                              /\ m.calls[i].out = rs[i].out
    <2> SUFFICES ASSUME NEW i \in 1..Len(rs)
                 PROVE  /\ m.calls[i].call = rs[i].call /\ m.calls[i].kind = rs[i].kind
                        /\ m.calls[i].out = rs[i].out
      OBVIOUS
    <2>1. rs[i] \in ResultSet /\ m.calls[i] = [rs[i] EXCEPT !.key = rs[i].call]
      BY <1>1
    <2> HIDE DEF m
    <2> QED BY <2>1 DEF ResultSet
  <1> HIDE DEF m
  <1>3. Pending(m.calls) = Pending(rs)
    <2>1. Len(m.calls) = Len(rs) /\ \A i \in 1..Len(rs) : m.calls[i].call = rs[i].call
      BY ONLY <1>1, <1>2
    <2> QED BY ONLY <2>1, Zenon DEF Pending
  <1>4. (Apiece(rs) => Apiece(m.calls)) /\ (Answers(rs) => Answers(m.calls))
    BY <1>1, <1>2 DEF Apiece, Answers
  <1>5. /\ ns \in Seq(MessageSet) /\ n \in Nat /\ Len(ns) = n + 1 /\ n + 1 \in 1..Len(ns)
        /\ \A i \in 1..Len(ms) : ns[i] = ms[i] /\ i \in 1..Len(ns) /\ i # n + 1
        /\ ns[n + 1] = m
        /\ \A k \in 1..Len(ns) : k \in 1..Len(ms) \/ k = n + 1
    BY <1>1 DEF m
  <1>6. ResultsAt(ns) = ResultsAt(ms) \cup {n + 1}
    <2>1. ASSUME NEW k \in ResultsAt(ns) PROVE k \in ResultsAt(ms) \/ k = n + 1
      BY <1>5 DEF ResultsAt
    <2>2. ASSUME NEW k \in ResultsAt(ms) PROVE k \in ResultsAt(ns)
      BY <1>5 DEF ResultsAt
    <2>3. n + 1 \in ResultsAt(ns)
      BY <1>1, <1>5 DEF ResultsAt
    <2> QED BY ONLY <2>1, <2>2, <2>3
  <1>7. \A k \in ResultsAt(ms) : k \in 1..Len(ms) /\ ns[k] = ms[k] /\ k # n + 1
    BY <1>5 DEF ResultsAt
  <1>8. CallsAt(ns) = CallsAt(ms)
    <2>1. ASSUME NEW k \in CallsAt(ns) PROVE k \in CallsAt(ms)
      BY <1>1, <1>5 DEF CallsAt
    <2>2. ASSUME NEW k \in CallsAt(ms) PROVE k \in CallsAt(ns)
      BY <1>5 DEF CallsAt
    <2> QED BY ONLY <2>1, <2>2
  <1>9. \A k \in CallsAt(ms) : k \in 1..Len(ms) /\ ns[k] = ms[k] /\ k < n + 1
    BY <1>5 DEF CallsAt
  <1>10. Called(ns) = Called(ms)
    BY <1>8, <1>9 DEF Called
  <1>11. Answered(ns) = Answered(ms) \cup Pending(rs)
    <2>1. ASSUME NEW x \in Answered(ns) PROVE x \in Answered(ms) \/ x \in Pending(rs)
      BY <1>3, <1>5, <1>6, <1>7 DEF Answered
    <2>2. ASSUME NEW x \in Answered(ms) PROVE x \in Answered(ns)
      BY <1>6, <1>7 DEF Answered
    <2>3. ASSUME NEW x \in Pending(rs) PROVE x \in Answered(ns)
      BY <1>3, <1>5, <1>6 DEF Answered
    <2> QED BY ONLY <2>1, <2>2, <2>3
  <1>12. ASSUME WellMade(ms) PROVE WellMade(ns)
    BY <1>1, <1>5, <1>12 DEF WellMade
  <1>13. ASSUME CalledFirst(ms), Pending(rs) \subseteq Called(ms) PROVE CalledFirst(ns)
    <2>1. CalledBy(ns, n + 1) = Called(ms)
      BY <1>8, <1>9 DEF CalledBy, Called
    <2>2. \A k : CalledBy(ns, k) = CalledBy(ms, k)
      BY <1>8, <1>9 DEF CalledBy
    <2> QED BY <2>1, <2>2, <1>3, <1>5, <1>6, <1>7, <1>13 DEF CalledFirst
  <1>14. ASSUME AnsweredOnce(ms), Apiece(rs), Pending(rs) \cap Answered(ms) = {}
         PROVE  AnsweredOnce(ns)
    <2>1. ASSUME NEW k \in ResultsAt(ns) PROVE Apiece(ns[k].calls)
      BY <1>4, <1>5, <1>6, <1>7, <1>14 DEF AnsweredOnce
    <2>2. ASSUME NEW k \in ResultsAt(ms) PROVE Pending(ns[k].calls) \cap Pending(m.calls) = {}
      <3>1. Pending(ms[k].calls) \subseteq Answered(ms)
        BY DEF Answered
      <3> QED BY <3>1, <1>3, <1>7, <1>14
    <2>3. ASSUME NEW k \in ResultsAt(ns), NEW l \in ResultsAt(ns),
                 Pending(ns[k].calls) \cap Pending(ns[l].calls) # {}
          PROVE  k = l
      <3>1. CASE k \in ResultsAt(ms) /\ l \in ResultsAt(ms)
        BY <3>1, <2>3, <1>7, <1>14 DEF AnsweredOnce
      <3>2. CASE k \in ResultsAt(ms) /\ l = n + 1
        BY <3>2, <2>2, <2>3, <1>5
      <3>3. CASE k = n + 1 /\ l \in ResultsAt(ms)
        BY <3>3, <2>2, <2>3, <1>5
      <3> QED BY <3>1, <3>2, <3>3, <1>6
    <2> QED BY <2>1, <2>3 DEF AnsweredOnce
  <1>15. ASSUME Delivered(ms), Answers(rs) PROVE Delivered(ns)
    BY <1>4, <1>5, <1>6, <1>7, <1>15 DEF Delivered
  <1> QED BY <1>5, <1>10, <1>11, <1>12, <1>13, <1>14, <1>15

-----------------------------------------------------------------------------
(* Steps that touch neither batch nor wait. *)

(* The ids of the calls of the channel. *)
EventsKeyed(ch) == \A i \in ToolEvents(ch) : ch[i].call.key[2] = "tool"

LEMMA KeysSent ==
  ASSUME NEW ch \in Seq(EventSet), NEW ev, EventsKeyed(ch),
         ev.kind = "tool" => ev.call.key[2] = "tool"
  PROVE  EventsKeyed(Append(ch, ev))
PROOF
  <1> DEFINE new == Append(ch, ev)
  <1>1. /\ Len(new) = Len(ch) + 1 /\ new[Len(ch) + 1] = ev /\ Len(ch) \in Nat
        /\ \A i \in 1..Len(ch) : new[i] = ch[i]
    OBVIOUS
  <1> HIDE DEF new
  <1>2. \A i \in ToolEvents(new) : i \in ToolEvents(ch) \/ (i = Len(ch) + 1 /\ ev.kind = "tool")
    BY <1>1 DEF ToolEvents
  <1>3. \A i \in ToolEvents(ch) : new[i] = ch[i]
    BY <1>1 DEF ToolEvents
  <1>4. EventsKeyed(new)
    BY <1>1, <1>2, <1>3 DEF EventsKeyed
  <1> QED BY <1>4 DEF new

LEMMA KeysTaken ==
  ASSUME NEW ch \in Seq(EventSet), ch # <<>>, EventsKeyed(ch)
  PROVE  /\ EventsKeyed(Tail(ch))
         /\ Head(ch).kind = "tool" => Head(ch).call.key[2] = "tool"
PROOF
  <1> DEFINE rest == Tail(ch)
  <1>1. /\ Len(ch) \in Nat /\ 1 \in 1..Len(ch) /\ Head(ch) = ch[1]
        /\ \A i \in 1..Len(rest) : i + 1 \in 1..Len(ch) /\ rest[i] = ch[i + 1]
    OBVIOUS
  <1> HIDE DEF rest
  <1>2. EventsKeyed(rest)
    BY <1>1 DEF EventsKeyed, ToolEvents
  <1>3. Head(ch).kind = "tool" => Head(ch).call.key[2] = "tool"
    BY <1>1 DEF EventsKeyed, ToolEvents
  <1> QED BY <1>2, <1>3 DEF rest

LEMMA Emptied ==
  /\ \A via : Keyed(<<>>, via)
  /\ EventsKeyed(<<>>) /\ EventNums(<<>>) = {}
  /\ Pending(<<>>) = {} /\ Apiece(<<>>) /\ Answers(<<>>) /\ \A keys : Awaited(<<>>, keys)
PROOF
  <1>1. 1..Len(<<>>) = {}
    OBVIOUS
  <1> QED
    BY <1>1, Zenon
       DEF Keyed, EventsKeyed, EventNums, ToolEvents, Pending, Apiece, Answers, Awaited

(* The ledger depends on the conversation, the batch and the wait. *)
LEMMA LedgerStays ==
  ASSUME Ledger, broken => broken', SameTalk(messages, messages'), UNCHANGED <<results, waiting>>
  PROVE  Ledger'
BY DEF Ledger, Held, SameTalk

LEMMA WatchedStays ==
  ASSUME Watched, broken => broken', UNCHANGED <<results, flushed, waiting, arrived, watchers>>
  PROVE  Watched'
PROOF
  <1>1. BlockingKeys' = BlockingKeys
    BY DEF BlockingKeys
  <1> QED BY <1>1 DEF Watched

(* Calls may be lost on the way, and messages from the conversation. *)
LEMMA FreshStays ==
  ASSUME FreshKeys, calls \in Nat, calls' \in Nat, calls <= calls',
         UNCHANGED <<executed, flushed>>,
         Called(messages') \subseteq Called(messages),
         \A n \in EventNums(channel') \cup Nums(pendingTools') \cup Nums(batch') :
           \/ n \in EventNums(channel) \cup Nums(pendingTools) \cup Nums(batch)
           \/ n \in Nat /\ n > calls
  PROVE  FreshKeys'
PROOF
  <1>1. NotYetCalled'
    BY DEF FreshKeys, NotYetCalled, NotYetMade
  <1>2. NotYetMade'
    <2> SUFFICES ASSUME NEW n \in Nat, n > calls' PROVE <<n, "tool">> \notin Called(messages')
      BY DEF NotYetMade
    <2>1. n > calls
      OBVIOUS
    <2> QED BY <2>1 DEF FreshKeys, NotYetMade
  <1>3. ReplayedRan'
    BY DEF FreshKeys, ReplayedRan
  <1> QED BY <1>1, <1>2, <1>3 DEF FreshKeys

LEMMA KeysStay ==
  ASSUME OwnKeys, EventsKeyed(channel'),
         pendingTools' = pendingTools \/ pendingTools' = <<>>, UNCHANGED <<batch, flushed>>
  PROVE  OwnKeys'
BY Emptied DEF OwnKeys, EventsKeyed

(* Nothing is done for a call. *)
LEMMA QuietStep ==
  ASSUME TypeOK, Conversation, broken => broken', SameTalk(messages, messages'),
         UNCHANGED <<results, batch, flushed, waiting, arrived, watchers, executed, calls>>,
         EventNums(channel') \subseteq EventNums(channel), EventsKeyed(channel'),
         pendingTools' = pendingTools \/ pendingTools' = <<>>,
         \/ pc' = pc
         \/ pc \notin {"execute", "callbacks"} /\ pc' \notin {"execute", "callbacks"}
  PROVE  Conversation'
PROOF
  <1>1. WellMade(messages')
    BY DEF Conversation, SameTalk
  <1>2. BetweenBatches'
    BY DEF Conversation, BetweenBatches
  <1>3. OwnKeys'
    BY KeysStay DEF Conversation
  <1>4. FreshKeys'
    <2>1. Nums(pendingTools') \subseteq Nums(pendingTools)
      BY NumsEmpty
    <2>2. calls \in Nat
      BY DEF TypeOK, ProviderTypeOK
    <2>3. Called(messages') \subseteq Called(messages)
      BY DEF SameTalk
    <2> QED BY <2>1, <2>2, <2>3, FreshStays DEF Conversation
  <1>5. Ledger' /\ Watched'
    BY LedgerStays, WatchedStays DEF Conversation
  <1> QED BY <1>1, <1>2, <1>3, <1>4, <1>5 DEF Conversation

LEMMA EventSentTalk ==
  ASSUME IInv, Conversation, NEW g, NEW ev, ev.kind # "tool", SendEvent(g, ev), UNCHANGED calls
  PROVE  Conversation'
PROOF
  <1>1. TypeOK /\ channel \in Seq(EventSet) /\ EventsKeyed(channel)
    BY DEF IInv, TypeOK, ProviderTypeOK, Conversation, OwnKeys, EventsKeyed
  <1>2. /\ channel' = Append(channel, ev)
        /\ UNCHANGED <<pc, pendingTools, messages, results, batch, flushed, waiting, arrived,
                       watchers, executed, broken>>
    BY DEF SendEvent, loopVars, batchVars, waitVars
  <1>3. EventNums(channel') \subseteq EventNums(channel) /\ EventsKeyed(channel')
    BY <1>1, <1>2, EventsAppend, KeysSent
  <1> QED BY <1>1, <1>2, <1>3, QuietStep, SameRefl

LEMMA EventTakenTalk ==
  ASSUME IInv, Conversation, AfterEvent, UNCHANGED pendingTools, SameTalk(messages, messages')
  PROVE  Conversation'
PROOF
  <1>1. TypeOK /\ channel \in Seq(EventSet) /\ EventsKeyed(channel)
    BY DEF IInv, TypeOK, ProviderTypeOK, Conversation, OwnKeys, EventsKeyed
  <1>2. /\ channel' = Tail(channel) /\ channel # <<>>
        /\ UNCHANGED <<pc, calls, results, batch, flushed, waiting, arrived, watchers,
                       executed, broken>>
    BY DEF AfterEvent, batchVars, waitVars
  <1>3. EventNums(channel') \subseteq EventNums(channel) /\ EventsKeyed(channel')
    BY <1>1, <1>2, EventsTail, KeysTaken
  <1> QED BY <1>1, <1>2, <1>3, QuietStep

(* The last message gets or loses its text, if it is the assistant's. *)
LEMMA TextStep ==
  ASSUME IInv, NEW b \in BOOLEAN,
         messages' = IF LastIsAssistant(messages)
                     THEN [messages EXCEPT ![Len(messages)].text = b] ELSE messages
  PROVE  SameTalk(messages, messages')
PROOF
  <1>1. messages \in Seq(MessageSet)
    BY DEF IInv, TypeOK, TalkTypeOK
  <1>2. CASE LastIsAssistant(messages)
    BY <1>1, <1>2, TextTalk
  <1>3. CASE ~LastIsAssistant(messages)
    BY <1>3, SameRefl
  <1> QED BY <1>2, <1>3

(* A step between the batches that touches only the conversation. *)
LEMMA HandlerTalk ==
  ASSUME IInv, Conversation, broken => broken', SameTalk(messages, messages'),
         UNCHANGED <<channel, results, batch, flushed, waiting, arrived, watchers, executed,
                     calls>>,
         pendingTools' = pendingTools \/ pendingTools' = <<>>,
         \/ pc' = pc
         \/ pc \notin {"execute", "callbacks"} /\ pc' \notin {"execute", "callbacks"}
  PROVE  Conversation'
PROOF
  <1>1. TypeOK /\ EventsKeyed(channel') /\ EventNums(channel') \subseteq EventNums(channel)
    BY DEF IInv, Conversation, OwnKeys, EventsKeyed
  <1> QED BY <1>1, QuietStep

(* GoTo never ends in the middle of a batch. *)
LEMMA GoToBetween ==
  ASSUME NEW i \in 1..8, GoTo(i)
  PROVE  pc' \notin {"execute", "callbacks"}
BY GoToReasons

(* The quiet steps: the provider's other events, the user's message, the    *)
(* stop of the web, the reload command, the events but tool calls, the      *)
(* handlers that launch or end streams, the spine.                          *)
LEMMA QuietActions ==
  ASSUME IInv, Conversation,
         \/ \E g \in llm : SendText(g) \/ SendDone(g) \/ SendError(g)
         \/ NoInput \/ UserMessage \/ WebStop \/ PaletteReload
         \/ DropEvent \/ TextEvent \/ DoneEvent \/ ErrorEvent \/ EventsDrained
         \/ HandleRetry \/ CheckWaitingForPanels \/ CheckDeferredSleep \/ FinalizeStream
         \/ UNCHANGED vars
  PROVE  Conversation'
PROOF
  <1>m. messages \in Seq(MessageSet) /\ broken \in BOOLEAN
    BY DEF IInv, TypeOK, TalkTypeOK, LoopTypeOK
  <1>r. SameTalk(messages, messages)
    BY SameRefl
  <1>1. ASSUME NEW g \in llm, SendText(g) PROVE Conversation'
    <2>1. SendEvent(g, [stream |-> g, kind |-> "text"]) /\ UNCHANGED calls
      BY <1>1 DEF SendText
    <2> QED BY <2>1, EventSentTalk
  <1>2. ASSUME NEW g \in llm, SendDone(g) PROVE Conversation'
    <2>1. SendEvent(g, [stream |-> g, kind |-> "done"]) /\ UNCHANGED calls
      BY <1>2 DEF SendDone
    <2> QED BY <2>1, EventSentTalk
  <1>3. ASSUME NEW g \in llm, SendError(g) PROVE Conversation'
    <2>1. SendEvent(g, [stream |-> g, kind |-> "error"]) /\ UNCHANGED calls
      BY <1>3 DEF SendError
    <2> QED BY <2>1, EventSentTalk
  <1>4. CASE NoInput
    <2>1. /\ UNCHANGED <<messages, channel, results, batch, flushed, waiting, arrived, watchers,
                         executed, calls, pendingTools, broken>>
          /\ pc = "input" /\ pc' = "events"
      BY <1>4 DEF NoInput, providerVars, loopVars, batchVars, waitVars
    <2> QED BY <2>1, <1>r, HandlerTalk
  <1>5. CASE UserMessage
    <2>1. /\ UNCHANGED <<channel, results, batch, flushed, waiting, arrived, watchers,
                         executed, calls, pendingTools, broken>>
          /\ pc = "input" /\ pc' = "typed" /\ messages' = InsertUserMessage
      BY <1>5 DEF UserMessage, providerVars, loopVars, batchVars, waitVars
    <2>2. SameTalk(messages, messages')
      BY <2>1, <1>m, InsertTalk
    <2> QED BY <2>1, <2>2, HandlerTalk
  <1>6. CASE WebStop
    <2>1. /\ UNCHANGED <<messages, channel, results, batch, flushed, waiting, arrived, watchers,
                         executed, calls, pendingTools>>
          /\ pc = "input" /\ pc' = "events" /\ broken' = (broken \/ PendingWork)
      BY <1>6 DEF WebStop, Stopping, providerVars, batchVars, waitVars
    <2> QED BY <2>1, <1>m, <1>r, HandlerTalk
  <1>7. CASE PaletteReload
    <2>1. UNCHANGED <<pc, messages, channel, results, batch, flushed, waiting, arrived, watchers,
                      executed, calls, pendingTools, broken>>
      BY <1>7 DEF PaletteReload, providerVars, batchVars, waitVars
    <2> QED BY <2>1, <1>r, HandlerTalk
  <1>8. CASE DropEvent
    BY <1>8, <1>r, EventTakenTalk DEF DropEvent
  <1>9. CASE TextEvent
    <2>1. SameTalk(messages, messages')
      BY <1>9, TextStep DEF TextEvent
    <2> QED BY <1>9, <2>1, EventTakenTalk DEF TextEvent
  <1>10. CASE DoneEvent
    BY <1>10, <1>r, EventTakenTalk DEF DoneEvent
  <1>11. CASE ErrorEvent
    <2>1. SameTalk(messages, messages')
      BY <1>11, <1>r, TextStep DEF ErrorEvent
    <2> QED BY <1>11, <2>1, EventTakenTalk DEF ErrorEvent
  <1>12. CASE EventsDrained
    <2>1. /\ UNCHANGED <<messages, channel, results, batch, flushed, waiting, arrived, watchers,
                         executed, calls, pendingTools, broken>>
          /\ pc = "events" /\ GoTo(1)
      BY <1>12 DEF EventsDrained, providerVars, loopVars, batchVars, waitVars
    <2>2. pc' \notin {"execute", "callbacks"}
      BY <2>1, GoToBetween
    <2> QED BY <2>1, <2>2, <1>r, HandlerTalk
  <1>13. CASE HandleRetry
    <2>1. /\ UNCHANGED <<channel, results, batch, flushed, waiting, arrived, watchers,
                         executed, calls, pendingTools, broken>>
          /\ pc = "retry" /\ GoTo(2)
      BY <1>13 DEF HandleRetry, batchVars, waitVars
    <2>2. pc' \notin {"execute", "callbacks"}
      BY <2>1, GoToBetween
    <2>3. SameTalk(messages, messages')
      BY <1>13, <1>r, TextStep DEF HandleRetry
    <2> QED BY <2>1, <2>2, <2>3, HandlerTalk
  <1>14. CASE CheckWaitingForPanels
    <2>1. /\ UNCHANGED <<messages, channel, results, batch, flushed, waiting, arrived, watchers,
                         executed, calls, pendingTools, broken>>
          /\ pc = "panels" /\ GoTo(3)
      BY <1>14 DEF CheckWaitingForPanels, ResumeOrWait, batchVars, waitVars
    <2>2. pc' \notin {"execute", "callbacks"}
      BY <2>1, GoToBetween
    <2> QED BY <2>1, <2>2, <1>r, HandlerTalk
  <1>15. CASE CheckDeferredSleep
    <2>1. /\ UNCHANGED <<messages, channel, results, batch, flushed, waiting, arrived, watchers,
                         executed, calls, pendingTools, broken>>
          /\ pc = "sleep" /\ GoTo(4)
      BY <1>15 DEF CheckDeferredSleep, ResumeOrWait, batchVars, waitVars
    <2>2. pc' \notin {"execute", "callbacks"}
      BY <2>1, GoToBetween
    <2> QED BY <2>1, <2>2, <1>r, HandlerTalk
  <1>16. CASE FinalizeStream
    <2>1. /\ UNCHANGED <<messages, channel, results, batch, flushed, waiting, arrived, watchers,
                         executed, calls, pendingTools, broken>>
          /\ pc = "finalize" /\ GoTo(7)
      BY <1>16 DEF FinalizeStream, providerVars, batchVars, waitVars
    <2>2. pc' \notin {"execute", "callbacks"}
      BY <2>1, GoToBetween
    <2> QED BY <2>1, <2>2, <1>r, HandlerTalk
  <1>17. CASE UNCHANGED vars
    <2>1. UNCHANGED <<pc, messages, channel, results, batch, flushed, waiting, arrived, watchers,
                      executed, calls, pendingTools, broken>>
      BY <1>17 DEF vars, providerVars, loopVars, batchVars, waitVars
    <2> QED BY <2>1, <1>r, HandlerTalk
  <1> QED
    BY <1>1, <1>2, <1>3, <1>4, <1>5, <1>6, <1>7, <1>8, <1>9, <1>10, <1>11, <1>12, <1>13,
       <1>14, <1>15, <1>16, <1>17

(* apply_continuation says something, and the assistant's turn is empty. *)
LEMMA CheckSpineTalk ==
  ASSUME IInv, Conversation, CheckSpine
  PROVE  Conversation'
PROOF
  <1>m. messages \in Seq(MessageSet)
    BY DEF IInv, TypeOK, TalkTypeOK
  <1>1. UNCHANGED <<channel, results, batch, flushed, waiting, arrived, watchers, executed, calls,
                    broken>>
    BY DEF CheckSpine, batchVars, waitVars
  <1>2. pc \notin {"execute", "callbacks"} /\ pc' \notin {"execute", "callbacks"}
    BY GoToBetween DEF CheckSpine
  <1>3. pendingTools' = pendingTools \/ pendingTools' = <<>>
    BY DEF CheckSpine, SpineIdle, SpineBlocked, SpineContinue
  <1>4. SameTalk(messages, messages')
    <2>1. CASE messages' = messages
      BY <2>1, SameRefl
    <2>2. CASE messages' = Append(Continuation, EmptyAssistant)
      <3>1. /\ UserText("synthetic") \in MessageSet /\ Silent(UserText("synthetic"))
            /\ UserText("asked") \in MessageSet /\ Silent(UserText("asked"))
            /\ EmptyAssistant \in MessageSet /\ Silent(EmptyAssistant)
        BY MessageTypes DEF UserText, EmptyAssistant, Silent
      <3>2. \/ Continuation = Append(messages, UserText("synthetic"))
            \/ Continuation = Append(messages, UserText("asked"))
            \/ Continuation = messages
        BY Zenon DEF Continuation
      <3>3. SameTalk(messages, Continuation) /\ Continuation \in Seq(MessageSet)
        BY <3>1, <3>2, <1>m, SilentAppended, SameRefl
      <3>4. SameTalk(Continuation, messages')
        BY <3>1, <3>3, <2>2, SilentAppended
      <3> QED BY <3>3, <3>4, SameTrans
    <2> QED BY <2>1, <2>2 DEF CheckSpine, SpineIdle, SpineBlocked, SpineContinue
  <1> QED BY <1>1, <1>2, <1>3, <1>4, HandlerTalk

-----------------------------------------------------------------------------
(* The steps that touch calls, results or the wait. *)

LEMMA EmptyTalk ==
  /\ Called(<<>>) = {} /\ Answered(<<>>) = {} /\ WellMade(<<>>)
  /\ CalledFirst(<<>>) /\ AnsweredOnce(<<>>) /\ Delivered(<<>>)
PROOF
  <1>1. 1..Len(<<>>) = {}
    OBVIOUS
  <1>2. CallsAt(<<>>) = {} /\ ResultsAt(<<>>) = {}
    BY <1>1 DEF CallsAt, ResultsAt
  <1> QED
    BY <1>1, <1>2, Zenon
       DEF Called, Answered, WellMade, CalledFirst, AnsweredOnce, Delivered

(* The next stream's assistant message is empty. *)
LEMMA AfterResultsTalk ==
  ASSUME NEW ms \in Seq(MessageSet), NEW sleeps, AfterResults(ms, sleeps)
  PROVE  SameTalk(ms, messages')
PROOF
  <1>1. EmptyAssistant \in MessageSet /\ Silent(EmptyAssistant)
    BY MessageTypes DEF EmptyAssistant, Silent
  <1>2. messages' = ms \/ messages' = Append(ms, EmptyAssistant)
    BY DEF AfterResults
  <1> QED BY <1>1, <1>2, SameRefl, SilentAppended

(* All that is held is answered in one message. *)
LEMMA LedgerAnswered ==
  ASSUME Ledger, broken => broken', NEW ms \in Seq(MessageSet), SameTalk(messages, ms),
         NEW rs \in Seq(ResultSet), Pending(rs) = Held,
         ~broken => Apiece(rs) /\ Answers(rs),
         SameTalk(Append(ms, ToolResults(rs)), messages'),
         results' = <<>>, waiting' = <<>>
  PROVE  Ledger'
PROOF
  <1> SUFFICES ASSUME ~broken'
               PROVE  /\ CalledFirst(messages') /\ AnsweredOnce(messages') /\ Delivered(messages')
                      /\ Called(messages') = Answered(messages') \cup Held'
                      /\ Answered(messages') \cap Held' = {}
                      /\ Apiece(results') /\ Apiece(waiting')
    BY DEF Ledger
  <1>1. /\ CalledFirst(ms) /\ AnsweredOnce(ms) /\ Delivered(ms)
        /\ Called(ms) = Answered(ms) \cup Held /\ Answered(ms) \cap Held = {}
        /\ Apiece(rs) /\ Answers(rs)
    BY DEF Ledger, SameTalk
  <1> DEFINE ns == Append(ms, ToolResults(rs))
  <1>2. /\ CalledFirst(ns) /\ AnsweredOnce(ns) /\ Delivered(ns)
        /\ Called(ns) = Called(ms) /\ Answered(ns) = Answered(ms) \cup Held
    <2>1. Pending(rs) \subseteq Called(ms) /\ Pending(rs) \cap Answered(ms) = {}
      BY <1>1
    <2> QED BY <1>1, <2>1, ResultsAdded
  <1>3. /\ CalledFirst(messages') /\ AnsweredOnce(messages') /\ Delivered(messages')
        /\ Called(messages') = Answered(messages')
    BY <1>1, <1>2 DEF SameTalk
  <1>4. Held' = {} /\ Apiece(results') /\ Apiece(waiting')
    BY Emptied DEF Held
  <1> QED BY <1>3, <1>4

(* Nothing is held, nothing is awaited. *)
LEMMA WatchedEmpty ==
  ASSUME results' = <<>>, flushed' = <<>>, waiting' = <<>>
  PROVE  Watched'
PROOF
  <1>1. Awaited(results', BlockingKeys') /\ Awaited(waiting', arrived' \cup BlockingKeys')
    BY Emptied
  <1>2. \A i \in 1..Len(flushed') : FALSE
    OBVIOUS
  <1> QED BY <1>1, <1>2, Zenon DEF Watched

LEMMA SendToolUseTalk ==
  ASSUME IInv, Conversation, NEW g \in llm, SendToolUse(g)
  PROVE  Conversation'
PROOF
  <1>1. PICK ev : /\ ev.kind = "tool" /\ ev.call.key = <<calls + 1, "tool">>
                  /\ channel' = Append(channel, ev)
    BY DEF SendToolUse, SendEvent, Call
  <1>2. /\ calls' = calls + 1 /\ calls \in Nat /\ channel \in Seq(EventSet)
        /\ UNCHANGED <<pc, pendingTools, messages, results, batch, flushed, waiting, arrived,
                       watchers, executed, broken>>
    BY DEF SendToolUse, SendEvent, loopVars, batchVars, waitVars, IInv, TypeOK, ProviderTypeOK
  <1>3. ev.call.key[1] = calls + 1 /\ ev.call.key[2] = "tool"
    BY <1>1
  <1>4. EventNums(channel') = EventNums(channel) \cup {calls + 1}
    BY <1>1, <1>2, <1>3, EventsAppend
  <1>5. EventsKeyed(channel) /\ EventsKeyed(channel')
    <2>1. EventsKeyed(channel)
      BY DEF Conversation, OwnKeys, EventsKeyed
    <2> QED BY <2>1, <1>1, <1>2, <1>3, KeysSent
  <1>6. WellMade(messages') /\ BetweenBatches' /\ OwnKeys'
    BY <1>2, <1>5, KeysStay DEF Conversation, BetweenBatches
  <1>7. FreshKeys'
    <2>1. calls + 1 \in Nat /\ calls + 1 > calls /\ calls <= calls' /\ calls' \in Nat
      BY <1>2
    <2>2. \A n \in EventNums(channel') \cup Nums(pendingTools') \cup Nums(batch') :
            \/ n \in EventNums(channel) \cup Nums(pendingTools) \cup Nums(batch)
            \/ n \in Nat /\ n > calls
      BY <1>2, <1>4, <2>1
    <2> QED BY <1>2, <2>1, <2>2, FreshStays DEF Conversation
  <1>8. Ledger' /\ Watched'
    BY <1>2, LedgerStays, WatchedStays, SameRefl DEF Conversation
  <1> QED BY <1>6, <1>7, <1>8 DEF Conversation

LEMMA ToolEventTalk ==
  ASSUME IInv, Conversation, ToolEvent
  PROVE  Conversation'
PROOF
  <1> DEFINE c == Head(channel).call
  <1>1. /\ channel \in Seq(EventSet) /\ channel # <<>> /\ Head(channel).kind = "tool"
        /\ channel' = Tail(channel) /\ calls \in Nat /\ pendingTools \in Seq(CallSet)
    BY DEF ToolEvent, AfterEvent, IInv, TypeOK, ProviderTypeOK, PipelineTypeOK
  <1>2. c \in CallSet
    <2>1. Head(channel) \in EventSet
      BY <1>1
    <2> QED BY <1>1, <2>1 DEF EventSet
  <1>3. /\ pendingTools' = Append(pendingTools, c)
        /\ UNCHANGED <<pc, calls, messages, results, batch, flushed, waiting, arrived,
                       watchers, executed, broken>>
    BY DEF ToolEvent, AfterEvent, batchVars, waitVars
  <1>4. EventsKeyed(channel') /\ c.key[2] = "tool"
    <2>1. EventsKeyed(channel)
      BY DEF Conversation, OwnKeys, EventsKeyed
    <2> QED BY <2>1, <1>1, KeysTaken
  <1>5. EventNums(channel') \subseteq EventNums(channel) /\ c.key[1] \in EventNums(channel)
    BY <1>1, EventsTail
  <1> HIDE DEF c
  <1>6. Nums(pendingTools') = Nums(pendingTools) \cup {c.key[1]}
    BY <1>1, <1>2, <1>3, NumsAppend
  <1>7. OwnKeys'
    <2>1. Keyed(pendingTools', "tool")
      <3>1. Keyed(pendingTools, "tool")
        BY DEF Conversation, OwnKeys
      <3>2. /\ Len(pendingTools') = Len(pendingTools) + 1 /\ Len(pendingTools) \in Nat
            /\ pendingTools'[Len(pendingTools) + 1] = c
            /\ \A i \in 1..Len(pendingTools) : pendingTools'[i] = pendingTools[i]
        BY <1>1, <1>2, <1>3
      <3> QED BY ONLY <3>1, <3>2, <1>4 DEF Keyed
    <2> QED BY <2>1, <1>3, <1>4 DEF Conversation, OwnKeys, EventsKeyed
  <1>8. FreshKeys'
    <2>1. \A n \in EventNums(channel') \cup Nums(pendingTools') \cup Nums(batch') :
            n \in EventNums(channel) \cup Nums(pendingTools) \cup Nums(batch)
      BY <1>3, <1>5, <1>6
    <2> QED BY <1>1, <1>3, <2>1, FreshStays DEF Conversation
  <1>9. WellMade(messages') /\ BetweenBatches'
    BY <1>3 DEF Conversation, BetweenBatches
  <1>10. Ledger' /\ Watched'
    BY <1>3, LedgerStays, WatchedStays, SameRefl DEF Conversation
  <1> QED BY <1>7, <1>8, <1>9, <1>10 DEF Conversation

LEMMA CollectToolsTalk ==
  ASSUME IInv, Conversation, CollectTools
  PROVE  Conversation'
PROOF
  <1>1. /\ pc = "tools" /\ pc' = "execute" /\ batch' = pendingTools /\ pendingTools' = <<>>
        /\ results' = <<>> /\ flushed' = <<>> /\ calls \in Nat
        /\ UNCHANGED <<channel, calls, messages, waiting, arrived, watchers, executed, broken>>
    BY DEF CollectTools, TakePendingTools, providerVars, waitVars, IInv, TypeOK, ProviderTypeOK
  <1>2. results = <<>> /\ flushed = <<>> /\ batch = <<>>
    BY <1>1 DEF Conversation, BetweenBatches
  <1>3. WellMade(messages') /\ BetweenBatches'
    BY <1>1 DEF Conversation, BetweenBatches
  <1>4. OwnKeys'
    BY <1>1, Emptied DEF Conversation, OwnKeys
  <1>5. FreshKeys'
    <2>1. \A n \in EventNums(channel') \cup Nums(pendingTools') \cup Nums(batch') :
            n \in EventNums(channel) \cup Nums(pendingTools) \cup Nums(batch)
      BY <1>1, NumsEmpty
    <2> QED BY <1>1, <1>2, <2>1, FreshStays DEF Conversation
  <1>6. Ledger' /\ Watched'
    BY <1>1, <1>2, LedgerStays, WatchedStays, SameRefl DEF Conversation
  <1> QED BY <1>3, <1>4, <1>5, <1>6 DEF Conversation

(* Clearing at a quiet moment leaves nothing to answer. *)
LEMMA ClearTalk ==
  ASSUME IInv, Conversation, Clear
  PROVE  Conversation'
PROOF
  <1>1. /\ pc = "input" /\ pc' = "typed" /\ messages' = <<>> /\ calls \in Nat
        /\ broken' = (broken \/ PendingWork \/ Streaming)
        /\ UNCHANGED <<channel, calls, pendingTools, batch, results, flushed, waiting, arrived,
                       watchers, executed>>
    BY DEF Clear, providerVars, loopVars, batchVars, waitVars, IInv, TypeOK, ProviderTypeOK
  <1>2. results = <<>> /\ flushed = <<>> /\ batch = <<>>
    BY <1>1 DEF Conversation, BetweenBatches
  <1>3. WellMade(messages') /\ BetweenBatches' /\ OwnKeys'
    BY <1>1, EmptyTalk DEF Conversation, BetweenBatches, OwnKeys
  <1>4. FreshKeys'
    <2>1. Called(messages') \subseteq Called(messages)
      BY <1>1, EmptyTalk
    <2> QED BY <1>1, <2>1, FreshStays DEF Conversation
  <1>5. ~broken' => waiting' = <<>>
    BY <1>1 DEF PendingWork, NoWait
  <1>6. Ledger'
    <2> SUFFICES ASSUME ~broken' PROVE Ledger'
      BY DEF Ledger
    <2>1. Held' = {} /\ Apiece(results') /\ Apiece(waiting')
      BY <1>1, <1>2, <1>5, Emptied DEF Held
    <2> QED BY <2>1, <1>1, EmptyTalk DEF Ledger
  <1>7. Watched'
    <2> SUFFICES ASSUME ~broken' PROVE Watched'
      BY DEF Watched
    <2> QED BY <1>1, <1>2, <1>5, WatchedEmpty
  <1> QED BY <1>3, <1>4, <1>6, <1>7 DEF Conversation

(* A reload loses a wait only by cutting through it. *)
LEMMA ReloadTalk ==
  ASSUME IInv, Conversation, Reload
  PROVE  Conversation'
PROOF
  <1>1. /\ pc = "reload" /\ pc' = "input" /\ channel' = <<>> /\ pendingTools' = <<>>
        /\ waiting' = <<>> /\ broken' = (broken \/ PendingWork) /\ calls \in Nat
        /\ UNCHANGED <<messages, calls, batch, results, flushed, executed>>
    BY DEF Reload, batchVars, NoWait, IInv, TypeOK, ProviderTypeOK
  <1>2. results = <<>> /\ flushed = <<>> /\ batch = <<>>
    BY <1>1 DEF Conversation, BetweenBatches
  <1>3. WellMade(messages') /\ BetweenBatches'
    BY <1>1 DEF Conversation, BetweenBatches
  <1>4. OwnKeys'
    <2>1. EventsKeyed(channel')
      BY <1>1, Emptied
    <2> QED BY <1>1, <2>1, KeysStay DEF Conversation
  <1>5. FreshKeys'
    <2>1. \A n \in EventNums(channel') \cup Nums(pendingTools') \cup Nums(batch') :
            n \in EventNums(channel) \cup Nums(pendingTools) \cup Nums(batch)
      BY <1>1, NumsEmpty, Emptied
    <2> QED BY <1>1, <2>1, FreshStays DEF Conversation
  <1>6. Ledger'
    <2> SUFFICES ASSUME ~broken' PROVE Ledger'
      BY DEF Ledger
    <2>1. waiting = <<>> /\ ~broken
      BY <1>1 DEF PendingWork, NoWait
    <2> QED BY <2>1, <1>1, LedgerStays, SameRefl DEF Conversation
  <1>7. Watched'
    BY <1>1, <1>2, WatchedEmpty
  <1> QED BY <1>3, <1>4, <1>5, <1>6, <1>7 DEF Conversation

(* Esc answers what waits as interrupted. *)
LEMMA EscTalk ==
  ASSUME IInv, Conversation, Esc
  PROVE  Conversation'
PROOF
  <1>1. /\ pc = "input" /\ pc' = "events" /\ pendingTools' = <<>> /\ waiting' = <<>>
        /\ messages' = WithInterrupted(messages) /\ broken' = (broken \/ StreamAhead)
        /\ UNCHANGED <<channel, calls, batch, results, flushed, executed>>
    BY DEF Esc, Stopping, providerVars, batchVars, NoWait
  <1>t. /\ messages \in Seq(MessageSet) /\ waiting \in Seq(ResultSet) /\ calls \in Nat
        /\ broken \in BOOLEAN
    BY DEF IInv, TypeOK, TalkTypeOK, PipelineTypeOK, ProviderTypeOK, LoopTypeOK
  <1>2. results = <<>> /\ flushed = <<>> /\ batch = <<>>
    BY <1>1 DEF Conversation, BetweenBatches
  <1>b. broken => broken'
    BY <1>1
  <1> DEFINE rs == [i \in 1..Len(waiting) |-> [waiting[i] EXCEPT !.out = "interrupted"]]
  <1>3. /\ rs \in Seq(ResultSet) /\ Len(rs) = Len(waiting)
        /\ \A i \in 1..Len(waiting) : rs[i].call = waiting[i].call /\ rs[i].out = "interrupted"
    <2>1. ASSUME NEW i \in 1..Len(waiting)
          PROVE  /\ [waiting[i] EXCEPT !.out = "interrupted"] \in ResultSet
                 /\ [waiting[i] EXCEPT !.out = "interrupted"].call = waiting[i].call
                 /\ [waiting[i] EXCEPT !.out = "interrupted"].out = "interrupted"
      <3>1. waiting[i] \in ResultSet
        BY <1>t
      <3> QED BY <3>1 DEF ResultSet
    <2>2. Len(rs) = Len(waiting) /\ \A i \in 1..Len(waiting) : rs[i] = [waiting[i] EXCEPT !.out = "interrupted"]
      BY <1>t
    <2>3. rs \in Seq(ResultSet)
      BY <2>1, <1>t
    <2> QED BY <2>1, <2>2, <2>3, Zenon
  <1> HIDE DEF rs
  <1>4. Pending(rs) = Pending(waiting) /\ Answers(rs) /\ (Apiece(waiting) => Apiece(rs))
    BY <1>3 DEF Pending, Answers, Apiece
  <1>5. \/ waiting = <<>> /\ messages' = messages
        \/ messages' = Append(messages, ToolResults(rs))
    BY <1>1 DEF WithInterrupted, NoWait, rs
  <1>6. Called(messages') = Called(messages) /\ WellMade(messages')
    BY <1>3, <1>5, <1>t, ResultsAdded DEF Conversation
  <1>7. BetweenBatches'
    BY <1>1 DEF Conversation, BetweenBatches
  <1>8. OwnKeys'
    <2>1. EventsKeyed(channel')
      BY <1>1 DEF Conversation, OwnKeys, EventsKeyed
    <2> QED BY <1>1, <2>1, KeysStay DEF Conversation
  <1>9. FreshKeys'
    <2>1. \A n \in EventNums(channel') \cup Nums(pendingTools') \cup Nums(batch') :
            n \in EventNums(channel) \cup Nums(pendingTools) \cup Nums(batch)
      BY <1>1, NumsEmpty
    <2> QED BY <1>1, <1>6, <1>t, <2>1, FreshStays DEF Conversation
  <1>10. Ledger'
    <2>1. CASE waiting = <<>> /\ messages' = messages
      BY <2>1, <1>1, <1>b, LedgerStays, SameRefl DEF Conversation
    <2>2. CASE messages' = Append(messages, ToolResults(rs))
      <3>1. Held = Pending(rs)
        BY <1>2, <1>4, Emptied DEF Held
      <3>2. ~broken => Apiece(rs) /\ Answers(rs)
        BY <1>4 DEF Conversation, Ledger
      <3>3. SameTalk(messages, messages) /\ SameTalk(Append(messages, ToolResults(rs)), messages')
        BY <2>2, SameRefl
      <3> QED BY <3>1, <3>2, <3>3, <1>1, <1>2, <1>3, <1>b, <1>t, LedgerAnswered DEF Conversation
    <2> QED BY <1>5, <2>1, <2>2
  <1>11. Watched'
    BY <1>1, <1>2, WatchedEmpty
  <1> QED BY <1>6, <1>7, <1>8, <1>9, <1>10, <1>11 DEF Conversation

(* What the watchers return: a wait whose watcher is gone has its result. *)
LEMMA ResolvedAll ==
  ASSUME NEW ws \in Seq(ResultSet), NEW keys, NEW rs,
         rs = [i \in 1..Len(ws) |-> Resolved(ws[i], keys)]
  PROVE  /\ rs \in Seq(ResultSet) /\ Pending(rs) = Pending(ws)
         /\ Apiece(ws) => Apiece(rs)
         /\ Awaited(ws, keys) => Answers(rs)
PROOF
  <1>1. ASSUME NEW i \in 1..Len(ws)
        PROVE  /\ Resolved(ws[i], keys) \in ResultSet
               /\ Resolved(ws[i], keys).call = ws[i].call
               /\ Resolved(ws[i], keys).kind = ws[i].kind
               /\ Resolved(ws[i], keys).out =
                    IF ws[i].out # "sentinel" THEN ws[i].out
                    ELSE IF ws[i].key \in keys THEN "ok" ELSE "unavailable"
    <2>1. ws[i] \in ResultSet
      OBVIOUS
    <2>2. CASE ws[i].out # "sentinel"
      BY <2>1, <2>2 DEF Resolved
    <2>3. CASE ws[i].out = "sentinel"
      BY <2>1, <2>3 DEF Resolved, ResultSet
    <2> QED BY <2>2, <2>3
  <1>2. Len(rs) = Len(ws) /\ \A i \in 1..Len(ws) : rs[i] = Resolved(ws[i], keys)
    OBVIOUS
  <1>3. rs \in Seq(ResultSet)
    BY <1>1
  <1>4. \A i \in 1..Len(ws) :
          /\ rs[i].call = ws[i].call /\ rs[i].kind = ws[i].kind
          /\ rs[i].out = IF ws[i].out # "sentinel" THEN ws[i].out
                         ELSE IF ws[i].key \in keys THEN "ok" ELSE "unavailable"
    BY ONLY <1>1, <1>2, Zenon
  <1>5. Pending(rs) = Pending(ws) /\ (Apiece(ws) => Apiece(rs))
    BY ONLY <1>2, <1>4 DEF Pending, Apiece
  <1>6. Awaited(ws, keys) => Answers(rs)
    BY ONLY <1>2, <1>4 DEF Awaited, Answers
  <1> QED BY <1>3, <1>5, <1>6

(* A notification may put a note in the conversation. *)
LEMMA NotedTalk ==
  ASSUME NEW ms \in Seq(MessageSet)
  PROVE  InjectNote(ms) \in Seq(MessageSet) /\ SameTalk(ms, InjectNote(ms))
PROOF
  <1>1. UserText("note") \in MessageSet /\ Silent(UserText("note"))
    BY MessageTypes DEF UserText, Silent
  <1>2. InjectNote(ms) = ms \/ InjectNote(ms) = Append(ms, UserText("note"))
    BY DEF InjectNote
  <1> QED BY <1>1, <1>2, SilentAppended, SameRefl

LEMMA CheckWatchersTalk ==
  ASSUME IInv, Conversation, NEW fired \in SUBSET watchers, CheckWatchers(fired)
  PROVE  Conversation'
PROOF
  <1> DEFINE left == watchers \ fired
             got == arrived \cup {w.key : w \in BlockingWatchers(fired)}
             noted == IF fired \subseteq BlockingWatchers(fired) THEN messages
                      ELSE InjectNote(messages)
             resume == waiting # NoWait /\ AllArrived(left)
             rs == [i \in 1..Len(waiting) |-> Resolved(waiting[i], got)]
  <1>1. /\ pc = "watchers" /\ watchers' = left /\ GoTo(5)
        /\ UNCHANGED <<channel, calls, pendingTools, batch, results, flushed, executed, broken>>
    BY DEF CheckWatchers, batchVars
  <1>2. \/ /\ resume /\ TakeWaiting /\ ResumePipeline(Append(noted, ToolResults(rs)))
        \/ /\ ~resume /\ messages' = noted /\ UNCHANGED waiting
           /\ arrived' = IF waiting = NoWait THEN arrived ELSE got
    BY DEF CheckWatchers
  <1>t. /\ messages \in Seq(MessageSet) /\ waiting \in Seq(ResultSet) /\ calls \in Nat
    BY DEF IInv, TypeOK, TalkTypeOK, PipelineTypeOK, ProviderTypeOK
  <1>3. results = <<>> /\ flushed = <<>> /\ batch = <<>>
    BY <1>1 DEF Conversation, BetweenBatches
  <1>4. noted \in Seq(MessageSet) /\ SameTalk(messages, noted)
    BY <1>t, NotedTalk, SameRefl
  <1>5. \A k \in BlockingKeys : k \in got \/ k \in BlockingKeys'
    <2> SUFFICES ASSUME NEW w \in watchers, w.blocking PROVE w.key \in got \/ w.key \in BlockingKeys'
      BY DEF BlockingKeys, BlockingWatchers
    <2>1. CASE w \in fired
      BY <2>1 DEF BlockingWatchers
    <2>2. CASE w \in left
      BY <2>2, <1>1 DEF BlockingKeys, BlockingWatchers
    <2> QED BY <2>1, <2>2
  <1>6. AllArrived(left) => BlockingKeys' = {}
    BY <1>1 DEF AllArrived, BlockingKeys
  <1>k. arrived \subseteq got
    OBVIOUS
  <1> HIDE DEF left, got, noted
  <1>7. /\ rs \in Seq(ResultSet) /\ Pending(rs) = Pending(waiting)
        /\ Apiece(waiting) => Apiece(rs)
        /\ Awaited(waiting, got) => Answers(rs)
    BY <1>t, ResolvedAll
  <1> HIDE DEF rs
  <1> DEFINE ns == Append(noted, ToolResults(rs))
  <1>8. /\ ns \in Seq(MessageSet) /\ Called(ns) = Called(messages) /\ WellMade(ns)
    BY <1>4, <1>7, ResultsAdded DEF Conversation, SameTalk
  <1>9. resume => SameTalk(ns, messages') /\ waiting' = <<>>
    BY <1>2, <1>8, AfterResultsTalk DEF ResumePipeline, TakeWaiting, NoWait
  <1>10. ~resume => SameTalk(messages, messages') /\ UNCHANGED waiting
    BY <1>2, <1>4
  <1>11. Called(messages') = Called(messages) /\ WellMade(messages')
    <2> HIDE DEF resume, ns
    <2> QED BY <1>8, <1>9, <1>10 DEF Conversation, SameTalk
  <1>12. BetweenBatches'
    <2>1. pc' \notin {"execute", "callbacks"}
      BY <1>1, GoToBetween
    <2> QED BY <1>1, <1>3, <2>1 DEF BetweenBatches
  <1>13. OwnKeys' /\ FreshKeys'
    <2>1. EventsKeyed(channel')
      BY <1>1 DEF Conversation, OwnKeys, EventsKeyed
    <2>2. Called(messages') \subseteq Called(messages)
      BY <1>11
    <2> QED BY <1>1, <1>t, <2>1, <2>2, KeysStay, FreshStays DEF Conversation
  <1>14. ASSUME resume PROVE Ledger' /\ Watched'
    <2>1. ~broken => Apiece(rs) /\ Answers(rs)
      <3> SUFFICES ASSUME ~broken PROVE Apiece(waiting) /\ Awaited(waiting, got)
        BY <1>7
      <3>1. Apiece(waiting) /\ Awaited(waiting, arrived \cup BlockingKeys)
        BY DEF Conversation, Ledger, Watched
      <3>2. arrived \cup BlockingKeys \subseteq got
        BY <1>5, <1>6, <1>k, <1>14
      <3> QED BY ONLY <3>1, <3>2 DEF Awaited
    <2>2. Held = Pending(rs)
      BY <1>3, <1>7, Emptied DEF Held
    <2>3. results' = <<>> /\ waiting' = <<>> /\ flushed' = <<>>
      BY <1>1, <1>3, <1>9, <1>14
    <2>4. SameTalk(Append(noted, ToolResults(rs)), messages')
      BY <1>9, <1>14
    <2>5. Ledger'
      BY <2>1, <2>2, <2>3, <2>4, <1>1, <1>4, <1>7, LedgerAnswered DEF Conversation
    <2> QED BY <2>3, <2>5, WatchedEmpty
  <1>15. ASSUME ~resume PROVE Ledger' /\ Watched'
    <2>1. Ledger'
      BY <1>1, <1>10, <1>15, LedgerStays DEF Conversation
    <2>2. Watched'
      <3>1. CASE waiting = <<>>
        BY <3>1, <1>1, <1>3, <1>10, <1>15, WatchedEmpty
      <3>2. CASE waiting # <<>>
        <4>1. arrived' = got /\ waiting' = waiting
          BY <3>2, <1>2, <1>15 DEF NoWait
        <4>2. arrived \cup BlockingKeys \subseteq arrived' \cup BlockingKeys'
          BY <4>1, <1>5, <1>k
        <4>3. ~broken => Awaited(waiting', arrived' \cup BlockingKeys')
          <5>1. ~broken => Awaited(waiting, arrived \cup BlockingKeys)
            BY DEF Conversation, Watched
          <5> QED BY ONLY <4>1, <4>2, <5>1 DEF Awaited
        <4>4. Awaited(results', BlockingKeys')
          BY <1>1, <1>3, Emptied
        <4>5. \A i \in 1..Len(flushed') : FALSE
          BY <1>1, <1>3
        <4> QED BY <4>3, <4>4, <4>5, <1>1, Zenon DEF Watched
      <3> QED BY <3>1, <3>2
    <2> QED BY <2>1, <2>2
  <1>16. Ledger' /\ Watched'
    BY <1>14, <1>15
  <1> QED BY <1>11, <1>12, <1>13, <1>16 DEF Conversation

(* Results that come together. *)
LEMMA ResultsJoined ==
  ASSUME NEW rs \in Seq(ResultSet), NEW ss \in Seq(ResultSet), NEW ts, ts = rs \o ss
  PROVE  /\ Pending(ts) = Pending(rs) \cup Pending(ss)
         /\ Apiece(rs) /\ Apiece(ss) /\ Pending(rs) \cap Pending(ss) = {} => Apiece(ts)
         /\ \A keys : Awaited(rs, keys) /\ Awaited(ss, keys) => Awaited(ts, keys)
PROOF
  <1>1. /\ Len(rs) \in Nat /\ Len(ss) \in Nat /\ Len(ts) = Len(rs) + Len(ss)
        /\ \A i \in 1..(Len(rs) + Len(ss)) : ts[i] = IF i <= Len(rs) THEN rs[i] ELSE ss[i - Len(rs)]
    BY ConcatProperties
  <1>2. /\ \A i \in 1..Len(rs) : ts[i] = rs[i] /\ i \in 1..Len(ts)
        /\ \A i \in 1..Len(ss) : ts[Len(rs) + i] = ss[i] /\ Len(rs) + i \in 1..Len(ts)
    <2>1. ASSUME NEW i \in 1..Len(rs) PROVE ts[i] = rs[i] /\ i \in 1..Len(ts)
      BY ONLY <1>1, <2>1
    <2>2. ASSUME NEW i \in 1..Len(ss) PROVE ts[Len(rs) + i] = ss[i] /\ Len(rs) + i \in 1..Len(ts)
      <3>1. /\ Len(rs) + i \in 1..(Len(rs) + Len(ss)) /\ ~(Len(rs) + i <= Len(rs))
            /\ (Len(rs) + i) - Len(rs) = i
        BY ONLY <1>1
      <3> QED BY ONLY <1>1, <3>1
    <2> QED BY ONLY <2>1, <2>2
  <1>3. \A k \in 1..Len(ts) : \/ k \in 1..Len(rs) /\ ts[k] = rs[k]
                              \/ \E i \in 1..Len(ss) : k = Len(rs) + i /\ ts[k] = ss[i]
    <2> SUFFICES ASSUME NEW k \in 1..Len(ts), k \notin 1..Len(rs)
                 PROVE  k - Len(rs) \in 1..Len(ss) /\ k = Len(rs) + (k - Len(rs))
      BY <1>2
    <2> QED BY ONLY <1>1, k \in 1..Len(ts), k \notin 1..Len(rs)
  <1>4. Pending(ts) = Pending(rs) \cup Pending(ss)
    <2>1. ASSUME NEW x \in Pending(ts) PROVE x \in Pending(rs) \/ x \in Pending(ss)
      BY ONLY x \in Pending(ts), <1>3 DEF Pending
    <2>2. ASSUME NEW x \in Pending(rs) PROVE x \in Pending(ts)
      BY ONLY x \in Pending(rs), <1>2 DEF Pending
    <2>3. ASSUME NEW x \in Pending(ss) PROVE x \in Pending(ts)
      BY ONLY x \in Pending(ss), <1>2 DEF Pending
    <2> QED BY ONLY <2>1, <2>2, <2>3
  <1>5. ASSUME Apiece(rs), Apiece(ss), Pending(rs) \cap Pending(ss) = {} PROVE Apiece(ts)
    <2> SUFFICES ASSUME NEW k \in 1..Len(ts), NEW l \in 1..Len(ts), ts[k].call = ts[l].call
                 PROVE  k = l
      BY DEF Apiece
    <2>1. \A i \in 1..Len(rs), j \in 1..Len(ss) : rs[i].call # ss[j].call
      BY ONLY <1>5 DEF Pending
    <2>2. CASE k \in 1..Len(rs) /\ ts[k] = rs[k]
      <3>1. CASE l \in 1..Len(rs) /\ ts[l] = rs[l]
        BY ONLY <2>2, <3>1, <1>5, ts[k].call = ts[l].call DEF Apiece
      <3>2. ASSUME NEW j \in 1..Len(ss), ts[l] = ss[j] PROVE FALSE
        BY ONLY <2>1, <2>2, <3>2, ts[k].call = ts[l].call
      <3> QED BY <3>1, <3>2, <1>3
    <2>3. ASSUME NEW i \in 1..Len(ss), k = Len(rs) + i, ts[k] = ss[i] PROVE k = l
      <3>1. CASE l \in 1..Len(rs) /\ ts[l] = rs[l]
        BY ONLY <2>1, <2>3, <3>1, ts[k].call = ts[l].call
      <3>2. ASSUME NEW j \in 1..Len(ss), l = Len(rs) + j, ts[l] = ss[j] PROVE k = l
        <4>1. i = j
          BY ONLY <2>3, <3>2, <1>5, ts[k].call = ts[l].call DEF Apiece
        <4> QED BY <4>1, <2>3, <3>2
      <3> QED BY <3>1, <3>2, <1>3
    <2> QED BY <2>2, <2>3, <1>3
  <1>6. ASSUME NEW keys, Awaited(rs, keys), Awaited(ss, keys) PROVE Awaited(ts, keys)
    BY ONLY <1>3, <1>6 DEF Awaited
  <1> QED BY <1>4, <1>5, <1>6

(* The calls a batch answers, one after the other. *)
LEMMA OneCallAdded ==
  ASSUME NEW ms \in Seq(MessageSet), NEW c \in CallSet, NEW ns, ns = Append(ms, ToolCall(c))
  PROVE  /\ Called(ns) = Called(ms) \cup {c.key}
         /\ Answered(ns) = Answered(ms)
         /\ WellMade(ms) => WellMade(ns)
         /\ CalledFirst(ms) => CalledFirst(ns)
         /\ AnsweredOnce(ms) => AnsweredOnce(ns)
         /\ Delivered(ms) => Delivered(ns)
PROOF
  <1> DEFINE cs == <<c>>
             ds == <<ToolCall(c)>>
  <1>1. ToolCall(c) \in MessageSet
    BY MessageTypes
  <1>2. cs \in Seq(CallSet) /\ ds \in Seq(MessageSet) /\ Len(ds) = Len(cs) /\ 1..Len(cs) = {1}
        /\ cs[1] = c /\ ds[1] = ToolCall(c)
    BY <1>1
  <1>3. ns = ms \o ds
    BY <1>1, AppendIsConcat
  <1> HIDE DEF cs, ds
  <1>4. \A i \in 1..Len(cs) : ds[i] = ToolCall(cs[i])
    BY <1>2
  <1>5. {cs[i].key : i \in 1..Len(cs)} = {c.key}
    BY <1>2
  <1>6. /\ Called(ns) = Called(ms) \cup {cs[i].key : i \in 1..Len(cs)}
        /\ Answered(ns) = Answered(ms)
        /\ WellMade(ms) => WellMade(ns)
        /\ CalledFirst(ms) => CalledFirst(ns)
        /\ AnsweredOnce(ms) => AnsweredOnce(ns)
        /\ Delivered(ms) => Delivered(ns)
    BY <1>2, <1>3, <1>4, CallsAdded, Zenon
  <1> QED BY ONLY <1>5, <1>6

LEMMA OneResultAdded ==
  ASSUME NEW rs \in Seq(ResultSet), NEW r \in ResultSet, NEW ts, ts = Append(rs, r)
  PROVE  /\ Pending(ts) = Pending(rs) \cup {r.call}
         /\ Apiece(rs) /\ r.call \notin Pending(rs) => Apiece(ts)
         /\ \A keys : Awaited(rs, keys) /\ (r.kind = "wait" => /\ r.out # "unavailable"
                                                               /\ r.out = "sentinel" => r.key \in keys)
              => Awaited(ts, keys)
PROOF
  <1> DEFINE ss == <<r>>
  <1>1. ss \in Seq(ResultSet) /\ Len(ss) = 1 /\ ss[1] = r /\ 1..Len(ss) = {1}
    OBVIOUS
  <1>2. ts = rs \o ss
    BY AppendIsConcat
  <1> HIDE DEF ss
  <1>3. Pending(ss) = {r.call} /\ Apiece(ss)
    BY ONLY <1>1 DEF Pending, Apiece
  <1>4. \A keys : (r.kind = "wait" => r.out # "unavailable" /\ (r.out = "sentinel" => r.key \in keys))
                    => Awaited(ss, keys)
    BY ONLY <1>1 DEF Awaited
  <1>5. /\ Pending(ts) = Pending(rs) \cup Pending(ss)
        /\ Apiece(rs) /\ Apiece(ss) /\ Pending(rs) \cap Pending(ss) = {} => Apiece(ts)
        /\ \A keys : Awaited(rs, keys) /\ Awaited(ss, keys) => Awaited(ts, keys)
    BY <1>1, <1>2, ResultsJoined
  <1>6. Apiece(rs) /\ r.call \notin Pending(rs) => Apiece(ts)
    BY ONLY <1>3, <1>5
  <1> QED BY ONLY <1>3, <1>4, <1>5, <1>6, Zenon

(* Executing registers the watchers of the waits. *)
LEMMA WatchersAdded ==
  ASSUME NEW cs \in Seq(CallSet), ExecuteAll(cs)
  PROVE  /\ BlockingKeys \subseteq BlockingKeys'
         /\ \A i \in 1..Len(cs) : cs[i].kind = "wait" => cs[i].key \in BlockingKeys'
PROOF
  <1>1. watchers' = watchers \cup UNION {NewWatchers(cs[i]) : i \in 1..Len(cs)}
    BY DEF ExecuteAll
  <1>2. BlockingKeys \subseteq BlockingKeys'
    BY <1>1 DEF BlockingKeys, BlockingWatchers
  <1>3. ASSUME NEW i \in 1..Len(cs), cs[i].kind = "wait" PROVE cs[i].key \in BlockingKeys'
    <2> DEFINE w == [key |-> cs[i].key, blocking |-> TRUE]
    <2>1. NewWatchers(cs[i]) = {w}
      BY <1>3 DEF NewWatchers
    <2>2. w \in watchers' /\ w.blocking /\ w.key = cs[i].key
      BY <1>1, <2>1
    <2> HIDE DEF w
    <2> QED BY <2>2 DEF BlockingKeys, BlockingWatchers
  <1> QED BY <1>2, <1>3

(* What one tool does to the results, the watchers and the replay. *)
LEMMA ExecuteToolResult ==
  ASSUME IInv, Conversation, ExecuteTool
  PROVE  /\ \E r \in ResultSet :
              /\ results' = Append(results, r) /\ r.call = Head(batch).key
              /\ r.kind = "wait" =>
                   r.out # "unavailable" /\ (r.out = "sentinel" => r.key \in BlockingKeys')
         /\ BlockingKeys \subseteq BlockingKeys'
         /\ \A n \in 1..MaxCalls : executed[n] # 0 => executed'[n] # 0
         /\ \/ flushed' = flushed
            \/ /\ flushed' = Replay(queue.calls)
               /\ \A n \in Nums(flushed') :
                    n \in 1..MaxCalls /\ executed[n] = 0 /\ executed'[n] # 0
               /\ \A i \in 1..Len(flushed') :
                    flushed'[i].kind = "wait" => flushed'[i].key \in BlockingKeys'
PROOF
  <1> DEFINE c == Head(batch)
             cs == Replay(queue.calls)
  <1>1. TypeOK /\ PipelineTypeOK /\ OneHome
    BY DEF IInv, TypeOK
  <1>2. c \in CallSet /\ queue.calls \in Seq(CallSet) /\ Distinct(queue.calls)
    BY <1>1, ExecuteToolForms DEF PipelineTypeOK, OneHome, AllDistinct
  <1>3. /\ \A out \in {"ok", "error", "queued", "sentinel"} : Result(c, out, c.key) \in ResultSet
        /\ ExecutedResult(c) \in ResultSet
    BY <1>2, PipelineTypes
  <1>4. ASSUME NEW out \in {"ok", "error", "queued"}, Answer(c, out)
        PROVE  \E r \in ResultSet :
                 /\ results' = Append(results, r) /\ r.call = c.key
                 /\ r.kind = "wait" =>
                      r.out # "unavailable" /\ (r.out = "sentinel" => r.key \in BlockingKeys')
    <2> DEFINE r == Result(c, out, c.key)
    <2>1. r \in ResultSet /\ results' = Append(results, r)
      BY <1>3, <1>4 DEF Answer
    <2>2. r.call = c.key /\ r.out # "unavailable" /\ r.out # "sentinel"
      BY DEF Result
    <2> HIDE DEF r
    <2> QED BY <2>1, <2>2
  <1>5. \A n \in 1..MaxCalls : executed[n] \in Nat
    BY <1>1 DEF PipelineTypeOK
  <1>7. ASSUME Flush
        PROVE  /\ BlockingKeys \subseteq BlockingKeys'
               /\ \A n \in 1..MaxCalls : executed[n] # 0 => executed'[n] # 0
               /\ flushed' = cs
               /\ \A n \in Nums(cs) : n \in 1..MaxCalls /\ executed[n] = 0 /\ executed'[n] # 0
               /\ \A i \in 1..Len(cs) : cs[i].kind = "wait" => cs[i].key \in BlockingKeys'
    <2>1. ExecuteAll(cs) /\ flushed' = cs
      BY <1>7 DEF Flush
    <2>2. cs \in Seq(CallSet) /\ Distinct(cs) /\ Nums(cs) = Nums(queue.calls)
      BY <1>2, PipelineTypes, NumsReplay
    <2> HIDE DEF cs
    <2>3. \A n \in 1..MaxCalls : executed'[n] = IF n \in Nums(cs) THEN executed[n] + 1 ELSE executed[n]
      BY <2>1, <2>2, <1>1, ExecuteAllCounts
    <2>4. \A n \in Nums(cs) : n \in 1..MaxCalls /\ executed[n] = 0
      <3>1. \A n \in Nums(cs) : n \in 1..calls /\ executed[n] = 0
        BY <1>1, <2>2 DEF OneHome, Unspent
      <3>2. \A n \in 1..calls : n \in 1..MaxCalls
        BY <1>1, BoundsAssumption DEF TypeOK, ProviderTypeOK
      <3> QED BY <3>1, <3>2
    <2>5. \A n \in Nums(cs) : executed'[n] # 0
      BY <2>3, <2>4
    <2>6. \A n \in 1..MaxCalls : executed[n] # 0 => executed'[n] # 0
      BY <2>3, <1>5
    <2> QED BY <2>1, <2>2, <2>4, <2>5, <2>6, WatchersAdded
  <1>8. ASSUME ExecuteAll(<<c>>), results' = Append(results, ExecutedResult(c))
        PROVE  /\ \E r \in ResultSet :
                    /\ results' = Append(results, r) /\ r.call = c.key
                    /\ r.kind = "wait" =>
                         r.out # "unavailable" /\ (r.out = "sentinel" => r.key \in BlockingKeys')
               /\ BlockingKeys \subseteq BlockingKeys'
               /\ \A n \in 1..MaxCalls : executed[n] # 0 => executed'[n] # 0
    <2> DEFINE one == <<c>>
    <2>1. one \in Seq(CallSet) /\ Distinct(one) /\ 1 \in 1..Len(one) /\ one[1] = c
      BY <1>2, NumsOne
    <2>2. ExecuteAll(one)
      BY <1>8
    <2> HIDE DEF one
    <2>3. BlockingKeys \subseteq BlockingKeys' /\ (c.kind = "wait" => c.key \in BlockingKeys')
      <3>1. one[1].kind = "wait" => one[1].key \in BlockingKeys'
        BY <2>1, <2>2, WatchersAdded
      <3> QED BY <3>1, <2>1, <2>2, WatchersAdded
    <2>4. \A n \in 1..MaxCalls : executed[n] # 0 => executed'[n] # 0
      BY <2>1, <2>2, <1>1, <1>5, ExecuteAllCounts
    <2> DEFINE r == ExecutedResult(c)
    <2>5. /\ r.call = c.key /\ r.kind = c.kind /\ r.key = c.key /\ r.out # "unavailable"
      BY DEF ExecutedResult, Result
    <2>6. r \in ResultSet /\ results' = Append(results, r)
      BY <1>3, <1>8
    <2> HIDE DEF r
    <2>7. r.kind = "wait" => r.out # "unavailable" /\ (r.out = "sentinel" => r.key \in BlockingKeys')
      BY <2>3, <2>5
    <2> QED BY <2>3, <2>4, <2>5, <2>6, <2>7
  <1>9. \/ \E out \in {"ok", "error"} : Answer(c, out) /\ ExecuteNone /\ UNCHANGED <<queue, flushed>>
        \/ Answer(c, "ok") /\ Flush
        \/ Answer(c, "ok") /\ ExecuteNone /\ UNCHANGED flushed
        \/ Answer(c, "queued") /\ ExecuteNone /\ UNCHANGED flushed
        \/ /\ results' = Append(results, ExecutedResult(c))
           /\ ExecuteAll(<<c>>) /\ UNCHANGED <<queue, flushed>>
    BY <1>1, ExecuteToolForms, Zenon
  <1>10. ASSUME NEW out \in {"ok", "error", "queued"}, Answer(c, out), ExecuteNone, flushed' = flushed
         PROVE  /\ \E r \in ResultSet :
                     /\ results' = Append(results, r) /\ r.call = c.key
                     /\ r.kind = "wait" =>
                          r.out # "unavailable" /\ (r.out = "sentinel" => r.key \in BlockingKeys')
                /\ BlockingKeys \subseteq BlockingKeys'
                /\ \A n \in 1..MaxCalls : executed[n] # 0 => executed'[n] # 0
                /\ flushed' = flushed
    <2> HIDE DEF c
    <2>1. BlockingKeys' = BlockingKeys /\ executed' = executed
      BY <1>10 DEF ExecuteNone, BlockingKeys
    <2> QED BY <2>1, <1>4, <1>10
  <1>11. CASE \E out \in {"ok", "error"} : Answer(c, out) /\ ExecuteNone /\ UNCHANGED <<queue, flushed>>
    <2>1. PICK out \in {"ok", "error", "queued"} : Answer(c, out) /\ ExecuteNone /\ flushed' = flushed
      BY <1>11
    <2> QED BY <2>1, <1>10
  <1>12. CASE Answer(c, "ok") /\ ExecuteNone /\ UNCHANGED flushed
    BY <1>10, <1>12
  <1>13. CASE Answer(c, "queued") /\ ExecuteNone /\ UNCHANGED flushed
    BY <1>10, <1>13
  <1>14. CASE Answer(c, "ok") /\ Flush
    <2> HIDE DEF c
    <2>1. \E r \in ResultSet :
            /\ results' = Append(results, r) /\ r.call = c.key
            /\ r.kind = "wait" =>
                 r.out # "unavailable" /\ (r.out = "sentinel" => r.key \in BlockingKeys')
      BY <1>4, <1>14
    <2> HIDE DEF cs
    <2>2. /\ BlockingKeys \subseteq BlockingKeys'
          /\ \A n \in 1..MaxCalls : executed[n] # 0 => executed'[n] # 0
          /\ flushed' = cs
          /\ \A n \in Nums(flushed') : n \in 1..MaxCalls /\ executed[n] = 0 /\ executed'[n] # 0
          /\ \A i \in 1..Len(flushed') : flushed'[i].kind = "wait" => flushed'[i].key \in BlockingKeys'
      BY <1>7, <1>14
    <2> QED BY <2>1, <2>2, Zenon DEF c, cs
  <1>15. CASE /\ results' = Append(results, ExecutedResult(c))
              /\ ExecuteAll(<<c>>) /\ UNCHANGED <<queue, flushed>>
    BY <1>8, <1>15
  <1> QED BY <1>9, <1>11, <1>12, <1>13, <1>14, <1>15

(* A tool of the batch gets its message and its result at once. *)
LEMMA ExecuteToolTalk ==
  ASSUME IInv, Conversation, ExecuteTool
  PROVE  Conversation'
PROOF
  <1> DEFINE c == Head(batch)
             n == c.key[1]
  <1>t. /\ TypeOK /\ OneHome /\ messages \in Seq(MessageSet) /\ results \in Seq(ResultSet)
        /\ batch \in Seq(CallSet) /\ queue.calls \in Seq(CallSet) /\ calls \in Nat
    BY DEF IInv, TypeOK, TalkTypeOK, PipelineTypeOK, ProviderTypeOK
  <1>1. /\ pc = "execute" /\ pc' = "execute" /\ batch # <<>> /\ batch' = Tail(batch)
        /\ messages' = Append(messages, ToolCall(c))
        /\ UNCHANGED <<channel, calls, pendingTools, waiting, arrived, broken>>
    BY DEF ExecuteTool, providerVars
  <1>2. c \in CallSet /\ c = batch[1] /\ 1 \in 1..Len(batch)
    BY <1>t, <1>1
  <1>3. c.key = <<n, "tool">> /\ n \in 1..MaxCalls
    <2>1. c.key[2] = "tool"
      BY <1>2 DEF Conversation, OwnKeys, Keyed
    <2> QED BY <1>2, <2>1 DEF CallSet
  <1>4. /\ Nums(batch') \subseteq Nums(batch) /\ n \in Nums(batch) /\ n \notin Nums(batch')
    BY <1>t, <1>1, NumsTail DEF OneHome, AllDistinct
  <1>5. /\ n \in 1..calls /\ n \notin EventNums(channel) /\ n \notin Nums(pendingTools)
    BY <1>t, <1>4 DEF OneHome, Apart, Unspent
  <1>6. PICK r \in ResultSet :
          /\ results' = Append(results, r) /\ r.call = c.key
          /\ r.kind = "wait" =>
               r.out # "unavailable" /\ (r.out = "sentinel" => r.key \in BlockingKeys')
    BY ExecuteToolResult
  <1>7. /\ BlockingKeys \subseteq BlockingKeys'
        /\ \A m \in 1..MaxCalls : executed[m] # 0 => executed'[m] # 0
        /\ \/ flushed' = flushed
           \/ /\ flushed' = Replay(queue.calls)
              /\ \A m \in Nums(flushed') :
                   m \in 1..MaxCalls /\ executed[m] = 0 /\ executed'[m] # 0
              /\ \A i \in 1..Len(flushed') :
                   flushed'[i].kind = "wait" => flushed'[i].key \in BlockingKeys'
    BY ExecuteToolResult
  <1> HIDE DEF c, n
  <1>8. /\ Called(messages') = Called(messages) \cup {c.key}
        /\ Answered(messages') = Answered(messages)
        /\ WellMade(messages')
        /\ CalledFirst(messages) => CalledFirst(messages')
        /\ AnsweredOnce(messages) => AnsweredOnce(messages')
        /\ Delivered(messages) => Delivered(messages')
    BY <1>t, <1>1, <1>2, OneCallAdded DEF Conversation
  <1>9. c.key \notin Called(messages)
    BY <1>3, <1>4 DEF Conversation, FreshKeys, NotYetCalled
  <1>10. BetweenBatches'
    BY <1>1 DEF BetweenBatches
  <1>11. OwnKeys'
    <2>1. EventsKeyed(channel') /\ Keyed(pendingTools', "tool")
      BY <1>1 DEF Conversation, OwnKeys, EventsKeyed
    <2>2. Keyed(batch', "tool")
      <3>1. Keyed(batch, "tool")
        BY DEF Conversation, OwnKeys
      <3>2. \A i \in 1..Len(batch') : i + 1 \in 1..Len(batch) /\ batch'[i] = batch[i + 1]
        BY <1>t, <1>1
      <3> QED BY ONLY <3>1, <3>2 DEF Keyed
    <2>3. Keyed(flushed', "flush")
      <3>1. CASE flushed' = flushed
        BY <3>1 DEF Conversation, OwnKeys
      <3>2. CASE flushed' = Replay(queue.calls)
        <4>1. \A i \in 1..Len(queue.calls) : Replay(queue.calls)[i].key[2] = "flush"
          BY DEF Replay, Call
        <4>2. Len(Replay(queue.calls)) = Len(queue.calls)
          BY <1>t, PipelineTypes
        <4> QED BY ONLY <3>2, <4>1, <4>2 DEF Keyed
      <3> QED BY <3>1, <3>2, <1>7
    <2> QED BY <2>1, <2>2, <2>3 DEF OwnKeys, EventsKeyed
  <1>12. \A m : <<m, "flush">> # c.key
    BY <1>3
  <1>13. NotYetCalled'
    <2>1. \A m \in EventNums(channel') \cup Nums(pendingTools') \cup Nums(batch') :
            m # n /\ <<m, "tool">> \notin Called(messages)
      BY <1>1, <1>4, <1>5 DEF Conversation, FreshKeys, NotYetCalled
    <2>2. \A m : m # n => <<m, "tool">> # c.key
      BY <1>3
    <2> QED BY ONLY <2>1, <2>2, <1>8 DEF NotYetCalled
  <1>14. NotYetMade'
    <2>1. \A m \in Nat : m > calls => m # n /\ <<m, "tool">> \notin Called(messages)
      BY <1>t, <1>5 DEF Conversation, FreshKeys, NotYetMade
    <2>2. \A m : m # n => <<m, "tool">> # c.key
      BY <1>3
    <2> QED BY ONLY <2>1, <2>2, <1>1, <1>8 DEF NotYetMade
  <1>15. ReplayedRan'
    <2>1. ReplayedRan
      BY DEF Conversation, FreshKeys
    <2>2. \A m : <<m, "flush">> \in Called(messages') => <<m, "flush">> \in Called(messages)
      BY ONLY <1>8, <1>12
    <2>3. \A m \in 1..MaxCalls : <<m, "flush">> \in Called(messages') => executed'[m] # 0
      BY ONLY <2>1, <2>2, <1>7 DEF ReplayedRan
    <2>4. CASE flushed' = flushed
      <3>1. \A m \in Nums(flushed') :
              m \in 1..MaxCalls /\ executed'[m] # 0 /\ <<m, "flush">> \notin Called(messages')
        BY ONLY <2>1, <2>2, <2>4, <1>7 DEF ReplayedRan
      <3>2. Distinct(flushed')
        BY ONLY <2>1, <2>4 DEF ReplayedRan
      <3> QED BY ONLY <2>3, <3>1, <3>2 DEF ReplayedRan
    <2>5. ASSUME flushed' = Replay(queue.calls),
                 \A m \in Nums(flushed') : m \in 1..MaxCalls /\ executed[m] = 0 /\ executed'[m] # 0
          PROVE  ReplayedRan'
      <3>1. Distinct(flushed')
        BY <2>5, <1>t, NumsReplay DEF OneHome, AllDistinct
      <3>2. \A m \in Nums(flushed') :
              m \in 1..MaxCalls /\ executed'[m] # 0 /\ <<m, "flush">> \notin Called(messages')
        BY ONLY <2>1, <2>2, <2>5 DEF ReplayedRan
      <3> QED BY ONLY <2>3, <3>1, <3>2 DEF ReplayedRan
    <2> QED BY ONLY <2>4, <2>5, <1>7
  <1>16. Ledger'
    <2> SUFFICES ASSUME ~broken' PROVE Ledger'
      BY DEF Ledger
    <2>1. /\ CalledFirst(messages) /\ AnsweredOnce(messages) /\ Delivered(messages)
          /\ Called(messages) = Answered(messages) \cup Held
          /\ Answered(messages) \cap Held = {}
          /\ Apiece(results) /\ Apiece(waiting)
      BY <1>1 DEF Conversation, Ledger
    <2>2. Pending(results) \subseteq Called(messages)
      BY <2>1 DEF Held
    <2>3. Pending(results') = Pending(results) \cup {c.key} /\ Apiece(results')
      BY <1>t, <1>6, <1>9, <2>1, <2>2, OneResultAdded
    <2>4. Held' = Held \cup {c.key}
      BY <2>3, <1>1 DEF Held
    <2>5. /\ Called(messages') = Answered(messages') \cup Held'
          /\ Answered(messages') \cap Held' = {}
      BY ONLY <2>1, <2>4, <1>8, <1>9
    <2>6. Apiece(waiting')
      BY <2>1, <1>1
    <2> QED BY ONLY <2>1, <2>3, <2>5, <2>6, <1>8 DEF Ledger
  <1>17. Watched'
    <2> SUFFICES ASSUME ~broken' PROVE Watched'
      BY DEF Watched
    <2>1. /\ Awaited(results, BlockingKeys) /\ Awaited(waiting, arrived \cup BlockingKeys)
          /\ \A i \in 1..Len(flushed) : flushed[i].kind = "wait" => flushed[i].key \in BlockingKeys
      BY <1>1 DEF Conversation, Watched
    <2>2. Awaited(results, BlockingKeys') /\ Awaited(waiting, arrived \cup BlockingKeys')
      BY ONLY <2>1, <1>7 DEF Awaited
    <2>3. Awaited(results', BlockingKeys')
      BY <2>2, <1>t, <1>6, OneResultAdded
    <2>4. Awaited(waiting', arrived' \cup BlockingKeys')
      BY <2>2, <1>1
    <2>5. \A i \in 1..Len(flushed') : flushed'[i].kind = "wait" => flushed'[i].key \in BlockingKeys'
      BY ONLY <2>1, <1>7
    <2> QED BY ONLY <2>3, <2>4, <2>5 DEF Watched
  <1> QED BY <1>8, <1>10, <1>11, <1>13, <1>14, <1>15, <1>16, <1>17 DEF Conversation, FreshKeys

(* The replayed calls join the conversation and the results together. *)
LEMMA ReplayFlushedTalk ==
  ASSUME IInv, Conversation, ReplayFlushed
  PROVE  Conversation'
PROOF
  <1> DEFINE ss == [i \in 1..Len(flushed) |-> ExecutedResult(flushed[i])]
             ks == {flushed[i].key : i \in 1..Len(flushed)}
  <1>t. /\ messages \in Seq(MessageSet) /\ results \in Seq(ResultSet) /\ flushed \in Seq(CallSet)
        /\ calls \in Nat
    BY DEF IInv, TypeOK, TalkTypeOK, PipelineTypeOK, ProviderTypeOK
  <1>1. /\ pc = "execute" /\ pc' = "callbacks" /\ batch = <<>> /\ batch' = batch
        /\ messages' = messages \o [i \in 1..Len(flushed) |-> ToolCall(flushed[i])]
        /\ results' = results \o ss /\ flushed' = <<>>
        /\ UNCHANGED <<channel, calls, pendingTools, waiting, arrived, watchers, executed, broken>>
    BY DEF ReplayFlushed, providerVars, loopVars, waitVars
  <1>2. /\ Called(messages') = Called(messages) \cup ks
        /\ Answered(messages') = Answered(messages)
        /\ WellMade(messages')
        /\ CalledFirst(messages) => CalledFirst(messages')
        /\ AnsweredOnce(messages) => AnsweredOnce(messages')
        /\ Delivered(messages) => Delivered(messages')
    <2> DEFINE ds == [i \in 1..Len(flushed) |-> ToolCall(flushed[i])]
    <2>1. \A i \in 1..Len(flushed) : ToolCall(flushed[i]) \in MessageSet
      BY <1>t, MessageTypes
    <2>2. ds \in Seq(MessageSet) /\ Len(ds) = Len(flushed)
          /\ \A i \in 1..Len(flushed) : ds[i] = ToolCall(flushed[i])
      BY <2>1, <1>t
    <2>3. messages' = messages \o ds
      BY <1>1
    <2>4. WellMade(messages)
      BY DEF Conversation
    <2> HIDE DEF ds
    <2> QED BY <1>t, <2>2, <2>3, <2>4, CallsAdded
  <1>3. \A i \in 1..Len(flushed) : /\ flushed[i].key = <<flushed[i].key[1], "flush">>
                                   /\ flushed[i].key[1] \in Nums(flushed)
    <2> SUFFICES ASSUME NEW i \in 1..Len(flushed)
                 PROVE  /\ flushed[i].key = <<flushed[i].key[1], "flush">>
                        /\ flushed[i].key[1] \in Nums(flushed)
      OBVIOUS
    <2>1. flushed[i] \in CallSet /\ flushed[i].key[2] = "flush"
      BY <1>t DEF Conversation, OwnKeys, Keyed
    <2>2. flushed[i].key = <<flushed[i].key[1], "flush">>
      BY <2>1 DEF CallSet
    <2> QED BY <2>2 DEF Nums
  <1>4. /\ \A m \in Nums(flushed) : m \in 1..MaxCalls /\ executed[m] # 0 /\ <<m, "flush">> \notin Called(messages)
        /\ \A m \in 1..MaxCalls : <<m, "flush">> \in Called(messages) => executed[m] # 0
        /\ Distinct(flushed)
    BY DEF Conversation, FreshKeys, ReplayedRan
  <1>5. ks \cap Called(messages) = {}
    BY ONLY <1>3, <1>4
  <1>6. ss \in Seq(ResultSet) /\ Len(ss) = Len(flushed)
        /\ \A i \in 1..Len(flushed) : ss[i] = ExecutedResult(flushed[i])
    <2>1. \A i \in 1..Len(flushed) : ExecutedResult(flushed[i]) \in ResultSet
      BY <1>t, PipelineTypes
    <2> QED BY <2>1, <1>t
  <1>7. \A i \in 1..Len(flushed) : /\ ss[i].call = flushed[i].key /\ ss[i].kind = flushed[i].kind
                                   /\ ss[i].key = flushed[i].key /\ ss[i].out # "unavailable"
    <2>1. \A x : /\ ExecutedResult(x).call = x.key /\ ExecutedResult(x).kind = x.kind
                 /\ ExecutedResult(x).key = x.key /\ ExecutedResult(x).out # "unavailable"
      BY DEF ExecutedResult, Result
    <2> HIDE DEF ss
    <2> QED BY ONLY <1>6, <2>1
  <1> HIDE DEF ss
  <1>8. Pending(ss) = ks
    BY ONLY <1>6, <1>7 DEF Pending
  <1>9. Apiece(ss)
    <2>1. \A i, j \in 1..Len(flushed) : flushed[i].key = flushed[j].key => i = j
      BY ONLY <1>4 DEF Distinct
    <2> QED BY ONLY <2>1, <1>6, <1>7 DEF Apiece
  <1> HIDE DEF ks
  <1>10. BetweenBatches'
    BY <1>1 DEF BetweenBatches
  <1>11. OwnKeys'
    BY <1>1, Emptied DEF Conversation, OwnKeys
  <1>12. FreshKeys'
    <2>1. \A m : <<m, "tool">> \notin ks
      <3>1. \A i \in 1..Len(flushed) : \A m : flushed[i].key # <<m, "tool">>
        BY ONLY <1>3
      <3> QED BY ONLY <3>1 DEF ks
    <2>2. NotYetCalled'
      BY <1>1, <1>2, <2>1 DEF Conversation, FreshKeys, NotYetCalled
    <2>3. NotYetMade'
      BY <1>1, <1>2, <2>1 DEF Conversation, FreshKeys, NotYetMade
    <2>4. \A m : <<m, "flush">> \in ks => m \in Nums(flushed)
      BY ONLY <1>3 DEF ks
    <2>5. \A m \in 1..MaxCalls : <<m, "flush">> \in Called(messages') => executed'[m] # 0
      BY ONLY <1>1, <1>2, <1>4, <2>4
    <2>6. Nums(flushed') = {} /\ Distinct(flushed')
      BY <1>1, NumsEmpty
    <2>7. ReplayedRan'
      BY ONLY <2>5, <2>6 DEF ReplayedRan
    <2> QED BY <2>2, <2>3, <2>7 DEF FreshKeys
  <1>13. Ledger'
    <2> SUFFICES ASSUME ~broken' PROVE Ledger'
      BY DEF Ledger
    <2>1. /\ CalledFirst(messages) /\ AnsweredOnce(messages) /\ Delivered(messages)
          /\ Called(messages) = Answered(messages) \cup Held
          /\ Answered(messages) \cap Held = {}
          /\ Apiece(results) /\ Apiece(waiting)
      BY <1>1 DEF Conversation, Ledger
    <2>2. Pending(results) \cap Pending(ss) = {}
      BY <2>1, <1>5, <1>8 DEF Held
    <2>3. Pending(results') = Pending(results) \cup ks /\ Apiece(results')
      BY <1>t, <1>1, <1>6, <1>8, <1>9, <2>1, <2>2, ResultsJoined
    <2>4. Held' = Held \cup ks
      BY <2>3, <1>1 DEF Held
    <2>5. /\ Called(messages') = Answered(messages') \cup Held'
          /\ Answered(messages') \cap Held' = {}
      BY ONLY <2>1, <2>4, <1>2, <1>5
    <2>6. Apiece(waiting')
      BY <2>1, <1>1
    <2> QED BY ONLY <2>1, <2>3, <2>5, <2>6, <1>2 DEF Ledger
  <1>14. Watched'
    <2> SUFFICES ASSUME ~broken' PROVE Watched'
      BY DEF Watched
    <2>1. /\ Awaited(results, BlockingKeys) /\ Awaited(waiting, arrived \cup BlockingKeys)
          /\ \A i \in 1..Len(flushed) : flushed[i].kind = "wait" => flushed[i].key \in BlockingKeys
      BY <1>1 DEF Conversation, Watched
    <2>2. BlockingKeys' = BlockingKeys
      BY <1>1 DEF BlockingKeys
    <2>3. Awaited(ss, BlockingKeys)
      BY ONLY <2>1, <1>6, <1>7 DEF Awaited
    <2>4. Awaited(results', BlockingKeys)
      BY <2>1, <2>3, <1>t, <1>1, <1>6, ResultsJoined
    <2>5. Awaited(waiting', arrived' \cup BlockingKeys')
      BY <2>1, <2>2, <1>1
    <2>6. \A i \in 1..Len(flushed') : FALSE
      BY <1>1
    <2> QED BY ONLY <2>2, <2>4, <2>5, <2>6 DEF Watched
  <1> QED BY <1>2, <1>10, <1>11, <1>12, <1>13, <1>14 DEF Conversation

(* A set of numbers up to a bound has a greatest one. *)
LEMMA Greatest ==
  ASSUME NEW N \in Nat, NEW S, S \subseteq 1..N, S # {}
  PROVE  \E x \in S : \A y \in S : y <= x
PROOF
  <1> DEFINE R == {N - x : x \in S}
  <1>1. \A x \in S : x \in Int /\ N - x \in Nat
    OBVIOUS
  <1>2. R \subseteq Nat /\ R # {}
    BY <1>1, Zenon
  <1>3. PICK r \in R : \A q \in R : ~(<<q, r>> \in OpToRel(<, Nat))
    <2> HIDE DEF R
    <2> QED BY <1>2, NatLessThanWellFounded, WFMin
  <1>4. PICK x \in S : r = N - x
    OBVIOUS
  <1>5. ASSUME NEW y \in S PROVE y <= x
    <2>1. N - y \in R /\ N - y \in Nat /\ r \in Nat
      BY <1>1, <1>2, Zenon
    <2>2. ASSUME N - y < r PROVE FALSE
      <3>1. <<N - y, r>> \in OpToRel(<, Nat)
        <4> DEFINE q == N - y
        <4>1. <<q, r>> \in Nat \X Nat /\ <<q, r>>[1] = q /\ <<q, r>>[2] = r
          BY <2>1
        <4> HIDE DEF q
        <4> QED BY ONLY <4>1, <2>2, Zenon DEF OpToRel, q
      <3> QED BY ONLY <3>1, <2>1, <1>3, Zenon
    <2>3. y \in Int /\ x \in Int /\ N \in Int
      BY <1>1
    <2> QED BY ONLY <2>1, <2>2, <2>3, <1>4
  <1> QED BY <1>5

(* The sentinel of the callbacks leaves the calls and the waits alone. *)
LEMMA TaggedSame ==
  ASSUME PipelineTypeOK, NEW key \in Keys, NEW ts, ts = results \/ ts = Tagged(key)
  PROVE  /\ Len(ts) = Len(results) /\ Len(results) \in Nat
         /\ \A i \in 1..Len(results) :
              /\ ts[i].call = results[i].call /\ ts[i].kind = results[i].kind
              /\ ts[i].kind = "wait" => ts[i] = results[i]
PROOF
  <1> DEFINE last == CHOOSE i \in EditedNow : \A j \in EditedNow : j <= i
  <1>1. results \in Seq(ResultSet)
    BY DEF PipelineTypeOK
  <1>2. CASE ts = results
    BY <1>1, <1>2
  <1>3. CASE ts # results
    <2>0. ts = Tagged(key) /\ EditedNow # {}
      BY <1>3 DEF Tagged
    <2> HIDE DEF last
    <2>1. ts = [results EXCEPT ![last] = [@ EXCEPT !.out = "sentinel", !.key = key]]
      BY <2>0 DEF Tagged, last
    <2>2. last \in 1..Len(results)
      BY <2>1, <1>1, <1>3
    <2>3. results[last] \in ResultSet
      BY <1>1, <2>2
    <2>4. last \in EditedNow
      <3>1. \E i \in EditedNow : \A j \in EditedNow : j <= i
        <4>1. EditedNow \subseteq 1..Len(results) /\ Len(results) \in Nat
          BY <1>1 DEF EditedNow, Edited
        <4> QED BY <2>0, <4>1, Greatest
      <3> QED BY <3>1 DEF last
    <2>5. results[last].kind = "edit"
      BY <2>4 DEF EditedNow, Edited
    <2>6. /\ Len(ts) = Len(results) /\ Len(results) \in Nat
          /\ \A i \in 1..Len(results) : i # last => ts[i] = results[i]
          /\ ts[last] = [results[last] EXCEPT !.out = "sentinel", !.key = key]
      <3>1. DOMAIN results = 1..Len(results) /\ Len(results) \in Nat
        BY <1>1
      <3>2. /\ DOMAIN ts = 1..Len(results)
            /\ \A i \in 1..Len(results) : i # last => ts[i] = results[i]
            /\ ts[last] = [results[last] EXCEPT !.out = "sentinel", !.key = key]
        BY ONLY <2>1, <2>2, <3>1
      <3>3. [results[last] EXCEPT !.out = "sentinel", !.key = key] \in ResultSet
        BY ONLY <2>3, key \in Keys DEF ResultSet
      <3>4. ts \in Seq(ResultSet)
        BY ONLY <2>1, <2>2, <3>3, <1>1
      <3>5. Len(ts) = Len(results)
        BY <3>1, <3>2, <3>4
      <3> QED BY ONLY <3>1, <3>2, <3>5
    <2>7. ts[last].call = results[last].call /\ ts[last].kind = "edit"
      BY <2>3, <2>5, <2>6 DEF ResultSet
    <2> QED BY ONLY <2>5, <2>6, <2>7
  <1> QED BY <1>2, <1>3

(* A batch ends: its results wait together or are all said. *)
LEMMA FinishBatchTalk ==
  ASSUME IInv, Conversation, NEW fires \in BOOLEAN, NEW spawns \in BOOLEAN,
         FinishBatch(fires, spawns)
  PROVE  Conversation'
PROOF
  <1> DEFINE key == <<nextToolId, "callback">>
             ts == IF fires THEN Tagged(key) ELSE results
  <1>t. /\ PipelineTypeOK /\ messages \in Seq(MessageSet) /\ results \in Seq(ResultSet)
        /\ calls \in Nat
    BY DEF IInv, TypeOK, TalkTypeOK, PipelineTypeOK, ProviderTypeOK
  <1>k. key \in Keys
    BY <1>t DEF PipelineTypeOK, Keys
  <1>1. /\ pc = "callbacks" /\ results' = <<>> /\ GoTo(6) /\ watchers \subseteq watchers'
        /\ UNCHANGED <<channel, calls, pendingTools, batch, flushed, arrived, executed, broken>>
    BY DEF FinishBatch
  <1>2. \/ /\ waiting' = ts /\ messages' = messages
        \/ /\ \A i \in 1..Len(ts) : ts[i].out # "sentinel"
           /\ AfterResults(Append(messages, ToolResults(ts)), deferred.asked)
           /\ waiting' = waiting
    BY DEF FinishBatch
  <1>3. batch = <<>> /\ flushed = <<>>
    BY <1>1 DEF Conversation, BetweenBatches
  <1>4. ~broken => waiting = <<>>
    BY <1>1 DEF IInv, OneTurn, Reasons, NoWait
  <1>5. ts \in Seq(ResultSet)
    BY <1>t, TaggedType
  <1>6. /\ Len(ts) = Len(results) /\ Len(results) \in Nat
        /\ \A i \in 1..Len(results) :
             /\ ts[i].call = results[i].call /\ ts[i].kind = results[i].kind
             /\ ts[i].kind = "wait" => ts[i] = results[i]
    <2>1. ts = results \/ ts = Tagged(key)
      OBVIOUS
    <2> HIDE DEF ts, key
    <2> QED BY <2>1, <1>t, <1>k, TaggedSame
  <1> HIDE DEF ts, key
  <1>7. Pending(ts) = Pending(results) /\ (Apiece(results) => Apiece(ts))
    BY ONLY <1>6 DEF Pending, Apiece
  <1>8. \A keys : Awaited(results, keys) => Awaited(ts, keys) /\ Answers(ts)
    BY ONLY <1>6 DEF Awaited, Answers
  <1>9. BlockingKeys \subseteq BlockingKeys'
    BY <1>1 DEF BlockingKeys, BlockingWatchers
  <1> DEFINE ns == Append(messages, ToolResults(ts))
  <1>10. /\ ns \in Seq(MessageSet) /\ Called(ns) = Called(messages) /\ WellMade(ns)
    BY <1>5, <1>t, ResultsAdded DEF Conversation
  <1> HIDE DEF ns
  <1>11. \/ waiting' = ts /\ messages' = messages
         \/ waiting' = waiting /\ SameTalk(ns, messages')
    BY <1>2, <1>10, AfterResultsTalk DEF ns
  <1>12. Called(messages') = Called(messages) /\ WellMade(messages')
    BY <1>10, <1>11 DEF Conversation, SameTalk
  <1>13. BetweenBatches'
    <2>1. pc' \notin {"execute", "callbacks"}
      BY <1>1, GoToBetween
    <2> QED BY <1>1, <1>3, <2>1 DEF BetweenBatches
  <1>14. OwnKeys' /\ FreshKeys'
    <2>1. EventsKeyed(channel')
      BY <1>1 DEF Conversation, OwnKeys, EventsKeyed
    <2> QED BY <1>1, <1>t, <1>12, <2>1, KeysStay, FreshStays DEF Conversation
  <1>15. Ledger'
    <2> SUFFICES ASSUME ~broken' PROVE Ledger'
      BY DEF Ledger
    <2>1. ~broken /\ waiting = <<>> /\ Held = Pending(ts) /\ Pending(waiting) = {}
      BY <1>1, <1>4, <1>7, Emptied DEF Held
    <2>2. Apiece(ts) /\ Answers(ts)
      BY <2>1, <1>7, <1>8 DEF Conversation, Ledger, Watched
    <2>3. CASE waiting' = ts /\ messages' = messages
      <3>1. Held' = Held /\ Apiece(waiting') /\ Apiece(results')
        BY <2>1, <2>2, <2>3, <1>1, Emptied DEF Held
      <3> QED BY <2>1, <2>3, <3>1 DEF Conversation, Ledger
    <2>4. CASE waiting' = waiting /\ SameTalk(ns, messages')
      <3>1. results' = <<>> /\ waiting' = <<>> /\ SameTalk(messages, messages)
        BY <1>1, <2>1, <2>4, SameRefl
      <3>2. Ledger
        BY DEF Conversation
      <3>3. SameTalk(Append(messages, ToolResults(ts)), messages')
        BY <2>4 DEF ns
      <3> QED BY <3>1, <3>2, <3>3, <2>1, <2>2, <1>1, <1>5, <1>t, LedgerAnswered
    <2> QED BY <2>3, <2>4, <1>11
  <1>16. Watched'
    <2> SUFFICES ASSUME ~broken' PROVE Watched'
      BY DEF Watched
    <2>1. Awaited(results', BlockingKeys')
      BY <1>1, Emptied
    <2>2. Awaited(waiting', arrived' \cup BlockingKeys')
      <3>1. Awaited(ts, BlockingKeys)
        BY <1>1, <1>8 DEF Conversation, Watched
      <3>2. Awaited(ts, arrived' \cup BlockingKeys')
        BY ONLY <3>1, <1>9 DEF Awaited
      <3>3. Awaited(waiting, arrived' \cup BlockingKeys')
        BY <1>1, <1>4, Emptied
      <3> QED BY ONLY <3>2, <3>3, <1>11
    <2>3. \A i \in 1..Len(flushed') : FALSE
      BY <1>1, <1>3
    <2> QED BY ONLY <2>1, <2>2, <2>3 DEF Watched
  <1> QED BY <1>12, <1>13, <1>14, <1>15, <1>16 DEF Conversation

-----------------------------------------------------------------------------
(* The invariant of the conversation, and what it says to the provider. *)
LEMMA TalkStep ==
  ASSUME IInv, Conversation, [Next]_vars
  PROVE  Conversation'
PROOF
  <1>1. CASE Provider
    <2>1. ASSUME NEW g \in llm, SendText(g) \/ SendDone(g) \/ SendError(g) PROVE Conversation'
      BY <2>1, QuietActions
    <2>2. ASSUME NEW g \in llm, SendToolUse(g) PROVE Conversation'
      BY <2>2, SendToolUseTalk
    <2> QED BY <1>1, <2>1, <2>2 DEF Provider
  <1>2. CASE User
    <2>1. CASE UserMessage \/ WebStop \/ PaletteReload
      BY <2>1, QuietActions
    <2>2. CASE Esc
      BY <2>2, EscTalk
    <2>3. CASE Clear
      BY <2>3, ClearTalk
    <2> QED BY <1>2, <2>1, <2>2, <2>3 DEF User
  <1>3. CASE Events
    <2>1. CASE DropEvent \/ TextEvent \/ DoneEvent \/ ErrorEvent \/ EventsDrained
      BY <2>1, QuietActions
    <2>2. CASE ToolEvent
      BY <2>2, ToolEventTalk
    <2> QED BY <1>3, <2>1, <2>2 DEF Events
  <1>4. CASE Tools
    <2>1. CASE CollectTools
      BY <2>1, CollectToolsTalk
    <2>2. CASE ExecuteTool
      BY <2>2, ExecuteToolTalk
    <2>3. CASE ReplayFlushed
      BY <2>3, ReplayFlushedTalk
    <2>4. ASSUME NEW fires \in BOOLEAN, NEW spawns \in BOOLEAN, FinishBatch(fires, spawns)
          PROVE  Conversation'
      BY <2>4, FinishBatchTalk
    <2> QED BY <1>4, <2>1, <2>2, <2>3, <2>4 DEF Tools
  <1>5. CASE NoInput \/ HandleRetry \/ CheckWaitingForPanels \/ CheckDeferredSleep
             \/ FinalizeStream \/ UNCHANGED vars
    BY <1>5, QuietActions
  <1>6. CASE CheckSpine
    BY <1>6, CheckSpineTalk
  <1>7. CASE Reload
    BY <1>7, ReloadTalk
  <1>8. ASSUME NEW fired \in SUBSET watchers, CheckWatchers(fired) PROVE Conversation'
    BY <1>8, CheckWatchersTalk
  <1> QED BY <1>1, <1>2, <1>3, <1>4, <1>5, <1>6, <1>7, <1>8 DEF Next, Tick

LEMMA InitTalk == Init => Conversation
PROOF
  <1> SUFFICES ASSUME Init PROVE Conversation
    OBVIOUS
  <1>1. /\ pc = "input" /\ messages = <<>> /\ results = <<>> /\ waiting = <<>> /\ batch = <<>>
        /\ flushed = <<>> /\ channel = <<>> /\ pendingTools = <<>>
    BY DEF Init, NoWait
  <1>2. OwnKeys
    BY <1>1, Emptied DEF OwnKeys, EventsKeyed
  <1>3. FreshKeys
    BY <1>1, EmptyTalk, NumsEmpty DEF FreshKeys, NotYetCalled, NotYetMade, ReplayedRan
  <1>4. Ledger
    BY <1>1, EmptyTalk, Emptied DEF Ledger, Held
  <1>5. Watched
    <2>1. \A i \in 1..Len(flushed) : FALSE
      BY <1>1
    <2> QED BY <1>1, <2>1, Emptied DEF Watched
  <1>6. BetweenBatches
    BY <1>1 DEF BetweenBatches
  <1> QED BY <1>1, <1>2, <1>3, <1>4, <1>5, <1>6, EmptyTalk DEF Conversation

(* Every step of the loop, the provider and the user keeps the calls of the *)
(* conversation and their results in step: what is called is answered or is *)
(* held for its answer, and what waits has the watcher it waits for.        *)
THEOREM ConversationInvariant == Spec => []Conversation
PROOF
  <1>1. IInv /\ Conversation /\ [Next]_vars => Conversation'
    BY TalkStep
  <1> QED
    BY <1>1, InitTalk, InductiveInvariant, PTL DEF Spec

(* The entries the properties speak of. *)
LEMMA ResultEntry ==
  ASSUME NEW e \in Entries({"result"})
  PROVE  \E i \in ResultsAt(messages) : \E j \in 1..Len(messages[i].calls) :
           e = [at |-> i, of |-> messages[i].calls[j].call, what |-> messages[i].calls[j]]
BY DEF Entries, Positions, ResultsAt

LEMMA CallEntry ==
  ASSUME WellMade(messages)
  PROVE  /\ \A c \in Entries({"call"}) : c.of \in Called(messages)
         /\ \A i \in CallsAt(messages) :
              \E c \in Entries({"call"}) : c.at = i /\ c.of = messages[i].calls[1].call
PROOF
  <1>1. Positions({"call"}) = CallsAt(messages)
    BY DEF Positions, CallsAt
  <1>2. ASSUME NEW i \in CallsAt(messages) PROVE 1..Len(messages[i].calls) = {1}
    <2>1. Len(messages[i].calls) = 1
      BY DEF WellMade, CallsAt
    <2> QED BY <2>1
  <1>3. ASSUME NEW c \in Entries({"call"}) PROVE c.of \in Called(messages)
    <2>1. PICK i \in CallsAt(messages) : \E j \in 1..Len(messages[i].calls) :
            c = [at |-> i, of |-> messages[i].calls[j].call, what |-> messages[i].calls[j]]
      BY <1>1 DEF Entries
    <2>2. c = [at |-> i, of |-> messages[i].calls[1].call, what |-> messages[i].calls[1]]
      BY <2>1, <1>2
    <2> QED BY <2>2 DEF Called
  <1>4. ASSUME NEW i \in CallsAt(messages)
        PROVE  \E c \in Entries({"call"}) : c.at = i /\ c.of = messages[i].calls[1].call
    <2> DEFINE c == [at |-> i, of |-> messages[i].calls[1].call, what |-> messages[i].calls[1]]
    <2>1. c \in Entries({"call"})
      BY <1>1, <1>2 DEF Entries
    <2> QED BY <2>1
  <1> QED BY <1>3, <1>4

(* create_tool_call_messages, execute_queue_flush, finish_batch and         *)
(* flush_pending_tool_results_as_interrupted: as long as no stop, clear or  *)
(* reload has cut through pending work, every result of the conversation    *)
(* follows its call and no call has two, whichever of the batch, the queue, *)
(* the watchers and the interrupt answers it.                               *)
THEOREM EveryResultHasItsCall == Spec => []ResultsPaired
PROOF
  <1>1. Conversation => ResultsPaired
    <2> SUFFICES ASSUME Conversation, ~broken, NEW e \in Entries({"result"})
                 PROVE  /\ \E c \in Entries({"call"}) : c.of = e.of /\ c.at < e.at
                        /\ \A f \in Entries({"result"}) : f.of = e.of => f = e
      BY DEF ResultsPaired
    <2>1. WellMade(messages) /\ CalledFirst(messages) /\ AnsweredOnce(messages)
      BY DEF Conversation, Ledger
    <2>2. PICK i \in ResultsAt(messages) : \E j \in 1..Len(messages[i].calls) :
            e = [at |-> i, of |-> messages[i].calls[j].call, what |-> messages[i].calls[j]]
      BY ResultEntry
    <2>3. PICK j \in 1..Len(messages[i].calls) :
            e = [at |-> i, of |-> messages[i].calls[j].call, what |-> messages[i].calls[j]]
      BY <2>2
    <2>4. e.of \in Pending(messages[i].calls) /\ e.of = messages[i].calls[j].call /\ e.at = i
      BY <2>3 DEF Pending
    <2>5. \E c \in Entries({"call"}) : c.of = e.of /\ c.at < e.at
      <3>1. PICK h \in CallsAt(messages) : h < i /\ messages[h].calls[1].call = e.of
        BY <2>1, <2>4 DEF CalledFirst, CalledBy
      <3>2. PICK c \in Entries({"call"}) : c.at = h /\ c.of = messages[h].calls[1].call
        BY <2>1, CallEntry
      <3> QED BY <2>4, <3>1, <3>2
    <2>6. ASSUME NEW f \in Entries({"result"}), f.of = e.of PROVE f = e
      <3>1. PICK k \in ResultsAt(messages) : \E l \in 1..Len(messages[k].calls) :
              f = [at |-> k, of |-> messages[k].calls[l].call, what |-> messages[k].calls[l]]
        BY ResultEntry
      <3>2. PICK l \in 1..Len(messages[k].calls) :
              f = [at |-> k, of |-> messages[k].calls[l].call, what |-> messages[k].calls[l]]
        BY <3>1
      <3>3. f.of \in Pending(messages[k].calls) /\ f.of = messages[k].calls[l].call
        BY <3>2 DEF Pending
      <3>4. k = i
        BY <2>1, <2>4, <2>6, <3>3 DEF AnsweredOnce
      <3>5. l = j
        BY <2>1, <2>4, <2>6, <3>3, <3>4 DEF AnsweredOnce, Apiece
      <3> QED BY <2>3, <3>2, <3>4, <3>5
    <2> QED BY <2>5, <2>6
  <1> QED
    BY <1>1, ConversationInvariant, PTL

(* The same code, read from the call: on the same condition, a call in the  *)
(* conversation has its result there, or the batch or the blocked batch     *)
(* still holds it, so that no request goes out with a call left open once   *)
(* the loop holds nothing.                                                  *)
THEOREM EveryCallAnswered == Spec => []CallsAnswered
PROOF
  <1>1. Conversation => CallsAnswered
    <2> SUFFICES ASSUME Conversation, ~broken, NEW c \in Entries({"call"})
                 PROVE  \/ \E e \in Entries({"result"}) : e.of = c.of
                        \/ c.of \in Pending(results) \cup Pending(waiting)
      BY DEF CallsAnswered
    <2>1. c.of \in Answered(messages) \cup Held
      BY CallEntry DEF Conversation, Ledger
    <2>2. ASSUME c.of \in Answered(messages) PROVE \E e \in Entries({"result"}) : e.of = c.of
      <3>1. PICK i \in ResultsAt(messages) : c.of \in Pending(messages[i].calls)
        BY <2>2 DEF Answered
      <3>2. PICK j \in 1..Len(messages[i].calls) : c.of = messages[i].calls[j].call
        BY <3>1 DEF Pending
      <3> DEFINE e == [at |-> i, of |-> messages[i].calls[j].call, what |-> messages[i].calls[j]]
      <3>3. e \in Entries({"result"})
        BY <3>1 DEF Entries, Positions, ResultsAt
      <3> QED BY <3>2, <3>3
    <2> QED BY <2>1, <2>2 DEF Held
  <1> QED
    BY <1>1, ConversationInvariant, PTL

(* check_watchers and the blocking branch of finish_batch: on the same      *)
(* condition, no wait that reaches the conversation uninterrupted is told   *)
(* that its result was unavailable; what it waited for has fired and is     *)
(* merged into it, also when it was queued and replayed in a later batch.   *)
THEOREM WaitGetsItsResult == Spec => []WaitDelivered
PROOF
  <1>1. Conversation => WaitDelivered
    <2> SUFFICES ASSUME Conversation, ~broken, NEW e \in Entries({"result"}),
                        e.what.kind = "wait"
                 PROVE  e.what.out # "unavailable"
      BY DEF WaitDelivered
    <2>1. PICK i \in ResultsAt(messages) : \E j \in 1..Len(messages[i].calls) :
            e = [at |-> i, of |-> messages[i].calls[j].call, what |-> messages[i].calls[j]]
      BY ResultEntry
    <2>2. PICK j \in 1..Len(messages[i].calls) : e.what = messages[i].calls[j]
      BY <2>1
    <2>3. Answers(messages[i].calls)
      BY DEF Conversation, Ledger, Delivered
    <2> QED BY <2>2, <2>3 DEF Answers
  <1> QED
    BY <1>1, ConversationInvariant, PTL
=============================================================================
