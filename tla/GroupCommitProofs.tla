------------------------- MODULE GroupCommitProofs -------------------------
(***************************************************************************)
(* The promises of the group-commit service for any set of submitters, any *)
(* queue capacity and batch size, and any pattern of append and sync       *)
(* errors: a returned rev is durable, no submitted job is lost or written  *)
(* twice, and the records of one submitter keep their order.               *)
(*                                                                         *)
(* The argument follows a job through the pipeline call -> queue -> batch  *)
(* -> log.  Two jobs are Apart when their ids differ and, if one submitter *)
(* made both, the one ahead has the smaller id; every stage is a Chain of  *)
(* such jobs and every stage is Ahead of the next.  An ack owed to a       *)
(* blocked submitter is the one its call waits for, so releasing it never  *)
(* forgets a job still being sent.                                         *)
(***************************************************************************)
EXTENDS GroupCommit, SequenceTheorems, TLAPS

Queued == Jobs \cup {Shutdown}

-----------------------------------------------------------------------------
(* The inductive invariant *)

Apart(x, y) ==
  x # Shutdown /\ y # Shutdown => x.id # y.id /\ (x.by = y.by => x.id < y.id)

Chain(s) == \A i, k \in DOMAIN s : i < k => Apart(s[i], s[k])
Ahead(s, t) == \A i \in DOMAIN s, k \in DOMAIN t : Apart(s[i], t[k])
AheadOf(s, x) == \A i \in DOMAIN s : Apart(s[i], x)

(* The jobs whose acks are held until the sync form a stage of their own:  *)
(* they have left the batch, whether or not they reached the log.          *)
AcksChain == \A i, k \in DOMAIN acks : i < k => Apart(acks[i][1], acks[k][1])
AcksAhead(t) == \A i \in DOMAIN acks, k \in DOMAIN t : Apart(acks[i][1], t[k])
AcksAheadOf(x) == \A i \in DOMAIN acks : Apart(acks[i][1], x)

Pipeline ==
  /\ Chain(log) /\ Chain(batch) /\ Chain(queue) /\ AcksChain
  /\ Ahead(log, batch) /\ Ahead(log, queue) /\ Ahead(batch, queue)
  /\ AcksAhead(batch) /\ AcksAhead(queue)

(* Ids are handed out in order, and a job still being sent is behind all.  *)
Numbered(s) == \A i \in DOMAIN s : s[i] # Shutdown => s[i].id <= jobs
AcksNumbered == \A i \in DOMAIN acks : acks[i][1].id <= jobs

SendingIsLast ==
  /\ Numbered(log) /\ Numbered(batch) /\ Numbered(queue) /\ AcksNumbered
  /\ \A s \in Submitters :
       call[s].op = "send" =>
         /\ call[s].job.by = s /\ call[s].job.id <= jobs
         /\ AheadOf(log, call[s].job) /\ AheadOf(batch, call[s].job)
         /\ AheadOf(queue, call[s].job) /\ AcksAheadOf(call[s].job)
         /\ \A t \in Submitters :
              t # s /\ call[t].op = "send" => call[t].job.id # call[s].job.id

(* A blocked append_durable waits for exactly the job that carries its ack.*)
Awaited(calls, job) == job.type = "awaited" => calls[job.by] = [op |-> "await", job |-> job]

Owed ==
  /\ \A i \in DOMAIN queue : Awaited(call, queue[i])
  /\ \A i \in DOMAIN batch : Awaited(call, batch[i])
  /\ \A i \in DOMAIN acks : Awaited(call, acks[i][1])

(* A successful append is in the log, and a successful sync covers it all. *)
AcksLogged == \A i \in DOMAIN acks : acks[i][2] => \E k \in DOMAIN log : log[k] = acks[i][1]
Covered == commit = "release" /\ synced_ok => durable = Len(log)

BatchTaken == commit \in {"recv", "release", "exited"} => batch = <<>>

Accounted ==
  1..jobs = Sending \cup Ids(queue) \cup Ids(batch) \cup Ids(log) \cup refused \cup dropped

IInv ==
  /\ TypeOK /\ Pipeline /\ SendingIsLast /\ Owed
  /\ AcksLogged /\ Covered /\ BatchTaken /\ Accounted /\ ReturnedIsDurable

-----------------------------------------------------------------------------
(* Sequences *)

(* What Append and Tail do to the elements of a sequence. *)
LEMMA AppendElements ==
  ASSUME NEW S, NEW s \in Seq(S), NEW e \in S
  PROVE  /\ Append(s, e) \in Seq(S)
         /\ Len(s) \in Nat /\ Len(Append(s, e)) = Len(s) + 1
         /\ DOMAIN s = 1..Len(s) /\ DOMAIN Append(s, e) = 1..(Len(s) + 1)
         /\ \A i \in DOMAIN s : s[i] \in S /\ Append(s, e)[i] = s[i]
         /\ Append(s, e)[Len(s) + 1] = e
<1>1. Append(s, e) \in Seq(S)
  BY AppendProperties
<1>2. DOMAIN Append(s, e) = 1..Len(Append(s, e))
  BY <1>1, LenProperties
<1> QED BY <1>1, <1>2, AppendProperties, LenProperties, ElementOfSeq

LEMMA TailElements ==
  ASSUME NEW S, NEW s \in Seq(S), s # <<>>
  PROVE  /\ Tail(s) \in Seq(S) /\ Head(s) \in S /\ Head(s) = s[1]
         /\ Len(s) \in Nat \ {0} /\ Len(Tail(s)) = Len(s) - 1
         /\ DOMAIN s = 1..Len(s) /\ DOMAIN Tail(s) = 1..(Len(s) - 1)
         /\ 1 \in DOMAIN s
         /\ \A i \in DOMAIN Tail(s) : i + 1 \in DOMAIN s /\ Tail(s)[i] = s[i + 1]
<1>1. Tail(s) \in Seq(S) /\ Len(Tail(s)) = Len(s) - 1 /\ Head(s) \in S
  BY HeadTailProperties
<1>2. DOMAIN Tail(s) = 1..(Len(s) - 1)
  BY <1>1, LenProperties
<1>3. Len(s) \in Nat \ {0}
  BY EmptySeq
<1>4. \A i \in 1..(Len(s) - 1) : Tail(s)[i] = s[i + 1]
  BY <1>1, HeadTailProperties
<1> QED BY <1>1, <1>2, <1>3, <1>4, LenProperties

LEMMA ChainAppend ==
  ASSUME NEW S, NEW s \in Seq(S), NEW e \in S, Chain(s), AheadOf(s, e)
  PROVE  Chain(Append(s, e))
BY AppendElements DEF Chain, AheadOf

LEMMA ChainTail ==
  ASSUME NEW S, NEW s \in Seq(S), s # <<>>, Chain(s)
  PROVE  Chain(Tail(s)) /\ \A i \in DOMAIN Tail(s) : Apart(Head(s), Tail(s)[i])
BY TailElements DEF Chain

LEMMA AheadAppend ==
  ASSUME NEW S, NEW T, NEW s \in Seq(S), NEW t \in Seq(T), Ahead(s, t)
  PROVE  /\ \A e \in S : (\A k \in DOMAIN t : Apart(e, t[k])) => Ahead(Append(s, e), t)
         /\ \A e \in T : AheadOf(s, e) => Ahead(s, Append(t, e))
<1>1. ASSUME NEW e \in S, \A k \in DOMAIN t : Apart(e, t[k]) PROVE Ahead(Append(s, e), t)
  BY <1>1, AppendElements DEF Ahead
<1>2. ASSUME NEW e \in T, AheadOf(s, e) PROVE Ahead(s, Append(t, e))
  BY <1>2, AppendElements DEF Ahead, AheadOf
<1> QED BY <1>1, <1>2

LEMMA AheadTail ==
  ASSUME NEW S, NEW T, NEW s \in Seq(S), NEW t \in Seq(T), Ahead(s, t)
  PROVE  /\ s # <<>> => Ahead(Tail(s), t) /\ \A k \in DOMAIN t : Apart(Head(s), t[k])
         /\ t # <<>> => Ahead(s, Tail(t)) /\ AheadOf(s, Head(t))
<1>1. ASSUME s # <<>> PROVE Ahead(Tail(s), t) /\ \A k \in DOMAIN t : Apart(Head(s), t[k])
  BY <1>1, TailElements DEF Ahead
<1>2. ASSUME t # <<>> PROVE Ahead(s, Tail(t)) /\ AheadOf(s, Head(t))
  BY <1>2, TailElements DEF Ahead, AheadOf
<1> QED BY <1>1, <1>2

LEMMA AheadOfAppend ==
  ASSUME NEW S, NEW s \in Seq(S), NEW e \in S, NEW x, AheadOf(s, x), Apart(e, x)
  PROVE  AheadOf(Append(s, e), x)
BY AppendElements DEF AheadOf

LEMMA AheadOfTail ==
  ASSUME NEW S, NEW s \in Seq(S), s # <<>>, NEW x, AheadOf(s, x)
  PROVE  AheadOf(Tail(s), x) /\ Apart(Head(s), x)
BY TailElements DEF AheadOf

(* The ids of a sequence of jobs. *)
LEMMA IdsAppend ==
  ASSUME NEW s \in Seq(Queued), NEW e \in Queued
  PROVE  Ids(Append(s, e)) = IF e = Shutdown THEN Ids(s) ELSE Ids(s) \cup {e.id}
BY AppendElements DEF Ids

LEMMA IdsTail ==
  ASSUME NEW s \in Seq(Queued), s # <<>>
  PROVE  Ids(s) = IF Head(s) = Shutdown THEN Ids(Tail(s)) ELSE Ids(Tail(s)) \cup {Head(s).id}
<1>1. ASSUME NEW k \in DOMAIN s PROVE k = 1 \/ (k - 1 \in DOMAIN Tail(s) /\ Tail(s)[k - 1] = s[k])
  BY TailElements
<1>2. Head(s) = s[1] /\ 1 \in DOMAIN s
  BY TailElements
<1>3. \A i \in DOMAIN Tail(s) : i + 1 \in DOMAIN s /\ Tail(s)[i] = s[i + 1]
  BY TailElements
<1>4. ASSUME NEW x \in Ids(s)
      PROVE  x \in IF Head(s) = Shutdown THEN Ids(Tail(s)) ELSE Ids(Tail(s)) \cup {Head(s).id}
  <2>1. PICK k \in DOMAIN s : s[k] # Shutdown /\ x = s[k].id
    BY <1>4 DEF Ids
  <2> QED BY <2>1, <1>1, <1>2 DEF Ids
<1>5. Ids(Tail(s)) \subseteq Ids(s)
  BY <1>3 DEF Ids
<1>6. Head(s) # Shutdown => Head(s).id \in Ids(s)
  BY <1>2 DEF Ids
<1> QED BY <1>4, <1>5, <1>6

-----------------------------------------------------------------------------
(* Every action preserves the invariant *)

(* The kinds of values in the pipeline. *)
LEMMA JobTypes ==
  /\ Shutdown.type = "Shutdown" /\ Shutdown \notin Jobs
  /\ \A j \in Jobs : j.id \in Nat /\ j.by \in Submitters /\ j # Shutdown
                     /\ j.type \in {"awaited", "detached", "besteffort"}
  /\ \A c \in Calls : c.op \in {"send", "await"} => c.job \in Jobs
  /\ \A c \in Calls : c = Idle <=> c.op = "idle"
  /\ Idle \in Calls /\ \A j \in Jobs, op \in {"send", "await"} : [op |-> op, job |-> j] \in Calls
BY DEF Shutdown, Jobs, Calls, Idle

LEMMA Elements ==
  ASSUME TypeOK
  PROVE  /\ \A i \in DOMAIN log : log[i] \in Jobs
         /\ \A i \in DOMAIN batch : batch[i] \in Queued
         /\ \A i \in DOMAIN queue : queue[i] \in Queued
         /\ \A i \in DOMAIN acks : acks[i][1] \in Jobs /\ acks[i][2] \in BOOLEAN
         /\ \A s \in Submitters : call[s] \in Calls
         /\ jobs \in Nat /\ Len(log) \in Nat /\ durable \in Nat
         /\ log \in Seq(Queued) /\ batch \in Seq(Queued) /\ queue \in Seq(Queued)
<1>1. log \in Seq(Queued)
  BY SeqMonotonic DEF TypeOK, Queued
<1>2. \A i \in DOMAIN acks : acks[i] \in Jobs \X BOOLEAN
  BY LenProperties, ElementOfSeq DEF TypeOK
<1> QED BY <1>1, <1>2, LenProperties, ElementOfSeq DEF TypeOK, Queued

LEMMA InitIInv == Init => IInv
<1> SUFFICES ASSUME Init PROVE IInv
  OBVIOUS
<1>1. TypeOK
  <2>1. call \in [Submitters -> Calls]
    BY JobTypes DEF Init
  <2>2. /\ <<>> \in Seq(Jobs \cup {Shutdown}) /\ <<>> \in Seq(Jobs)
        /\ <<>> \in Seq(Jobs \X BOOLEAN) /\ Len(<<>>) = 0
    BY EmptySeq
  <2>3. 0 <= Capacity /\ 0 <= MaxBatch /\ 0 \in 0..MaxJobs
    BY QueueAssumption, MaxJobsAssumption
  <2>4. /\ queue \in Seq(Jobs \cup {Shutdown}) /\ Len(queue) <= Capacity
        /\ batch \in Seq(Jobs \cup {Shutdown}) /\ Len(batch) <= MaxBatch
        /\ acks \in Seq(Jobs \X BOOLEAN) /\ log \in Seq(Jobs)
    BY <2>2, <2>3 DEF Init
  <2>5. durable \in 0..Len(log) /\ jobs \in 0..MaxJobs
    BY <2>2, <2>3 DEF Init
  <2> QED BY <2>1, <2>4, <2>5 DEF Init, TypeOK
<1>2. Pipeline
  BY DEF Init, Pipeline, Chain, Ahead, AcksChain, AcksAhead
<1>3. \A s \in Submitters : call[s].op = "idle"
  BY DEF Init, Idle
<1>4. SendingIsLast /\ Owed
  BY <1>3 DEF Init, SendingIsLast, Owed, Numbered, AcksNumbered
<1>5. AcksLogged /\ Covered /\ BatchTaken /\ ReturnedIsDurable
  BY DEF Init, AcksLogged, Covered, BatchTaken, ReturnedIsDurable
<1>6. Accounted
  BY <1>3 DEF Init, Accounted, Sending, Ids
<1> QED BY <1>1, <1>2, <1>4, <1>5, <1>6 DEF IInv

(* append_durable and submit_durable enter the send: a new, larger id. *)
LEMMA BeginSendStep ==
  ASSUME IInv, NEW s \in Submitters, NEW type \in {"awaited", "detached"}, BeginSend(s, type)
  PROVE  IInv'
<1> DEFINE job == Job(type, jobs + 1, s)
<1>1. /\ jobs' = jobs + 1 /\ jobs + 1 \in 1..MaxJobs
      /\ call[s] = Idle /\ call' = [call EXCEPT ![s] = [op |-> "send", job |-> job]]
      /\ UNCHANGED <<serviceVars, returned, refused, dropped, owner>>
  BY MaxJobsAssumption DEF BeginSend, IInv, TypeOK
<1>2. job \in Jobs /\ job.id = jobs + 1 /\ job.by = s
  BY <1>1 DEF Job, Jobs
<1>3. TypeOK'
  BY <1>1, <1>2 DEF IInv, TypeOK, serviceVars, Calls
<1>4. /\ call'[s] = [op |-> "send", job |-> job]
      /\ \A t \in Submitters \ {s} : call'[t] = call[t]
  BY <1>1 DEF IInv, TypeOK
<1>5. Pipeline'
  BY <1>1 DEF IInv, Pipeline, serviceVars, Chain, Ahead, AcksChain, AcksAhead
<1>6. SendingIsLast'
  <2>1. (Numbered(log) /\ Numbered(batch) /\ Numbered(queue) /\ AcksNumbered)'
    BY <1>1, Elements, JobTypes
       DEF IInv, SendingIsLast, Numbered, AcksNumbered, serviceVars, Queued
  <2>2. AheadOf(log, job) /\ AheadOf(batch, job) /\ AheadOf(queue, job) /\ AcksAheadOf(job)
    BY <1>2, Elements, JobTypes
       DEF IInv, SendingIsLast, Numbered, AcksNumbered, AheadOf, AcksAheadOf, Apart, Queued
  <2>3. ASSUME NEW t \in Submitters, call'[t].op = "send"
        PROVE  /\ call'[t].job.by = t /\ call'[t].job.id <= jobs'
               /\ AheadOf(log, call'[t].job) /\ AheadOf(batch, call'[t].job)
               /\ AheadOf(queue, call'[t].job) /\ AcksAheadOf(call'[t].job)
    <3>1. CASE t = s
      BY <3>1, <1>1, <1>2, <1>4, <2>2
    <3>2. CASE t # s
      BY <3>2, <2>3, <1>1, <1>4, Elements, JobTypes DEF IInv, SendingIsLast
    <3> QED BY <3>1, <3>2
  <2>4. ASSUME NEW t \in Submitters, NEW u \in Submitters, t # u,
               call'[t].op = "send", call'[u].op = "send"
        PROVE  call'[u].job.id # call'[t].job.id
    <3>1. CASE t = s
      BY <3>1, <2>4, <1>1, <1>2, <1>4 DEF IInv, TypeOK, SendingIsLast, Calls, Jobs, Idle
    <3>2. CASE u = s
      BY <3>2, <2>4, <1>1, <1>2, <1>4 DEF IInv, TypeOK, SendingIsLast, Calls, Jobs, Idle
    <3>3. CASE t # s /\ u # s
      BY <3>3, <2>4, <1>4 DEF IInv, SendingIsLast
    <3> QED BY <3>1, <3>2, <3>3
  <2> QED BY <2>1, <2>3, <2>4, <1>1 DEF SendingIsLast, AheadOf, AcksAheadOf, serviceVars
<1>7. Owed'
  <2>1. \A x \in Queued : Awaited(call, x) => Awaited(call', x)
    BY <1>1, <1>4, JobTypes DEF Awaited, Idle, Queued, Jobs
  <2> QED BY <2>1, <1>1, Elements DEF IInv, Owed, Queued, serviceVars
<1>8. (AcksLogged /\ Covered /\ BatchTaken /\ ReturnedIsDurable)'
  BY <1>1 DEF IInv, AcksLogged, Covered, BatchTaken, ReturnedIsDurable, serviceVars
<1>9. Accounted'
  <2>1. Sending' = Sending \cup {jobs + 1}
    BY <1>1, <1>2, <1>4 DEF Sending, Idle
  <2>2. 1..(jobs + 1) = 1..jobs \cup {jobs + 1}
    BY DEF IInv, TypeOK
  <2> QED BY <1>1, <2>1, <2>2 DEF IInv, Accounted, Ids, serviceVars
<1> QED BY <1>3, <1>5, <1>6, <1>7, <1>8, <1>9 DEF IInv

(* The send finds room: the job moves from the call to the queue. *)
LEMMA EnqueueStep ==
  ASSUME IInv, NEW s \in Submitters, Enqueue(s)
  PROVE  IInv'
<1> DEFINE job == call[s].job
           after == IF job.type = "awaited" THEN [op |-> "await", job |-> job] ELSE Idle
<1>1. /\ call[s].op = "send" /\ queue' = Append(queue, job)
      /\ call' = [call EXCEPT ![s] = after] /\ Len(queue) < Capacity
      /\ UNCHANGED <<batch, acks, commit, shutdown, synced_ok, log, durable, jobs, returned,
                     refused, dropped, owner>>
  BY QueueAssumption, Elements, LenProperties DEF Enqueue, Full, IInv, TypeOK
<1>2. job \in Jobs /\ job \in Queued /\ job # Shutdown /\ after \in Calls /\ after.op # "send"
  BY <1>1, Elements, JobTypes DEF IInv, Queued
<1>3. /\ job.by = s /\ job.id <= jobs
      /\ AheadOf(log, job) /\ AheadOf(batch, job) /\ AheadOf(queue, job) /\ AcksAheadOf(job)
  BY <1>1 DEF IInv, SendingIsLast
<1>4. /\ call'[s] = after
      /\ \A t \in Submitters \ {s} : call'[t] = call[t]
  BY <1>1 DEF IInv, TypeOK
<1>5. TypeOK'
  <2>1. queue' \in Seq(Jobs \cup {Shutdown}) /\ Len(queue') <= Capacity
    BY <1>1, <1>2, AppendElements, QueueAssumption DEF IInv, TypeOK
  <2>2. call' \in [Submitters -> Calls]
    BY <1>1, <1>2 DEF IInv, TypeOK
  <2> QED BY <1>1, <2>1, <2>2 DEF IInv, TypeOK
<1>6. Pipeline'
  <2>1. Chain(queue')
    BY <1>1, <1>2, <1>3, ChainAppend, Elements DEF IInv, Pipeline
  <2>2. Ahead(log, queue') /\ Ahead(batch, queue')
    BY <1>1, <1>2, <1>3, AheadAppend, Elements DEF IInv, Pipeline
  <2>3. AcksAhead(queue')
    BY <1>1, <1>2, <1>3, AppendElements, Elements DEF IInv, Pipeline, AcksAhead, AcksAheadOf
  <2> QED BY <1>1, <2>1, <2>2, <2>3 DEF IInv, Pipeline, AcksChain, AcksAhead
<1>7. SendingIsLast'
  <2>1. Numbered(queue)'
    BY <1>1, <1>2, <1>3, AppendElements, Elements DEF IInv, SendingIsLast, Numbered
  <2>2. ASSUME NEW t \in Submitters, call'[t].op = "send"
        PROVE  t # s /\ call'[t] = call[t] /\ AheadOf(queue', call[t].job)
    <3>1. t # s /\ call'[t] = call[t] /\ call[t].op = "send"
      BY <2>2, <1>2, <1>4
    <3>2. call[t].job \in Jobs /\ call[t].job.by = t /\ call[t].job.id # job.id
      BY <3>1, <1>1, Elements, JobTypes DEF IInv, SendingIsLast
    <3>3. Apart(job, call[t].job) /\ AheadOf(queue, call[t].job)
      BY <3>1, <3>2, <1>3 DEF IInv, SendingIsLast, Apart
    <3> QED BY <3>1, <3>3, <1>1, <1>2, AheadOfAppend, Elements DEF IInv
  <2> QED BY <1>1, <2>1, <2>2 DEF IInv, SendingIsLast, Numbered, AcksNumbered, AheadOf, AcksAheadOf
<1>8. Owed'
  <2>1. ASSUME NEW x \in Queued, Awaited(call, x) PROVE Awaited(call', x)
    <3>1. CASE x.type = "awaited" /\ x.by = s
      BY <3>1, <2>1, <1>1 DEF Awaited
    <3>2. CASE x.type = "awaited" /\ x.by # s
      BY <3>2, <2>1, <1>4, JobTypes DEF Awaited, Queued
    <3> QED BY <3>1, <3>2 DEF Awaited
  <2>2. Awaited(call', job)
    BY <1>3, <1>4 DEF Awaited
  <2>3. \A i \in DOMAIN queue' : queue'[i] = job \/ (i \in DOMAIN queue /\ queue'[i] = queue[i])
    BY <1>1, <1>2, AppendElements, Elements DEF IInv
  <2>4. \A i \in DOMAIN queue' : Awaited(call', queue'[i])
    BY <2>1, <2>2, <2>3, Elements DEF IInv, Owed
  <2>5. \A i \in DOMAIN batch : Awaited(call', batch[i])
    BY <2>1, Elements DEF IInv, Owed
  <2>6. \A i \in DOMAIN acks : Awaited(call', acks[i][1])
    BY <2>1, Elements DEF IInv, Owed, Queued
  <2> QED BY <1>1, <2>4, <2>5, <2>6 DEF Owed
<1>9. (AcksLogged /\ Covered /\ BatchTaken /\ ReturnedIsDurable)'
  BY <1>1 DEF IInv, AcksLogged, Covered, BatchTaken, ReturnedIsDurable
<1>10. Accounted'
  <2>1. Ids(queue') = Ids(queue) \cup {job.id}
    BY <1>1, <1>2, IdsAppend, Elements DEF IInv
  <2>2. Sending' \subseteq Sending /\ Sending \subseteq Sending' \cup {job.id} /\ job.id \in Sending
    BY <1>1, <1>2, <1>4 DEF Sending
  <2>3. Ids(batch') = Ids(batch) /\ Ids(log') = Ids(log)
        /\ jobs' = jobs /\ refused' = refused /\ dropped' = dropped
    BY <1>1
  <2>4. Accounted
    BY DEF IInv
  <2>5. 1..jobs' = Sending' \cup Ids(queue') \cup Ids(batch') \cup Ids(log') \cup refused' \cup dropped'
    BY ONLY <2>1, <2>2, <2>3, <2>4 DEF Accounted
  <2> QED BY <2>5 DEF Accounted, Ids
<1> QED BY <1>5, <1>6, <1>7, <1>8, <1>9, <1>10 DEF IInv

(* A job, or the Shutdown of a stopping owner, put on a queue with room    *)
(* while no call changes.                                                  *)
LEMMA Queueing ==
  ASSUME IInv, NEW job \in Queued,
         job # Shutdown => job.id = jobs + 1 /\ job.type = "besteffort" /\ call[job.by] = Idle,
         queue' = Append(queue, job), Len(queue) < Capacity,
         jobs' = IF job = Shutdown THEN jobs ELSE jobs + 1, jobs' \in 0..MaxJobs,
         owner' \in {"running", "joining"},
         UNCHANGED <<batch, acks, commit, shutdown, synced_ok, log, durable, call, returned,
                     refused, dropped>>
  PROVE  IInv'
<1>1. jobs <= jobs' /\ jobs \in Nat
  BY Elements DEF IInv
<1>2. TypeOK'
  <2>1. queue' \in Seq(Jobs \cup {Shutdown}) /\ Len(queue') <= Capacity
    BY AppendElements, QueueAssumption DEF IInv, TypeOK, Queued
  <2>2. (returned' \cup refused' \cup dropped') \subseteq 1..jobs'
    BY <1>1 DEF IInv, TypeOK
  <2> QED BY <2>1, <2>2 DEF IInv, TypeOK
<1>3. /\ AheadOf(log, job) /\ AheadOf(batch, job) /\ AheadOf(queue, job) /\ AcksAheadOf(job)
  <2>1. Numbered(log) /\ Numbered(batch) /\ Numbered(queue) /\ AcksNumbered
    BY DEF IInv, SendingIsLast
  <2>2. AheadOf(log, job)
    BY <2>1, <1>1, Elements, JobTypes DEF IInv, Numbered, AheadOf, Apart, Queued
  <2>3. AheadOf(batch, job)
    BY <2>1, <1>1, Elements, JobTypes DEF IInv, Numbered, AheadOf, Apart, Queued
  <2>4. AheadOf(queue, job)
    BY <2>1, <1>1, Elements, JobTypes DEF IInv, Numbered, AheadOf, Apart, Queued
  <2>5. AcksAheadOf(job)
    BY <2>1, <1>1, Elements, JobTypes DEF IInv, AcksNumbered, AcksAheadOf, Apart, Queued
  <2> QED BY <2>2, <2>3, <2>4, <2>5
<1>4. Pipeline'
  <2>1. Chain(queue')
    BY <1>3, ChainAppend, Elements DEF IInv, Pipeline
  <2>2. Ahead(log, queue') /\ Ahead(batch, queue')
    BY <1>3, AheadAppend, Elements DEF IInv, Pipeline
  <2>3. AcksAhead(queue')
    BY <1>3, AppendElements, Elements DEF IInv, Pipeline, AcksAhead, AcksAheadOf
  <2> QED BY <2>1, <2>2, <2>3 DEF IInv, Pipeline, AcksChain, AcksAhead
<1>5. SendingIsLast'
  <2>1. Numbered(queue)'
    BY <1>1, AppendElements, Elements, JobTypes DEF IInv, SendingIsLast, Numbered, Queued
  <2>2. (Numbered(log) /\ Numbered(batch) /\ AcksNumbered)'
    BY <1>1, Elements, JobTypes DEF IInv, SendingIsLast, Numbered, AcksNumbered, Queued
  <2>3. ASSUME NEW t \in Submitters, call[t].op = "send"
        PROVE  call[t].job.id <= jobs' /\ AheadOf(queue', call[t].job)
    <3>1. call[t].job \in Jobs /\ call[t].job.id <= jobs /\ AheadOf(queue, call[t].job)
      BY <2>3, Elements, JobTypes DEF IInv, SendingIsLast
    <3>2. Apart(job, call[t].job)
      BY <3>1, <2>3, JobTypes, Elements DEF IInv, SendingIsLast, Apart, Queued, Idle
    <3> QED BY <3>1, <3>2, <1>1, AheadOfAppend, Elements, JobTypes DEF IInv
  <2> QED BY <2>1, <2>2, <2>3 DEF IInv, SendingIsLast, AheadOf, AcksAheadOf
<1>6. Owed'
  <2>1. Awaited(call, job)
    BY JobTypes DEF Awaited
  <2>2. \A i \in DOMAIN queue' : queue'[i] = job \/ (i \in DOMAIN queue /\ queue'[i] = queue[i])
    BY AppendElements, Elements DEF IInv
  <2> QED BY <2>1, <2>2 DEF IInv, Owed
<1>7. (AcksLogged /\ Covered /\ BatchTaken /\ ReturnedIsDurable)'
  BY DEF IInv, AcksLogged, Covered, BatchTaken, ReturnedIsDurable
<1>8. Accounted'
  <2>1. Ids(queue') = IF job = Shutdown THEN Ids(queue) ELSE Ids(queue) \cup {jobs + 1}
    BY IdsAppend, Elements DEF IInv
  <2>2. 1..(jobs + 1) = 1..jobs \cup {jobs + 1}
    BY <1>1
  <2>3. Sending' = Sending
    BY DEF Sending
  <2> QED BY <2>1, <2>2, <2>3 DEF IInv, Accounted, Ids
<1> QED BY <1>2, <1>4, <1>5, <1>6, <1>7, <1>8 DEF IInv

(* append_best_effort: queued, or dropped at a full queue. *)
LEMMA BestEffortStep ==
  ASSUME IInv, NEW s \in Submitters, BestEffort(s)
  PROVE  IInv'
<1> DEFINE job == Job("besteffort", jobs + 1, s)
<1>1. /\ call[s] = Idle /\ owner = "running" /\ jobs' = jobs + 1 /\ jobs + 1 \in 1..MaxJobs
      /\ jobs \in Nat
      /\ UNCHANGED <<batch, acks, commit, shutdown, synced_ok, log, durable, call, returned,
                     refused, owner>>
  BY MaxJobsAssumption DEF BestEffort, IInv, TypeOK
<1>2. job \in Jobs /\ job.id = jobs + 1 /\ job.by = s /\ job.type = "besteffort"
  BY <1>1 DEF Job, Jobs
<1>3. CASE ~Full
  <2>1. queue' = Append(queue, job) /\ UNCHANGED dropped /\ Len(queue) < Capacity
    BY <1>3, QueueAssumption, LenProperties DEF BestEffort, Full, IInv, TypeOK
  <2>2. job \in Queued /\ job # Shutdown
    BY <1>2, JobTypes DEF Queued
  <2> HIDE DEF job
  <2> QED BY <1>1, <1>2, <2>1, <2>2, Queueing
<1>4. CASE Full
  <2>1. dropped' = dropped \cup {jobs + 1} /\ UNCHANGED queue
    BY <1>4 DEF BestEffort
  <2>2. TypeOK'
    BY <1>1, <2>1 DEF IInv, TypeOK
  <2>3. Pipeline' /\ Owed' /\ (AcksLogged /\ Covered /\ BatchTaken /\ ReturnedIsDurable)'
    BY <1>1, <2>1 DEF IInv, Pipeline, Chain, Ahead, AcksChain, AcksAhead, Owed,
                      AcksLogged, Covered, BatchTaken, ReturnedIsDurable
  <2>4. SendingIsLast'
    <3>1. (Numbered(log) /\ Numbered(batch) /\ Numbered(queue) /\ AcksNumbered)'
      BY <1>1, <2>1, Elements, JobTypes DEF IInv, SendingIsLast, Numbered, AcksNumbered, Queued
    <3>2. \A t \in Submitters : call[t].op = "send" => call[t].job.id <= jobs'
      BY <1>1, Elements, JobTypes DEF IInv, SendingIsLast
    <3> QED BY <1>1, <2>1, <3>1, <3>2 DEF IInv, SendingIsLast, AheadOf, AcksAheadOf
  <2>5. Accounted'
    <3>1. 1..(jobs + 1) = 1..jobs \cup {jobs + 1}
      BY <1>1
    <3> QED BY <1>1, <2>1, <3>1 DEF IInv, Accounted, Ids, Sending
  <2> QED BY <2>2, <2>3, <2>4, <2>5 DEF IInv
<1> QED BY <1>3, <1>4

(* Steps that leave the pipeline alone: a join, a full or drained batch    *)
(* going to its appends, an empty release going to the next recv.          *)
LEMMA IdleStep ==
  ASSUME IInv,
         UNCHANGED <<queue, batch, acks, shutdown, synced_ok, log, durable, call, jobs, returned,
                     refused, dropped>>,
         owner' \in {"running", "joining", "joined"},
         commit' \in {"recv", "drain", "append", "release", "exited"},
         commit' = "release" => commit = "release",
         commit' \in {"recv", "exited"} => batch = <<>>
  PROVE  IInv'
<1>1. TypeOK'
  BY DEF IInv, TypeOK
<1>2. Pipeline' /\ Owed' /\ (AcksLogged /\ Covered /\ BatchTaken /\ ReturnedIsDurable)'
  BY DEF IInv, Pipeline, Chain, Ahead, AcksChain, AcksAhead, Owed,
         AcksLogged, Covered, BatchTaken, ReturnedIsDurable
<1>3. SendingIsLast' /\ Accounted'
  BY DEF IInv, SendingIsLast, Numbered, AcksNumbered, AheadOf, AcksAheadOf, Accounted, Ids, Sending
<1> QED BY <1>1, <1>2, <1>3 DEF IInv

LEMMA StopStep ==
  ASSUME IInv, Stop
  PROVE  IInv'
<1>1. CASE Full
  BY <1>1, IdleStep DEF Stop, IInv, TypeOK, BatchTaken
<1>2. CASE ~Full
  <2>1. Len(queue) < Capacity /\ jobs \in 0..MaxJobs
    BY <1>2, QueueAssumption, LenProperties DEF Full, IInv, TypeOK
  <2> QED BY <1>2, <2>1, Queueing DEF Stop, Queued
<1> QED BY <1>1, <1>2

(* recv and try_recv: a job moves from the queue to the batch. *)
LEMMA TakeStep ==
  ASSUME IInv, Take, Len(batch) < MaxBatch, commit' = "drain"
  PROVE  IInv'
<1> DEFINE job == Head(queue)
<1>1. /\ queue # <<>> /\ batch' = Append(batch, job) /\ queue' = Tail(queue)
      /\ UNCHANGED <<acks, shutdown, synced_ok, log, durable, refused, call, jobs, returned,
                     dropped, owner>>
  BY DEF Take, callerVars
<1>2. job \in Queued /\ queue' \in Seq(Queued) /\ batch' \in Seq(Queued)
  BY <1>1, Elements, TailElements, AppendElements DEF IInv
<1>3. TypeOK'
  <2>1. Len(queue') <= Capacity
    BY <1>1, Elements, TailElements, QueueAssumption DEF IInv, TypeOK
  <2>2. Len(batch') <= MaxBatch
    BY <1>1, <1>2, Elements, AppendElements, QueueAssumption DEF IInv
  <2> QED BY <1>1, <1>2, <2>1, <2>2 DEF IInv, TypeOK, Queued
<1>4. /\ AheadOf(log, job) /\ AheadOf(batch, job) /\ Ahead(log, queue') /\ Ahead(batch, queue')
  BY <1>1, AheadTail, Elements DEF IInv, Pipeline
<1>5. Chain(queue') /\ \A i \in DOMAIN queue' : Apart(job, queue'[i])
  BY <1>1, ChainTail, Elements DEF IInv, Pipeline
<1>6. AcksAheadOf(job) /\ AcksAhead(queue')
  BY <1>1, TailElements, Elements DEF IInv, Pipeline, AcksAhead, AcksAheadOf
<1>7. Pipeline'
  <2>1. Chain(batch')
    BY <1>1, <1>2, <1>4, ChainAppend, Elements DEF IInv, Pipeline
  <2>2. Ahead(log, batch') /\ Ahead(batch', queue')
    BY <1>1, <1>2, <1>4, <1>5, AheadAppend, Elements DEF IInv, Pipeline
  <2>3. AcksAhead(batch')
    BY <1>1, <1>2, <1>6, AppendElements, Elements DEF IInv, Pipeline, AcksAhead, AcksAheadOf
  <2> QED BY <1>1, <1>4, <1>5, <1>6, <2>1, <2>2, <2>3 DEF IInv, Pipeline, AcksChain, AcksAhead
<1>8. SendingIsLast'
  <2>1. (Numbered(queue) /\ Numbered(batch))'
    BY <1>1, <1>2, AppendElements, TailElements, Elements DEF IInv, SendingIsLast, Numbered
  <2>2. ASSUME NEW t \in Submitters, call[t].op = "send"
        PROVE  AheadOf(queue', call[t].job) /\ AheadOf(batch', call[t].job)
    BY <2>2, <1>1, <1>2, AheadOfTail, AheadOfAppend, Elements DEF IInv, SendingIsLast
  <2> QED BY <1>1, <2>1, <2>2 DEF IInv, SendingIsLast, Numbered, AcksNumbered, AheadOf, AcksAheadOf
<1>9. Owed'
  <2>1. \A i \in DOMAIN queue' : i + 1 \in DOMAIN queue /\ queue'[i] = queue[i + 1]
    BY <1>1, TailElements, Elements DEF IInv
  <2>2. \A i \in DOMAIN batch' : batch'[i] = queue[1] \/ (i \in DOMAIN batch /\ batch'[i] = batch[i])
    BY <1>1, <1>2, AppendElements, TailElements, Elements DEF IInv
  <2>3. 1 \in DOMAIN queue
    BY <1>1, TailElements, Elements DEF IInv
  <2> QED BY <1>1, <2>1, <2>2, <2>3 DEF IInv, Owed
<1>10. (AcksLogged /\ Covered /\ BatchTaken /\ ReturnedIsDurable)'
  BY <1>1 DEF IInv, AcksLogged, Covered, BatchTaken, ReturnedIsDurable
<1>11. Accounted'
  <2>1. Ids(queue) = IF job = Shutdown THEN Ids(queue') ELSE Ids(queue') \cup {job.id}
    BY <1>1, IdsTail, Elements DEF IInv
  <2>2. Ids(batch') = IF job = Shutdown THEN Ids(batch) ELSE Ids(batch) \cup {job.id}
    BY <1>1, <1>2, IdsAppend, Elements DEF IInv
  <2>3. Ids(queue) \cup Ids(batch) = Ids(queue') \cup Ids(batch')
    BY <2>1, <2>2
  <2>4. Ids(queue)' = Ids(queue') /\ Ids(batch)' = Ids(batch') /\ Ids(log)' = Ids(log)
    BY <1>1 DEF Ids
  <2>5. Sending' = Sending
    BY <1>1 DEF Sending
  <2> QED BY <1>1, <2>3, <2>4, <2>5 DEF IInv, Accounted
<1> QED BY <1>3, <1>7, <1>8, <1>9, <1>10, <1>11 DEF IInv

(* A job leaves the batch: its record, if any, is appended to the log and  *)
(* its ack, if any, is kept; a Shutdown only sets the flag.                *)
LeavesBatch(ok) ==
  /\ commit = "append" /\ batch # <<>> /\ batch' = Tail(batch)
  /\ Head(batch) = Shutdown => UNCHANGED <<log, refused, acks>>
  /\ Head(batch) # Shutdown =>
       /\ log' = IF ok THEN Append(log, Head(batch)) ELSE log
       /\ refused' = IF ok THEN refused ELSE refused \cup {Head(batch).id}
       /\ acks' = IF IsDurable(Head(batch)) THEN Append(acks, <<Head(batch), ok>>) ELSE acks
  /\ shutdown' \in BOOLEAN
  /\ UNCHANGED <<queue, commit, synced_ok, durable, call, jobs, returned, dropped, owner>>

LEMMA LeaveBatch ==
  ASSUME IInv, NEW ok \in BOOLEAN, LeavesBatch(ok)
  PROVE  IInv'
<1> DEFINE job == Head(batch)
<1>0. /\ batch # <<>> /\ batch' = Tail(batch) /\ commit' = commit /\ commit = "append"
      /\ queue' = queue /\ call' = call /\ jobs' = jobs /\ durable' = durable
      /\ returned' = returned /\ dropped' = dropped /\ owner' = owner
      /\ synced_ok' = synced_ok /\ shutdown' \in BOOLEAN
  BY DEF LeavesBatch
<1>1. /\ job \in Queued /\ batch' \in Seq(Queued) /\ Len(batch') <= MaxBatch
      /\ job # Shutdown => job \in Jobs /\ job.id \in 1..jobs
  <2>1. Numbered(batch) /\ job = batch[1] /\ 1 \in DOMAIN batch
    BY <1>0, TailElements, Elements DEF IInv, SendingIsLast
  <2>2. Len(batch) \in Nat /\ Len(batch') = Len(batch) - 1 /\ Len(batch) <= MaxBatch
    BY <1>0, TailElements, Elements DEF IInv, TypeOK
  <2>3. job \in Queued /\ batch' \in Seq(Queued)
    BY <1>0, TailElements, Elements DEF IInv
  <2>4. job # Shutdown => job \in Jobs /\ job.id <= jobs
    BY <2>1, <2>3 DEF Queued, Numbered
  <2> QED BY <2>2, <2>3, <2>4, QueueAssumption, Elements DEF IInv, Jobs
<1>2. /\ log \in Seq(Jobs) /\ acks \in Seq(Jobs \X BOOLEAN) /\ durable \in 0..Len(log)
  BY DEF IInv, TypeOK
<1>3. /\ log' \in Seq(Jobs) /\ Len(log) \in Nat /\ Len(log') \in Nat /\ Len(log) <= Len(log')
      /\ DOMAIN log = 1..Len(log) /\ DOMAIN log' = 1..Len(log')
      /\ \A i \in DOMAIN log : i \in DOMAIN log' /\ log'[i] = log[i]
      /\ \A i \in DOMAIN log' : i \in DOMAIN log \/ (i = Len(log) + 1 /\ log'[i] = job)
      /\ ok /\ job # Shutdown => \E i \in DOMAIN log' : log'[i] = job
  <2>1. CASE job # Shutdown /\ ok
    <3>1. log' = Append(log, job) /\ job \in Jobs
      BY <2>1, <1>1 DEF LeavesBatch
    <3> HIDE DEF job
    <3>2. /\ log' \in Seq(Jobs) /\ Len(log) \in Nat /\ Len(log') = Len(log) + 1
          /\ DOMAIN log = 1..Len(log) /\ DOMAIN log' = 1..(Len(log) + 1)
          /\ \A i \in DOMAIN log : log'[i] = log[i]
          /\ log'[Len(log) + 1] = job
      BY <1>2, <3>1, AppendElements
    <3> QED BY <3>2
  <2>2. CASE ~(job # Shutdown /\ ok)
    <3>1. log' = log
      BY <2>2 DEF LeavesBatch
    <3> QED BY <1>2, <2>2, <3>1, LenProperties
  <2> QED BY <2>1, <2>2
<1>4. /\ acks' \in Seq(Jobs \X BOOLEAN) /\ Len(acks) \in Nat /\ DOMAIN acks = 1..Len(acks)
      /\ \A i \in DOMAIN acks' :
           \/ i \in DOMAIN acks /\ acks'[i] = acks[i]
           \/ i = Len(acks) + 1 /\ job # Shutdown /\ acks'[i][1] = job /\ acks'[i][2] = ok
  <2>1. CASE job # Shutdown /\ IsDurable(job)
    <3>1. <<job, ok>> \in Jobs \X BOOLEAN /\ acks' = Append(acks, <<job, ok>>)
      BY <2>1, <1>1 DEF LeavesBatch
    <3> DEFINE ack == <<job, ok>>
    <3>2. ack[1] = job /\ ack[2] = ok
      OBVIOUS
    <3> HIDE DEF ack, job
    <3>3. /\ acks' \in Seq(Jobs \X BOOLEAN) /\ Len(acks) \in Nat
          /\ DOMAIN acks = 1..Len(acks) /\ DOMAIN acks' = 1..(Len(acks) + 1)
          /\ \A i \in DOMAIN acks : acks'[i] = acks[i]
          /\ acks'[Len(acks) + 1] = ack
      BY <1>2, <3>1, AppendElements DEF ack
    <3> QED BY <2>1, <3>2, <3>3
  <2>2. CASE ~(job # Shutdown /\ IsDurable(job))
    <3>1. acks' = acks
      BY <2>2 DEF LeavesBatch
    <3> QED BY <1>2, <2>2, <3>1, LenProperties
  <2> QED BY <2>1, <2>2
<1>5. TypeOK'
  <2>1. (returned' \cup refused' \cup dropped') \subseteq 1..jobs'
    BY <1>0, <1>1 DEF IInv, TypeOK, LeavesBatch
  <2>2. durable' \in 0..Len(log')
    BY <1>0, <1>2, <1>3
  <2> QED BY <1>0, <1>1, <1>3, <1>4, <2>1, <2>2 DEF IInv, TypeOK, Queued
<1>6. Chain(batch') /\ \A i \in DOMAIN batch' : Apart(job, batch'[i])
  BY <1>0, ChainTail, Elements DEF IInv, Pipeline
<1>7. /\ Ahead(batch', queue) /\ \A k \in DOMAIN queue : Apart(job, queue[k])
      /\ Ahead(log, batch') /\ AheadOf(log, job)
  BY <1>0, AheadTail, Elements DEF IInv, Pipeline
<1>8. AcksAheadOf(job) /\ AcksAhead(batch')
  BY <1>0, TailElements, Elements DEF IInv, Pipeline, AcksAhead, AcksAheadOf
<1>9. Pipeline'
  <2> HIDE DEF job
  <2>1. Pipeline
    BY DEF IInv
  <2>2. Chain(log')
    BY <1>3, <1>7, <2>1 DEF Pipeline, Chain, AheadOf
  <2>3. Ahead(log', batch') /\ Ahead(log', queue)
    BY <1>3, <1>6, <1>7, <2>1 DEF Pipeline, Ahead
  <2>4. AcksChain'
    BY <1>4, <1>8, <2>1 DEF Pipeline, AcksChain, AcksAheadOf
  <2>5. AcksAhead(batch)' /\ AcksAhead(queue)'
    BY <1>4, <1>6, <1>7, <1>8, <1>0, <2>1 DEF Pipeline, AcksAhead
  <2> QED BY <1>6, <1>7, <1>0, <2>1, <2>2, <2>3, <2>4, <2>5 DEF Pipeline
<1>10. SendingIsLast'
  <2>1. SendingIsLast
    BY DEF IInv
  <2>2. Numbered(batch)' /\ (job # Shutdown => job.id <= jobs)
    BY <1>0, <2>1, TailElements, Elements DEF IInv, SendingIsLast, Numbered
  <2>3. ASSUME NEW t \in Submitters, call[t].op = "send"
        PROVE  AheadOf(batch', call[t].job) /\ Apart(job, call[t].job)
    BY <1>0, <2>1, <2>3, AheadOfTail, Elements DEF IInv, SendingIsLast
  <2> HIDE DEF job
  <2>4. Numbered(log)' /\ Numbered(queue)' /\ AcksNumbered'
    BY <1>3, <1>4, <1>0, <2>1, <2>2 DEF SendingIsLast, Numbered, AcksNumbered
  <2>5. ASSUME NEW t \in Submitters, call[t].op = "send"
        PROVE  AheadOf(log', call[t].job) /\ AcksAheadOf(call[t].job)'
    <3>1. /\ AheadOf(log, call[t].job) /\ AcksAheadOf(call[t].job)
          /\ Apart(job, call[t].job) /\ call' = call
      BY <1>0, <2>1, <2>3, <2>5 DEF SendingIsLast
    <3>2. AheadOf(log', call[t].job)
      BY <3>1, <1>3 DEF AheadOf
    <3>3. AcksAheadOf(call[t].job)'
      BY <3>1, <1>4 DEF AcksAheadOf
    <3> QED BY <3>2, <3>3
  <2> QED BY <1>0, <2>1, <2>2, <2>3, <2>4, <2>5 DEF SendingIsLast, AheadOf, AcksAheadOf
<1>11. Owed'
  <2>1. \A i \in DOMAIN batch' : i + 1 \in DOMAIN batch /\ batch'[i] = batch[i + 1]
    BY <1>0, TailElements, Elements DEF IInv
  <2>2. Awaited(call, job)
    BY <1>0, TailElements, Elements DEF IInv, Owed
  <2> HIDE DEF job
  <2> QED BY <1>4, <1>0, <2>1, <2>2 DEF IInv, Owed
<1>12. (AcksLogged /\ Covered /\ BatchTaken)'
  <2> HIDE DEF job
  <2>1. AcksLogged
    BY DEF IInv
  <2>2. AcksLogged'
    BY <1>3, <1>4, <2>1 DEF AcksLogged
  <2> QED BY <1>0, <2>2 DEF Covered, BatchTaken
<1>13. ReturnedIsDurable'
  <2>1. \A k \in 1..durable : log'[k] = log[k]
    BY <1>2, <1>3
  <2> QED BY <1>0, <2>1 DEF IInv, ReturnedIsDurable
<1>14. Accounted'
  <2>1. Ids(batch) = IF job = Shutdown THEN Ids(batch') ELSE Ids(batch') \cup {job.id}
    BY <1>0, IdsTail, Elements DEF IInv
  <2>2. Ids(log') = IF job # Shutdown /\ ok THEN Ids(log) \cup {job.id} ELSE Ids(log)
    BY <1>1, IdsAppend, Elements DEF IInv, LeavesBatch
  <2>3. refused' = IF job # Shutdown /\ ~ok THEN refused \cup {job.id} ELSE refused
    BY DEF LeavesBatch
  <2> HIDE DEF job
  <2>4. Accounted /\ Sending' = Sending
    BY <1>0 DEF IInv, Sending
  <2>5. Ids(batch)' = Ids(batch') /\ Ids(log)' = Ids(log') /\ Ids(queue)' = Ids(queue)
    BY <1>0 DEF Ids
  <2> QED BY <2>1, <2>2, <2>3, <2>4, <2>5, <1>0 DEF Accounted
<1> QED BY <1>5, <1>9, <1>10, <1>11, <1>12, <1>13, <1>14 DEF IInv

LEMMA AppendStep ==
  ASSUME IInv, AppendNext \/ NoteShutdown
  PROVE  IInv'
<1>1. CASE AppendNext
  <2>1. PICK ok \in BOOLEAN : LeavesBatch(ok)
    BY <1>1 DEF AppendNext, callerVars, IInv, TypeOK, LeavesBatch
  <2> QED BY <2>1, LeaveBatch
<1>2. CASE NoteShutdown
  <2>1. LeavesBatch(TRUE)
    BY <1>2 DEF NoteShutdown, callerVars, LeavesBatch
  <2> QED BY <2>1, LeaveBatch
<1> QED BY <1>1, <1>2

(* The sync of the batch: on success it covers the whole log. *)
LEMMA SyncStep ==
  ASSUME IInv, SyncBatch
  PROVE  IInv'
<1>1. /\ batch = <<>> /\ synced_ok' \in BOOLEAN /\ commit' = "release"
      /\ durable' = IF synced_ok' THEN Len(log) ELSE durable
      /\ UNCHANGED <<queue, batch, acks, shutdown, log, refused, call, jobs, returned, dropped, owner>>
  BY DEF SyncBatch, callerVars
<1>2. durable' \in 0..Len(log) /\ durable \in 0..Len(log) /\ durable <= durable'
  BY <1>1, Elements DEF IInv, TypeOK
<1>3. TypeOK'
  BY <1>1, <1>2 DEF IInv, TypeOK
<1>4. Pipeline' /\ Owed' /\ (AcksLogged /\ Covered /\ BatchTaken)'
  BY <1>1 DEF IInv, Pipeline, Chain, Ahead, AcksChain, AcksAhead, Owed,
              AcksLogged, Covered, BatchTaken
<1>5. SendingIsLast' /\ Accounted'
  BY <1>1 DEF IInv, SendingIsLast, Numbered, AcksNumbered, AheadOf, AcksAheadOf,
              Accounted, Ids, Sending
<1>6. ReturnedIsDurable'
  <2>1. \A k \in 1..durable : k \in 1..durable'
    BY <1>2
  <2> QED BY <1>1, <2>1 DEF IInv, ReturnedIsDurable
<1> QED BY <1>3, <1>4, <1>5, <1>6 DEF IInv

(* One ack goes out.  The call it ends waits for this very job, so no job  *)
(* still being sent is forgotten, and no other ack is owed to that caller. *)
LEMMA ReleaseStep ==
  ASSUME IInv, Release
  PROVE  IInv'
<1> DEFINE job == Head(acks)[1]
           ok == FinalResult(Head(acks))
<1>1. /\ acks # <<>> /\ acks' = Tail(acks) /\ commit = "release"
      /\ UNCHANGED <<queue, batch, commit, shutdown, synced_ok, log, durable, jobs, refused,
                     dropped, owner>>
      /\ returned' = IF ok /\ job.type = "awaited" THEN returned \cup {job.id} ELSE returned
      /\ call' = IF job.type = "awaited" THEN [call EXCEPT ![job.by] = Idle] ELSE call
  BY DEF Release
<1>2. /\ acks' \in Seq(Jobs \X BOOLEAN) /\ Head(acks) = acks[1] /\ 1 \in DOMAIN acks
      /\ \A i \in DOMAIN acks' : i + 1 \in DOMAIN acks /\ acks'[i] = acks[i + 1] /\ i \in Nat \ {0}
  BY <1>1, TailElements DEF IInv, TypeOK
<1>3. job \in Jobs /\ job.by \in Submitters /\ job.id \in 1..jobs
  BY <1>2, Elements, JobTypes DEF IInv, SendingIsLast, AcksNumbered, Jobs
<1>4. job.type = "awaited" => call[job.by] = [op |-> "await", job |-> job]
  BY <1>2 DEF IInv, Owed, Awaited
<1>5. TypeOK'
  <2>1. call' \in [Submitters -> Calls]
    BY <1>1, <1>3, JobTypes DEF IInv, TypeOK
  <2>2. returned' \subseteq 1..jobs
    BY <1>1, <1>3 DEF IInv, TypeOK
  <2> QED BY <1>1, <1>2, <2>1, <2>2 DEF IInv, TypeOK
<1>6. \A t \in Submitters : call'[t].op = "send" <=> call[t].op = "send"
  BY <1>1, <1>3, <1>4 DEF IInv, TypeOK, Idle
<1>7. \A t \in Submitters : call[t].op = "send" => call'[t] = call[t]
  BY <1>1, <1>3, <1>4 DEF IInv, TypeOK
<1> HIDE DEF job, ok
<1>8. Pipeline'
  <2>1. AcksChain' /\ AcksAhead(batch)' /\ AcksAhead(queue)'
    BY <1>1, <1>2 DEF IInv, Pipeline, AcksChain, AcksAhead
  <2> QED BY <1>1, <2>1 DEF IInv, Pipeline, Chain, Ahead
<1>9. SendingIsLast'
  <2>1. AcksNumbered'
    BY <1>1, <1>2 DEF IInv, SendingIsLast, AcksNumbered
  <2>2. \A x : AcksAheadOf(x) => AcksAheadOf(x)'
    BY <1>2 DEF AcksAheadOf
  <2>3. (Numbered(log) /\ Numbered(batch) /\ Numbered(queue))'
    BY <1>1 DEF IInv, SendingIsLast, Numbered
  <2> QED BY <1>1, <1>6, <1>7, <2>1, <2>2, <2>3 DEF IInv, SendingIsLast, AheadOf, AcksAheadOf
<1>10. Owed'
  <2>1. ASSUME NEW x \in Queued, Awaited(call, x), Apart(job, x) PROVE Awaited(call', x)
    <3>1. CASE x.type = "awaited" /\ job.type = "awaited" /\ x.by = job.by
      <4>1. x = job
        BY <3>1, <1>4, <2>1 DEF Awaited
      <4> QED BY <4>1, <2>1, <1>3, JobTypes DEF Apart
    <3>2. CASE ~(x.type = "awaited" /\ job.type = "awaited" /\ x.by = job.by)
      BY <3>2, <2>1, <1>1, <1>3, JobTypes DEF Awaited, IInv, TypeOK, Queued
    <3> QED BY <3>1, <3>2
  <2>2. /\ \A i \in DOMAIN queue : Apart(job, queue[i])
        /\ \A i \in DOMAIN batch : Apart(job, batch[i])
        /\ \A i \in DOMAIN acks' : Apart(job, acks'[i][1])
    BY <1>2 DEF IInv, Pipeline, AcksAhead, AcksChain, job
  <2>3. \A i \in DOMAIN acks' : acks'[i][1] \in Queued /\ Awaited(call, acks'[i][1])
    BY <1>2, Elements DEF IInv, Owed, Queued
  <2> QED BY <1>1, <2>1, <2>2, <2>3, Elements DEF IInv, Owed
<1>11. (AcksLogged /\ Covered /\ BatchTaken)'
  BY <1>1, <1>2 DEF IInv, AcksLogged, Covered, BatchTaken
<1>12. ReturnedIsDurable'
  <2>1. ok => \E k \in 1..durable : log[k].id = job.id
    <3>1. ok => synced_ok /\ acks[1][2]
      BY <1>2 DEF ok, FinalResult
    <3>2. ok => \E k \in DOMAIN log : log[k] = job
      BY <1>2, <3>1 DEF IInv, AcksLogged, job
    <3>3. ok => DOMAIN log = 1..durable
      BY <1>1, <3>1, LenProperties DEF IInv, TypeOK, Covered
    <3> QED BY <3>2, <3>3
  <2> QED BY <1>1, <2>1 DEF IInv, ReturnedIsDurable
<1>13. Accounted'
  <2>1. Sending' = Sending
    BY <1>6, <1>7 DEF Sending
  <2>2. Ids(queue)' = Ids(queue) /\ Ids(batch)' = Ids(batch) /\ Ids(log)' = Ids(log)
    BY <1>1 DEF Ids
  <2> QED BY <1>1, <2>1, <2>2 DEF IInv, Accounted
<1> QED BY <1>5, <1>8, <1>9, <1>10, <1>11, <1>12, <1>13 DEF IInv

LEMMA NextIInv == IInv /\ [Next]_vars => IInv'
<1> SUFFICES ASSUME IInv, [Next]_vars PROVE IInv'
  OBVIOUS
<1>1. ASSUME NEW s \in Submitters, NEW type \in {"awaited", "detached"}, BeginSend(s, type)
      PROVE  IInv'
  BY <1>1, BeginSendStep
<1>2. ASSUME NEW s \in Submitters, Enqueue(s) PROVE IInv'
  BY <1>2, EnqueueStep
<1>3. ASSUME NEW s \in Submitters, BestEffort(s) PROVE IInv'
  BY <1>3, BestEffortStep
<1>4. CASE Stop
  BY <1>4, StopStep
<1>5. CASE Joined
  BY <1>5, IdleStep DEF Joined, serviceVars, IInv, TypeOK, BatchTaken
<1>6. CASE Recv
  <2>1. Len(batch) < MaxBatch
    BY <1>6, QueueAssumption, EmptySeq DEF Recv, IInv, BatchTaken
  <2> QED BY <1>6, <2>1, TakeStep DEF Recv
<1>7. CASE TryRecv
  BY <1>7, TakeStep DEF TryRecv
<1>8. CASE EndDrain
  BY <1>8, IdleStep DEF EndDrain, callerVars, IInv, TypeOK
<1>9. CASE AppendNext \/ NoteShutdown
  BY <1>9, AppendStep
<1>10. CASE SyncBatch
  BY <1>10, SyncStep
<1>11. CASE Release
  BY <1>11, ReleaseStep
<1>12. CASE EndBatch
  BY <1>12, IdleStep DEF EndBatch, callerVars, IInv, TypeOK, BatchTaken
<1>13. CASE UNCHANGED vars
  BY <1>13, IdleStep DEF vars, serviceVars, IInv, TypeOK, BatchTaken
<1> QED BY <1>1, <1>2, <1>3, <1>4, <1>5, <1>6, <1>7, <1>8, <1>9, <1>10, <1>11, <1>12, <1>13
        DEF Next, CommitThread

-----------------------------------------------------------------------------
(* IInv is an invariant of the service. *)
THEOREM InductiveInvariant == Spec => []IInv
BY InitIInv, NextIInv, PTL DEF Spec

(* The queue never exceeds its capacity nor a batch its limit, and every   *)
(* job, ack and call has its declared shape.                               *)
THEOREM TypeCorrect == Spec => []TypeOK
<1>1. IInv => TypeOK
  BY DEF IInv
<1> QED BY InductiveInvariant, <1>1, PTL

(* service.rs "it returns only after the commit thread has fdatasync'd the *)
(* batch": whatever rev append_durable has returned is under the synced    *)
(* part of the log.                                                        *)
THEOREM DurableBeforeReturn == Spec => []ReturnedIsDurable
<1>1. IInv => ReturnedIsDurable
  BY DEF IInv
<1> QED BY InductiveInvariant, <1>1, PTL

(* service.rs "Must never be lost": every job submitted is on its way, in  *)
(* the log exactly once, refused by a failed append, or a best-effort      *)
(* record dropped at a full queue.                                         *)
THEOREM NoJobLost == Spec => []NothingLost
<1>1. ASSUME IInv PROVE NothingLost
  <2>1. \A i, k \in DOMAIN log : log[i].id = log[k].id => i = k
    <3> SUFFICES ASSUME NEW i \in DOMAIN log, NEW k \in DOMAIN log, log[i].id = log[k].id, i # k
                 PROVE  FALSE
      OBVIOUS
    <3>1. i \in Nat /\ k \in Nat /\ log[i] # Shutdown /\ log[k] # Shutdown
      BY <1>1, Elements, JobTypes, LenProperties DEF IInv, TypeOK
    <3>2. Chain(log)
      BY <1>1 DEF IInv, Pipeline
    <3> QED BY <3>1, <3>2 DEF Chain, Apart
  <2> QED BY <1>1, <2>1 DEF IInv, Accounted, NothingLost
<1>2. IInv => NothingLost
  BY <1>1
<1> QED BY InductiveInvariant, <1>2, PTL

(* The records of one submitter reach the log in the order it submitted    *)
(* them, whichever of the three calls it used for each.                    *)
THEOREM OrderKept == Spec => []SubmitOrder
<1>1. ASSUME IInv PROVE SubmitOrder
  BY <1>1, Elements, JobTypes DEF IInv, Pipeline, Chain, Apart, SubmitOrder
<1>2. IInv => SubmitOrder
  BY <1>1
<1> QED BY InductiveInvariant, <1>2, PTL

-----------------------------------------------------------------------------
(* Once the owner stops, nothing is sent any more; the Shutdown is the last *)
(* job of the queue, then of the last batch, and the thread that has heard  *)
(* it exits behind a sync that covers the log.                              *)
LastJob(s) == \A i \in 1..Len(s) : s[i] = Shutdown => i = Len(s)
Told(s) == \E i \in 1..Len(s) : s[i] = Shutdown

Closing ==
  /\ owner # "running" => \A s \in Submitters : call[s] = Idle
  /\ Told(queue) \/ Told(batch) \/ shutdown \/ commit = "exited" => owner # "running"
  /\ LastJob(queue) /\ LastJob(batch)
  /\ Told(batch) \/ shutdown => queue = <<>>
  /\ shutdown => batch = <<>>
  /\ commit = "exited" => shutdown /\ (synced_ok => durable = Len(log))

LEMMA JobAdded ==
  ASSUME NEW q \in Seq(Queued), NEW e \in Queued, ~Told(q)
  PROVE  /\ LastJob(Append(q, e))
         /\ Told(Append(q, e)) <=> e = Shutdown
<1>1. /\ Len(Append(q, e)) = Len(q) + 1 /\ Len(q) \in Nat
      /\ \A i \in 1..Len(q) : Append(q, e)[i] = q[i] /\ q[i] # Shutdown
      /\ Append(q, e)[Len(q) + 1] = e
  BY AppendElements DEF Told
<1> QED BY <1>1 DEF LastJob, Told

LEMMA JobTaken ==
  ASSUME NEW q \in Seq(Queued), q # <<>>, LastJob(q)
  PROVE  /\ Tail(q) \in Seq(Queued) /\ Head(q) \in Queued /\ LastJob(Tail(q))
         /\ Told(Tail(q)) => Told(q)
         /\ Head(q) = Shutdown => Told(q) /\ Tail(q) = <<>>
<1>1. /\ Tail(q) \in Seq(Queued) /\ Head(q) \in Queued /\ Head(q) = q[1]
      /\ Len(q) \in Nat \ {0} /\ Len(Tail(q)) = Len(q) - 1
      /\ \A i \in 1..(Len(q) - 1) : i + 1 \in 1..Len(q) /\ Tail(q)[i] = q[i + 1]
  BY TailElements
<1>2. ASSUME NEW i \in 1..Len(Tail(q)), Tail(q)[i] = Shutdown
      PROVE  i = Len(Tail(q)) /\ Told(q)
  <2>1. i + 1 \in 1..Len(q) /\ q[i + 1] = Shutdown /\ i \in Nat
    BY <1>1, <1>2
  <2>2. i + 1 = Len(q)
    BY <2>1 DEF LastJob
  <2>3. Told(q)
    BY <2>1 DEF Told
  <2>4. i = Len(Tail(q))
    <3>1. Len(Tail(q)) = Len(q) - 1 /\ Len(q) \in Nat
      BY <1>1
    <3>2. \A m, n \in Nat : m + 1 = n => m = n - 1
      OBVIOUS
    <3> QED BY ONLY <2>1, <2>2, <3>1, <3>2, Zenon
  <2> QED BY <2>3, <2>4
<1>3. ASSUME Head(q) = Shutdown PROVE Told(q) /\ Len(Tail(q)) = 0
  <2>1. 1 \in 1..Len(q) /\ q[1] = Shutdown
    BY <1>1, <1>3
  <2>2. Told(q) /\ Len(q) = 1
    BY <2>1 DEF LastJob, Told
  <2> QED BY <2>2, <1>1
<1>4. Len(Tail(q)) = 0 => Tail(q) = <<>>
  BY <1>1, EmptySeq
<1>5. LastJob(Tail(q)) /\ (Told(Tail(q)) => Told(q))
  BY <1>2 DEF LastJob, Told
<1> QED BY <1>1, <1>3, <1>4, <1>5

LEMMA NoneTold == ~Told(<<>>) /\ LastJob(<<>>)
BY DEF Told, LastJob

LEMMA ClosingTake ==
  ASSUME TypeOK, Closing, Take, commit \in {"recv", "drain"}, commit' = "drain"
  PROVE  Closing'
<1>1. /\ queue \in Seq(Queued) /\ batch \in Seq(Queued) /\ queue # <<>>
      /\ batch' = Append(batch, Head(queue)) /\ queue' = Tail(queue)
      /\ UNCHANGED <<shutdown, synced_ok, log, durable, call, owner>>
  BY DEF TypeOK, Take, Queued, callerVars
<1>2. LastJob(queue) /\ ~Told(batch) /\ ~shutdown
  BY <1>1 DEF Closing
<1>3. /\ Head(queue) \in Queued /\ LastJob(queue') /\ (Told(queue') => Told(queue))
      /\ Head(queue) = Shutdown => Told(queue) /\ queue' = <<>>
  BY <1>1, <1>2, JobTaken
<1>4. LastJob(batch') /\ (Told(batch') <=> Head(queue) = Shutdown)
  BY <1>1, <1>2, <1>3, JobAdded
<1> QED BY <1>1, <1>2, <1>3, <1>4 DEF Closing

LEMMA ClosingStep ==
  ASSUME IInv, Closing, [Next]_vars
  PROVE  Closing'
<1>t. /\ TypeOK /\ queue \in Seq(Queued) /\ batch \in Seq(Queued)
  BY DEF IInv, TypeOK, Queued
<1>1. ASSUME NEW s \in Submitters, NEW type \in {"awaited", "detached"}, BeginSend(s, type)
      PROVE  Closing'
  BY <1>1 DEF BeginSend, serviceVars, Closing
<1>2. ASSUME NEW s \in Submitters, Enqueue(s) PROVE Closing'
  <2>1. /\ call[s].op = "send" /\ queue' = Append(queue, call[s].job)
        /\ UNCHANGED <<batch, commit, shutdown, synced_ok, log, durable, owner>>
    BY <1>2 DEF Enqueue
  <2>2. call[s] # Idle /\ call[s].job \in Jobs
    BY <1>t, <2>1 DEF TypeOK, Calls, Idle
  <2>3. owner = "running"
    BY <2>2 DEF Closing
  <2>4. ~Told(queue) /\ ~Told(batch) /\ ~shutdown /\ commit # "exited" /\ LastJob(batch)
    BY <2>3 DEF Closing
  <2>5. call[s].job # Shutdown /\ call[s].job \in Queued
    BY <2>2, JobTypes DEF Queued
  <2>6. LastJob(queue') /\ ~Told(queue')
    BY <1>t, <2>1, <2>4, <2>5, JobAdded
  <2> QED BY <2>1, <2>3, <2>4, <2>6 DEF Closing
<1>3. ASSUME NEW s \in Submitters, BestEffort(s) PROVE Closing'
  <2>1. /\ owner = "running" /\ UNCHANGED <<batch, commit, shutdown, synced_ok, log, durable, owner>>
        /\ queue' = queue \/ queue' = Append(queue, Job("besteffort", jobs + 1, s))
    BY <1>3 DEF BestEffort
  <2>2. ~Told(queue) /\ ~Told(batch) /\ ~shutdown /\ commit # "exited" /\ LastJob(batch) /\ LastJob(queue)
    BY <2>1 DEF Closing
  <2>3. Job("besteffort", jobs + 1, s) \in Queued /\ Job("besteffort", jobs + 1, s) # Shutdown
    <3>1. jobs + 1 \in 1..MaxJobs
      BY <1>3, <1>t, MaxJobsAssumption DEF BestEffort, TypeOK
    <3>2. Job("besteffort", jobs + 1, s) \in Jobs
      BY <3>1 DEF Job, Jobs
    <3> QED BY <3>2, JobTypes DEF Queued
  <2>4. LastJob(queue') /\ ~Told(queue')
    BY <1>t, <2>1, <2>2, <2>3, JobAdded
  <2> QED BY <2>1, <2>2, <2>4 DEF Closing
<1>4. CASE Stop
  <2>1. /\ owner = "running" /\ owner' = "joining" /\ \A s \in Submitters : call[s] = Idle
        /\ queue' = queue \/ queue' = Append(queue, Shutdown)
        /\ UNCHANGED <<batch, commit, shutdown, synced_ok, log, durable, call>>
    BY <1>4 DEF Stop
  <2>2. ~Told(queue) /\ ~Told(batch) /\ ~shutdown /\ commit # "exited" /\ LastJob(batch) /\ LastJob(queue)
    BY <2>1 DEF Closing
  <2>3. LastJob(queue')
    BY <1>t, <2>1, <2>2, JobAdded DEF Queued
  <2> QED BY <2>1, <2>2, <2>3 DEF Closing
<1>5. CASE Joined
  BY <1>5 DEF Joined, serviceVars, Closing
<1>6. CASE Recv
  BY <1>6, <1>t, ClosingTake DEF Recv
<1>7. CASE TryRecv
  BY <1>7, <1>t, ClosingTake DEF TryRecv
<1>8. CASE EndDrain
  BY <1>8 DEF EndDrain, callerVars, Closing
<1>9. CASE AppendNext \/ NoteShutdown
  <2>1. /\ commit = "append" /\ batch # <<>> /\ batch' = Tail(batch)
        /\ UNCHANGED <<queue, commit, call, owner>>
        /\ shutdown' = (shutdown \/ Head(batch) = Shutdown)
    BY <1>9, <1>t DEF AppendNext, NoteShutdown, callerVars, TypeOK
  <2>2. ~shutdown /\ LastJob(batch) /\ LastJob(queue)
    BY <2>1 DEF Closing
  <2>3. /\ LastJob(batch') /\ (Told(batch') => Told(batch))
        /\ Head(batch) = Shutdown => Told(batch) /\ batch' = <<>>
    BY <1>t, <2>1, <2>2, JobTaken
  <2> QED BY <2>1, <2>2, <2>3 DEF Closing
<1>10. CASE SyncBatch
  BY <1>10 DEF SyncBatch, callerVars, Closing
<1>11. CASE Release
  <2>1. \A s \in Submitters : call[s] = Idle => call'[s] = Idle
    BY <1>11, <1>t DEF Release, TypeOK
  <2> QED BY <1>11, <2>1 DEF Release, Closing
<1>12. CASE EndBatch
  <2>1. /\ commit = "release" /\ commit' = IF shutdown THEN "exited" ELSE "recv"
        /\ UNCHANGED <<queue, batch, shutdown, synced_ok, log, durable, call, owner>>
    BY <1>12 DEF EndBatch, callerVars
  <2>2. synced_ok => durable = Len(log)
    BY <2>1 DEF IInv, Covered
  <2> QED BY <2>1, <2>2 DEF Closing
<1>13. CASE UNCHANGED vars
  BY <1>13 DEF vars, serviceVars, Closing
<1> QED BY <1>1, <1>2, <1>3, <1>4, <1>5, <1>6, <1>7, <1>8, <1>9, <1>10, <1>11, <1>12, <1>13
        DEF Next, CommitThread

(* service.rs "the final batch is still synced": when the commit thread has *)
(* exited nothing is left in the channel or in a batch, and unless the last *)
(* sync failed the log is durable to its end, whatever was sent before the  *)
(* Service was dropped.                                                     *)
THEOREM ExitLeavesNothing == Spec => []DrainedAtExit
<1>1. Init => Closing
  BY NoneTold DEF Init, Closing
<1>2. IInv /\ Closing /\ [Next]_vars => Closing'
  BY ClosingStep
<1>3. IInv /\ Closing => DrainedAtExit
  BY DEF Closing, DrainedAtExit
<1> QED BY <1>1, <1>2, <1>3, InductiveInvariant, PTL DEF Spec
=============================================================================
