---------------------- MODULE PersistenceWriterProofs ----------------------
(***************************************************************************)
(* Saving and loading for any number of messages, saves and kills.         *)
(*                                                                         *)
(* Three arguments meet.  A body belongs to one uid for good, and within   *)
(* one life a uid to one body, because the counter it is drawn from is     *)
(* read back from a config.json that covers every list on the disk.  A     *)
(* list that is on its way to the disk is behind the messages it names.    *)
(* And the newest batch on its way, or the disk if there is none, says     *)
(* what memory says.                                                       *)
(***************************************************************************)
EXTENDS PersistenceWriter, FiniteSetTheorems, SequenceTheorems, WellFoundedInduction, TLAPS

-----------------------------------------------------------------------------
(* Who says that uid u is the message with body b *)

InChat(u, b) == \E i \in DOMAIN mem.chat : mem.chat[i].uid = u /\ mem.chat[i].body = b
InHistory(u, b) ==
    \E p \in DOMAIN mem.history : \E i \in DOMAIN mem.history[p] :
        mem.history[p][i].uid = u /\ mem.history[p][i].body = b
FileOp(s, u, b) == \E k \in DOMAIN s : s[k].kind = "message" /\ s[k].uid = u /\ s[k].val = b
Stored(u, b) == u \in Uids /\ b \in Bodies /\ disk.message[u] = b

Queued(u, b) ==
    \/ FileOp(exec, u, b) \/ FileOp(messages, u, b) \/ FileOp(batch, u, b) \/ FileOp(mainOps, u, b)
    \/ \E i \in DOMAIN chan : FileOp(chan[i].ops, u, b)
Filed(u, b) == InHistory(u, b) \/ Queued(u, b) \/ Stored(u, b)
Knows(u, b) == InChat(u, b) \/ InHistory(u, b) \/ Queued(u, b)

(* A body has one uid for good, and only bodies handed over have files.    *)
Bound ==
    /\ handed \cup removed \subseteq 1 .. made
    /\ \A u, b : Knows(u, b) => b \in 1 .. made
    /\ \A u, b : Filed(u, b) => b \in handed
    /\ \A u, v, b : (Knows(u, b) \/ Stored(u, b)) /\ (Knows(v, b) \/ Stored(v, b)) => u = v

-----------------------------------------------------------------------------
(* The pipeline *)

IsWork(msg) == msg.kind \in {"batch", "message"}
SomeBatch == \E i \in DOMAIN chan : chan[i].kind = "batch"
Calm ==
    /\ exec = <<>> /\ batch = <<>> /\ messages = <<>>
    /\ \A i \in DOMAIN chan : ~IsWork(chan[i])

(* Messages are sent with a batch behind them.                              *)
Behind ==
    /\ \A i \in DOMAIN chan :
           /\ chan[i].kind = "batch" => chan[i].ops # <<>>
           /\ chan[i].kind = "message" =>
                  /\ \A k \in DOMAIN chan[i].ops : chan[i].ops[k].kind = "message"
                  /\ \E j \in DOMAIN chan : j > i /\ chan[j].kind = "batch"
    /\ \A k \in DOMAIN messages : messages[k].kind = "message"
    /\ messages # <<>> => batch # <<>> \/ SomeBatch

(* A flush is the last thing sent, and what it has signalled is done.      *)
Awaits == main = "flush" \/ (main = "drop" /\ exit = "disowned")
Flushed ==
    \/ 1 \in acked /\ Calm
    \/ /\ 1 \notin acked /\ then = "ack" /\ flush = 1
       /\ batch = <<>> /\ messages = <<>> /\ \A i \in DOMAIN chan : ~IsWork(chan[i])
    \/ /\ 1 \notin acked /\ then = "loop" /\ chan # <<>> /\ chan[Len(chan)] = SendFlush(1)
       /\ \A i \in 1 .. Len(chan) - 1 : IsWork(chan[i])
Over == main \in {"lastSave", "join", "down"} \/ (main = "drop" /\ exit # "disowned")
Phases ==
    /\ main \in {"run", "saving"} => acked = {} /\ then = "loop" /\ \A i \in DOMAIN chan : IsWork(chan[i])
    /\ Awaits => Flushed /\ ~timedOut
    /\ Over /\ exit \in Exits /\ ~timedOut => Calm
    /\ main \in {"lastSave", "drop", "join"} => exit \in Exits
    /\ main \in {"flush", "lastSave"} => exit \in Exits \ {"disowned"}
    /\ main \notin {"saving", "lastSave"} => mainOps = <<>>
    /\ exit = "killed" => main = "down"

-----------------------------------------------------------------------------
(* One life: uids are fresh, and what was handed over arrives *)

Sent(u, b, n) == \E i \in DOMAIN chan : i <= n /\ chan[i].kind = "message" /\ FileOp(chan[i].ops, u, b)
Due(u, b, n) == Stored(u, b) \/ FileOp(exec, u, b) \/ FileOp(messages, u, b) \/ Sent(u, b, n)

Distinct(ms) == \A i, j \in DOMAIN ms : ms[i].uid = ms[j].uid => i = j

Fresh ==
    /\ \A u, b, c : Knows(u, b) /\ Knows(u, c) => b = c
    /\ \A u, b : Knows(u, b) => u[1] < mem.next
    /\ Distinct(mem.chat)
Arrives == \A i \in DOMAIN mem.chat : mem.chat[i].body \in handed => Due(mem.chat[i].uid, mem.chat[i].body, Len(chan))

(* The newest state on its way is the one in memory.  Right and Complete   *)
(* are about a state m and r, whether a reload is due.                      *)
Same(list, ms) ==
    /\ DOMAIN list = DOMAIN ms
    /\ \A i \in DOMAIN ms : list[i].uid = ms[i].uid /\ list[i].body = ms[i].body
ReloadDue == main \in {"drop", "join", "down"} /\ exit \in {"reload", "exec"}

RightConfig(m, r, v) == v.next = m.next /\ v.reload = r
RightPanel(m, u, v) == v # <<>> /\ Same(v[1], m.history[u])
RightOp(m, r, op) ==
    /\ op.kind = "config" => RightConfig(m, r, op.val)
    /\ op.kind = "worker" => op.val = DOMAIN m.history
    /\ op.kind = "chat" => Same(op.val, m.chat)
    /\ op.kind = "panel" /\ op.uid \in DOMAIN m.history => RightPanel(m, op.uid, op.val)
RightOps(m, r, s) == \A k \in DOMAIN s : RightOp(m, r, s[k])

Has(s, kind, uid) == \E k \in DOMAIN s : s[k].kind = kind /\ s[k].uid = uid
HasAll(m, s) ==
    /\ Has(s, "config", 0) /\ Has(s, "worker", 0) /\ Has(s, "chat", 0)
    /\ \A p \in DOMAIN m.history :
           /\ Has(s, "panel", p)
           /\ \A i \in DOMAIN m.history[p] : Has(s, "message", m.history[p][i].uid)
Complete(m, r, s) == RightOps(m, r, s) /\ HasAll(m, s)

Coming(kind, uid) == Has(exec, kind, uid) \/ Has(mainOps, kind, uid)
Settles ==
    /\ RightOps(mem, ReloadDue, exec)
    /\ RightConfig(mem, ReloadDue, disk.config) \/ Coming("config", 0)
    /\ disk.worker = DOMAIN mem.history \/ Coming("worker", 0)
    /\ Same(disk.chat, mem.chat) \/ Coming("chat", 0)
    /\ \A p \in DOMAIN mem.history :
           /\ RightPanel(mem, p, disk.panel[p]) \/ Coming("panel", p)
           /\ \A i \in DOMAIN mem.history[p] :
                  \/ Stored(mem.history[p][i].uid, mem.history[p][i].body)
                  \/ Coming("message", mem.history[p][i].uid)

LastBatch(i) == i \in DOMAIN chan /\ chan[i].kind = "batch" /\ \A j \in DOMAIN chan : j > i => chan[j].kind # "batch"
Newest ==
    /\ RightOps(mem, ReloadDue, mainOps)
    /\ \A i \in DOMAIN chan : LastBatch(i) => Complete(mem, ReloadDue, chan[i].ops)
    /\ ~SomeBatch /\ batch # <<>> => Complete(mem, ReloadDue, batch)
    /\ ~SomeBatch /\ batch = <<>> => Settles

Waits == main \in {"run", "saving", "flush"} \/ ~timedOut
Life ==
    ~stale /\ exit # "killed" =>
        /\ Fresh /\ Arrives
        /\ Waits => Newest

-----------------------------------------------------------------------------
(* All lives, while no batch overtook a synchronous save *)

(* The sequences of operations on their way, and the operations in them.   *)
(* Pending messages are message files only.                                 *)
Lane(s) == s = exec \/ s = batch \/ s = mainOps \/ \E i \in DOMAIN chan : s = chan[i].ops
InSeq(x, s) == \E k \in DOMAIN s : s[k] = x
Way(x) == \E s : Lane(s) /\ InSeq(x, s)

(* config.json only moves forward. *)
IsConfig(op) == op.kind = "config"
CfgLe(a, b) == a.ver <= b.ver /\ a.next <= b.next
Before(s, t) == \A j \in DOMAIN s, k \in DOMAIN t : IsConfig(s[j]) /\ IsConfig(t[k]) => CfgLe(s[j].val, t[k].val)
Inner(s) == \A j, k \in DOMAIN s : j < k /\ IsConfig(s[j]) /\ IsConfig(s[k]) => CfgLe(s[j].val, s[k].val)
Under(v) == v.ver <= built /\ (exit # "killed" => v.next <= mem.next)
Ordered ==
    /\ Before(exec, batch)
    /\ \A i \in DOMAIN chan : Before(exec, chan[i].ops) /\ Before(batch, chan[i].ops)
    /\ \A i, j \in DOMAIN chan : i < j => Before(chan[i].ops, chan[j].ops)
Forwards ==
    /\ Ordered
    /\ \A s : Lane(s) => Inner(s)
    /\ \A x : Way(x) /\ IsConfig(x) => CfgLe(disk.config, x.val) /\ Under(x.val)
    /\ Under(disk.config)

(* A list names uids below the counter of the config.json before it. *)
Lists(op, u) ==
    \/ op.kind = "chat" /\ \E i \in DOMAIN op.val : op.val[i].uid = u
    \/ op.kind = "panel" /\ op.val # <<>> /\ \E i \in DOMAIN op.val[1] : op.val[1][i].uid = u
Covered(s, n) ==
    \A k \in DOMAIN s : \A u : Lists(s[k], u) =>
        u[1] < n \/ \E j \in DOMAIN s : j < k /\ IsConfig(s[j]) /\ u[1] < s[j].val.next
DiskCovered ==
    /\ \A i \in DOMAIN disk.chat : disk.chat[i].uid[1] < disk.config.next
    /\ \A p \in Numbers : disk.panel[p] # <<>> =>
           \A i \in DOMAIN disk.panel[p][1] : disk.panel[p][1][i].uid[1] < disk.config.next
Covers == DiskCovered /\ \A s : Lane(s) => Covered(s, disk.config.next)

(* What a list names as handed over keeps its uid. *)
Wanted(e) == e.handed /\ e.body \notin removed
Holds(u, b) == u[1] < mem.next /\ \A c : Knows(u, c) => c = b
Agrees(list) ==
    /\ Distinct(list)
    /\ exit # "killed" => \A i \in DOMAIN list : Wanted(list[i]) => Holds(list[i].uid, list[i].body)
Listings == Agrees(disk.chat) /\ \A x : Way(x) /\ x.kind = "chat" => Agrees(x.val)

(* The messages a list names arrive before it: in the list's own sequence, *)
(* or ahead of it in the pipeline.                                          *)
Names(list, u, b) == \E i \in DOMAIN list : Wanted(list[i]) /\ list[i].uid = u /\ list[i].body = b
Asks(op, u, b) == op.kind = "chat" /\ Names(op.val, u, b)
Early(s, k, u, b) == \E j \in DOMAIN s : j < k /\ s[j].kind = "message" /\ s[j].uid = u /\ s[j].val = b
InTime ==
    /\ \A k \in DOMAIN exec : \A u, b : Asks(exec[k], u, b) => Stored(u, b) \/ Early(exec, k, u, b)
    /\ \A x, u, b : InSeq(x, batch) /\ Asks(x, u, b) => Due(u, b, 0)
    /\ \A n \in DOMAIN chan : \A x, u, b : InSeq(x, chan[n].ops) /\ Asks(x, u, b) => Due(u, b, n - 1)
    /\ \A x, u, b : InSeq(x, mainOps) /\ Asks(x, u, b) => Stored(u, b)
    /\ \A u, b : Names(disk.chat, u, b) => Stored(u, b)

Alone == mainOps # <<>> => Calm
Lives ==
    /\ stale => overtaken
    /\ ~overtaken => Alone /\ Forwards /\ Covers /\ Listings /\ InTime

(* A step of this instance, or a write of another one that claims the      *)
(* folder and replaces nothing else.                                        *)
Seize ==
    /\ disk' = [disk EXCEPT !.config.owner = "other"]
    /\ UNCHANGED <<mainVars, chan, threadVars, ghosts>>
Step == OwnNext \/ Seize

OwnInv == OwnTypeOK /\ Bound /\ Behind /\ Phases /\ Life /\ Lives

(* The other instance: the bodies it writes are those of their uids, and   *)
(* its config.json is no newer than the one on the disk.                    *)
InPanels(m, u, c) ==
    \E p \in DOMAIN m.history : \E i \in DOMAIN m.history[p] :
        m.history[p][i].uid = u /\ m.history[p][i].body = c
GuestFile(u, b) == InPanels(guest.mem, u, b) \/ FileOp(guest.ops, u, b)
GuestBound ==
    \A u, b : GuestFile(u, b) =>
        b \in handed /\ \A v : Knows(v, b) \/ Stored(v, b) \/ GuestFile(v, b) => u = v
GuestBehind ==
    /\ guest.at = "loaded" => guest.ver <= disk.config.ver /\ guest.mem.next <= disk.config.next
    /\ \A k \in DOMAIN guest.ops :
           IsConfig(guest.ops[k]) =>
               k = 1 /\ guest.ops[k].val.owner = "other" /\ CfgLe(guest.ops[k].val, disk.config)

(* What it replaces can undo what one life says of the files, but neither  *)
(* the pipeline nor the order of this instance's own saves.                 *)
IInv ==
    /\ TypeOK /\ Bound /\ GuestBound /\ Behind /\ Phases
    /\ ~overtaken => Alone /\ Forwards /\ GuestBehind
    /\ ~replaced => Life /\ Lives
-----------------------------------------------------------------------------
(* Lemmas *)
(* Sequences *)

LEMMA Induct ==
    ASSUME NEW S, S \subseteq Nat, 0 \in S, \A k \in S : k + 1 \in S
    PROVE  S = Nat
PROOF
    <1>1. SUFFICES ASSUME Nat \ S # {} PROVE FALSE
        OBVIOUS
    <1>2. PICK x \in Nat \ S : \A y \in Nat \ S : ~(<<y, x>> \in OpToRel(<, Nat))
        <2>1. Nat \ S \subseteq Nat
            OBVIOUS
        <2> QED BY <1>1, <2>1, NatLessThanWellFounded, WFMin
    <1>3. ASSUME NEW y \in Nat \ S, y < x PROVE <<y, x>> \in OpToRel(<, Nat)
        <2>1. <<y, x>> \in Nat \X Nat /\ <<y, x>>[1] = y /\ <<y, x>>[2] = x
            OBVIOUS
        <2> QED BY ONLY <2>1, <1>3, Zenon DEF OpToRel
    <1>4. x \in Nat \ S /\ \A y \in Nat \ S : ~(y < x)
        BY ONLY <1>2, <1>3, Zenon
    <1>5. x # 0 /\ x - 1 \in Nat /\ x - 1 < x /\ (x - 1) + 1 = x
        BY ONLY <1>4, 0 \in S
    <1> QED BY ONLY <1>5, <1>4, \A k \in S : k + 1 \in S

LEMMA AppendFacts ==
    ASSUME NEW S, NEW s \in Seq(S), NEW x \in S
    PROVE  /\ Append(s, x) \in Seq(S) /\ Len(Append(s, x)) = Len(s) + 1
           /\ \A i \in 1 .. Len(s) : Append(s, x)[i] = s[i]
           /\ Append(s, x)[Len(s) + 1] = x
PROOF OBVIOUS

LEMMA ConcatFacts ==
    ASSUME NEW S, NEW s \in Seq(S), NEW t \in Seq(S)
    PROVE  /\ s \o t \in Seq(S) /\ Len(s \o t) = Len(s) + Len(t)
           /\ \A i \in 1 .. Len(s) : (s \o t)[i] = s[i]
           /\ \A i \in 1 .. Len(t) : (s \o t)[Len(s) + i] = t[i]
PROOF OBVIOUS

LEMMA TailFacts ==
    ASSUME NEW S, NEW s \in Seq(S), s # <<>>
    PROVE  /\ Tail(s) \in Seq(S) /\ Len(Tail(s)) = Len(s) - 1 /\ Len(s) \in Nat \ {0}
           /\ \A i \in 1 .. Len(s) - 1 : Tail(s)[i] = s[i + 1]
           /\ Head(s) = s[1] /\ s[1] \in S
PROOF OBVIOUS

LEMMA ConcatElements ==
    ASSUME NEW S, NEW s \in Seq(S), NEW t \in Seq(S)
    PROVE  /\ s \o t \in Seq(S)
           /\ \A x : InSeq(x, s \o t) <=> InSeq(x, s) \/ InSeq(x, t)
PROOF
    <1> DEFINE c == s \o t
    <1>1. /\ DOMAIN s = 1 .. Len(s) /\ DOMAIN t = 1 .. Len(t) /\ Len(s) \in Nat /\ Len(t) \in Nat
          /\ DOMAIN c = 1 .. Len(s) + Len(t) /\ c \in Seq(S)
        OBVIOUS
    <1>2. /\ \A i \in 1 .. Len(s) : c[i] = s[i]
          /\ \A i \in 1 .. Len(t) : c[Len(s) + i] = t[i]
        BY ConcatFacts
    <1> HIDE DEF c
    <1>3. ASSUME NEW x, InSeq(x, c) PROVE InSeq(x, s) \/ InSeq(x, t)
        <2>1. PICK k \in 1 .. Len(s) + Len(t) : c[k] = x
            BY <1>1, <1>3 DEF InSeq
        <2>2. k \in 1 .. Len(s) \/ (k - Len(s) \in 1 .. Len(t) /\ k = Len(s) + (k - Len(s)))
            BY <1>1
        <2> QED BY <1>1, <1>2, <2>1, <2>2 DEF InSeq
    <1>4. ASSUME NEW x, InSeq(x, s) PROVE InSeq(x, c)
        BY <1>1, <1>2, <1>4 DEF InSeq
    <1>5. ASSUME NEW x, InSeq(x, t) PROVE InSeq(x, c)
        <2>1. PICK k \in 1 .. Len(t) : t[k] = x
            BY <1>1, <1>5 DEF InSeq
        <2>2. Len(s) + k \in DOMAIN c
            BY <1>1
        <2> QED BY <1>2, <2>1, <2>2 DEF InSeq
    <1> QED BY <1>1, <1>3, <1>4, <1>5 DEF c

LEMMA FiniteImage ==
    ASSUME NEW S, IsFiniteSet(S), NEW f, NEW T,
           \A x \in S : f[x] \in T, \A y \in T : \E x \in S : f[x] = y
    PROVE  IsFiniteSet(T)
PROOF
    <1> DEFINE g == [x \in S |-> f[x]]
    <1>1. g \in Surjection(S, T)
        BY DEF Surjection
    <1> HIDE DEF g
    <1> QED BY <1>1, FS_Surjection

LEMMA SetToSeqFacts ==
    ASSUME NEW S, IsFiniteSet(S)
    PROVE  /\ SetToSeq(S) \in Seq(S)
           /\ \A x \in S : \E k \in DOMAIN SetToSeq(S) : SetToSeq(S)[k] = x
PROOF
    <1> DEFINE n == Cardinality(S)  D == 1 .. n
    <1>1. n \in Nat /\ \E f : f \in Bijection(D, S)
        BY FS_CardinalityType DEF ExistsBijection
    <1>2. \E f \in [D -> S] : IsInjective(f)
        BY <1>1 DEF Bijection, Injection
    <1>3. SetToSeq(S) \in [D -> S] /\ IsInjective(SetToSeq(S))
        <2> HIDE DEF n
        <2>1. SetToSeq(S) = CHOOSE f \in [D -> S] : IsInjective(f)
            BY Zenon DEF SetToSeq, n
        <2> QED BY <1>2, <2>1, Zenon
    <1> HIDE DEF n
    <1>4. IsFiniteSet(D) /\ Cardinality(D) = n
        BY <1>1, FS_Interval
    <1>5. SetToSeq(S) \in Injection(D, S)
        BY <1>3, Zenon DEF Injection
    <1>6. SetToSeq(S) \in Surjection(D, S)
        BY <1>5, <1>4, FS_Injection DEF n
    <1>7. SetToSeq(S) \in Seq(S)
        BY <1>1, <1>3
    <1> QED BY <1>7, <1>6, <1>3 DEF Surjection

-----------------------------------------------------------------------------
(* The filter Of *)

Grown(ms, B, n, g) ==
    g = [k \in 0 .. n |->
            IF k = 0 THEN <<>>
            ELSE IF ms[k].body \in B THEN Append(g[k - 1], ms[k]) ELSE g[k - 1]]

Sifts(ms, B, g) ==
    /\ g[0] = <<>>
    /\ \A k \in 1 .. Len(ms) :
           g[k] = IF ms[k].body \in B THEN Append(g[k - 1], ms[k]) ELSE g[k - 1]
    /\ Of(ms, B) = g[Len(ms)]

LEMMA GrownExists ==
    ASSUME NEW ms, NEW B, NEW n \in Nat
    PROVE  \E g : Grown(ms, B, n, g)
PROOF
    <1> DEFINE S == {k \in Nat : \E g : Grown(ms, B, k, g)}
    <1>1. 0 \in S
        <2> DEFINE g == [k \in 0 .. 0 |-> <<>>]
        <2>1. Grown(ms, B, 0, g)
            BY DEF Grown
        <2> QED BY <2>1
    <1>2. ASSUME NEW k \in S PROVE k + 1 \in S
        <2>1. PICK g : Grown(ms, B, k, g)
            BY <1>2
        <2> DEFINE last == IF ms[k + 1].body \in B THEN Append(g[k], ms[k + 1]) ELSE g[k]
                   h == [j \in 0 .. k + 1 |-> IF j = k + 1 THEN last ELSE g[j]]
        <2>2. ASSUME NEW j \in 0 .. k + 1
              PROVE  h[j] = IF j = 0 THEN <<>>
                            ELSE IF ms[j].body \in B THEN Append(h[j - 1], ms[j]) ELSE h[j - 1]
            <3>1. CASE j = k + 1
                <4>1. j - 1 = k /\ j # 0 /\ k \in 0 .. k + 1 /\ k # k + 1
                    BY <3>1, <1>2
                <4>2. h[j] = last /\ h[j - 1] = g[k]
                    BY <4>1, <3>1
                <4> QED BY <4>1, <4>2, <3>1
            <3>2. CASE j = 0
                <4>1. h[j] = g[0]
                    BY <3>2, <1>2
                <4>2. g[0] = <<>>
                    BY <2>1, <1>2 DEF Grown
                <4> QED BY <4>1, <4>2, <3>2
            <3>3. CASE j \in 1 .. k
                <4>1. j # k + 1 /\ j - 1 # k + 1 /\ j - 1 \in 0 .. k + 1 /\ j # 0 /\ j \in 0 .. k
                    BY <3>3, <1>2
                <4>2. h[j] = g[j] /\ h[j - 1] = g[j - 1]
                    BY <4>1
                <4>3. g[j] = IF ms[j].body \in B THEN Append(g[j - 1], ms[j]) ELSE g[j - 1]
                    BY <2>1, <4>1 DEF Grown
                <4> QED BY <4>1, <4>2, <4>3
            <3> QED BY <3>1, <3>2, <3>3, <1>2
        <2>3. Grown(ms, B, k + 1, h)
            <3> HIDE DEF last
            <3> QED BY <2>2 DEF Grown
        <2>4. k + 1 \in Nat
            BY <1>2
        <2> QED BY <2>3, <2>4
    <1>3. S = Nat
        <2>1. S \subseteq Nat
            OBVIOUS
        <2> HIDE DEF S
        <2> QED BY <1>1, <1>2, <2>1, Induct
    <1> QED BY <1>3

LEMMA OfSifts ==
    ASSUME NEW ms, NEW B, Len(ms) \in Nat
    PROVE  \E g : Sifts(ms, B, g)
PROOF
    <1> DEFINE g == CHOOSE f : Grown(ms, B, Len(ms), f)
    <1>1. Of(ms, B) = g[Len(ms)]
        BY DEF Of, Grown
    <1>2. Grown(ms, B, Len(ms), g)
        BY GrownExists
    <1> HIDE DEF g
    <1>3. g[0] = <<>>
        BY <1>2 DEF Grown
    <1>4. ASSUME NEW k \in 1 .. Len(ms)
          PROVE  g[k] = IF ms[k].body \in B THEN Append(g[k - 1], ms[k]) ELSE g[k - 1]
        <2>1. k \in 0 .. Len(ms) /\ k # 0
            OBVIOUS
        <2> QED BY <1>2, <2>1 DEF Grown
    <1> QED BY <1>1, <1>3, <1>4 DEF Sifts

(* What is kept is a message of ms with a body in B, and none is doubled.  *)
LEMMA OfElements ==
    ASSUME NEW M, NEW ms \in Seq(M), NEW B
    PROVE  /\ Of(ms, B) \in Seq(M)
           /\ \A i \in DOMAIN Of(ms, B) :
                  \E j \in DOMAIN ms : Of(ms, B)[i] = ms[j] /\ ms[j].body \in B
           /\ Distinct(ms) => Distinct(Of(ms, B))
PROOF
    <1>1. Len(ms) \in Nat /\ DOMAIN ms = 1 .. Len(ms) /\ \A j \in 1 .. Len(ms) : ms[j] \in M
        OBVIOUS
    <1>2. PICK g : Sifts(ms, B, g)
        BY <1>1, OfSifts
    <1> DEFINE P(k) == /\ g[k] \in Seq(M)
                       /\ \A i \in 1 .. Len(g[k]) : \E j \in 1 .. k : g[k][i] = ms[j] /\ ms[j].body \in B
                       /\ Distinct(ms) => Distinct(g[k])
               S == {k \in Nat : k <= Len(ms) => P(k)}
    <1>3. P(0)
        <2>1. g[0] = <<>>
            BY <1>2 DEF Sifts
        <2>2. Distinct(g[0])
            BY <2>1 DEF Distinct
        <2> QED BY <2>1, <2>2
    <1>4. ASSUME NEW k \in S PROVE k + 1 \in S
        <2>1. SUFFICES ASSUME k + 1 <= Len(ms) PROVE P(k + 1)
            <3>1. k + 1 \in Nat
                OBVIOUS
            <3> HIDE DEF P
            <3> QED BY <3>1
        <2>2. k \in Nat /\ k + 1 \in 1 .. Len(ms) /\ (k + 1) - 1 = k
            BY <1>1, <2>1
        <2>3. /\ g[k] \in Seq(M)
              /\ \A i \in 1 .. Len(g[k]) : \E j \in 1 .. k : g[k][i] = ms[j] /\ ms[j].body \in B
              /\ Distinct(ms) => Distinct(g[k])
            <3>1. P(k)
                <4> HIDE DEF P
                <4> QED BY <2>1, <2>2, <1>1
            <3> QED BY <3>1
        <2>4. g[k + 1] = IF ms[k + 1].body \in B THEN Append(g[k], ms[k + 1]) ELSE g[k]
            BY <2>2, <1>2 DEF Sifts
        <2> HIDE DEF S
        <2>5. CASE ms[k + 1].body \notin B
            BY <2>2, <2>3, <2>4, <2>5
        <2>6. CASE ms[k + 1].body \in B
            <3>1. g[k + 1] = Append(g[k], ms[k + 1]) /\ ms[k + 1] \in M
                BY <2>4, <2>6, <2>2, <1>1
            <3>2. /\ g[k + 1] \in Seq(M) /\ Len(g[k + 1]) = Len(g[k]) + 1 /\ Len(g[k]) \in Nat
                  /\ \A i \in 1 .. Len(g[k]) : g[k + 1][i] = g[k][i]
                  /\ g[k + 1][Len(g[k]) + 1] = ms[k + 1]
                BY <3>1, <2>3, AppendFacts
            <3>3. \A i \in 1 .. Len(g[k + 1]) :
                     \E j \in 1 .. k + 1 : g[k + 1][i] = ms[j] /\ ms[j].body \in B
                BY <3>2, <2>2, <2>3, <2>6
            <3>4. ASSUME Distinct(ms) PROVE Distinct(g[k + 1])
                <4>0. \A i, j \in 1 .. Len(ms) : ms[i].uid = ms[j].uid => i = j
                    BY <3>4, <1>1 DEF Distinct
                <4>1. \A i \in 1 .. Len(g[k]) : g[k][i].uid # ms[k + 1].uid
                    <5>1. ASSUME NEW i \in 1 .. Len(g[k]) PROVE g[k][i].uid # ms[k + 1].uid
                        <6>1. PICK j \in 1 .. k : g[k][i] = ms[j]
                            BY <2>3
                        <6>2. j \in 1 .. Len(ms) /\ j # k + 1
                            BY <2>2, <1>1
                        <6> QED BY <6>1, <6>2, <2>2, <4>0
                    <5> QED BY <5>1
                <4>2. \A i, j \in 1 .. Len(g[k]) : g[k][i].uid = g[k][j].uid => i = j
                    BY <2>3, <3>4 DEF Distinct
                <4>3. DOMAIN g[k + 1] = 1 .. Len(g[k]) + 1
                    BY <3>2
                <4>4. ASSUME NEW i \in 1 .. Len(g[k]) + 1, NEW j \in 1 .. Len(g[k]) + 1,
                             g[k + 1][i].uid = g[k + 1][j].uid
                      PROVE  i = j
                    <5>1. (i \in 1 .. Len(g[k]) \/ i = Len(g[k]) + 1) /\ (j \in 1 .. Len(g[k]) \/ j = Len(g[k]) + 1)
                        BY <3>2
                    <5> QED BY <5>1, <4>1, <4>2, <4>4, <3>2
                <4> QED BY <4>3, <4>4 DEF Distinct
            <3> QED BY <3>2, <3>3, <3>4
        <2> QED BY <2>5, <2>6
    <1>5. S = Nat
        <2>1. S \subseteq Nat
            OBVIOUS
        <2>2. 0 \in S
            <3> HIDE DEF P
            <3> QED BY <1>3
        <2> HIDE DEF S
        <2> QED BY <2>2, <1>4, <2>1, Induct
    <1>6. /\ g[Len(ms)] \in Seq(M)
          /\ \A i \in 1 .. Len(g[Len(ms)]) :
                 \E j \in 1 .. Len(ms) : g[Len(ms)][i] = ms[j] /\ ms[j].body \in B
          /\ Distinct(ms) => Distinct(g[Len(ms)])
        <2>1. P(Len(ms))
            <3> HIDE DEF P
            <3> QED BY <1>5, <1>1
        <2> QED BY <2>1
    <1>7. Of(ms, B) = g[Len(ms)]
        BY <1>2 DEF Sifts
    <1>8. DOMAIN Of(ms, B) = 1 .. Len(g[Len(ms)])
        BY <1>6, <1>7
    <1> QED BY <1>6, <1>7, <1>8, <1>1

(* Two sequences that agree on what the two filters keep.                  *)
LEMMA OfSame ==
    ASSUME NEW ms, NEW ns, NEW B, NEW C, Len(ms) \in Nat, Len(ns) = Len(ms),
           \A k \in 1 .. Len(ms) : (ms[k].body \in B <=> ns[k].body \in C)
                                   /\ (ms[k].body \in B => ms[k] = ns[k])
    PROVE  Of(ms, B) = Of(ns, C)
PROOF
    <1>1. PICK g : Sifts(ms, B, g)
        BY OfSifts
    <1>2. PICK h : Sifts(ns, C, h)
        BY OfSifts
    <1> DEFINE S == {k \in Nat : k <= Len(ms) => g[k] = h[k]}
    <1>3. 0 \in S
        BY <1>1, <1>2 DEF Sifts
    <1>4. ASSUME NEW k \in S PROVE k + 1 \in S
        <2>1. SUFFICES ASSUME k + 1 <= Len(ms) PROVE g[k + 1] = h[k + 1]
            OBVIOUS
        <2>2. k \in Nat /\ k + 1 \in 1 .. Len(ms) /\ (k + 1) - 1 = k /\ g[k] = h[k]
            BY <2>1
        <2>3. /\ g[k + 1] = IF ms[k + 1].body \in B THEN Append(g[k], ms[k + 1]) ELSE g[k]
              /\ h[k + 1] = IF ns[k + 1].body \in C THEN Append(h[k], ns[k + 1]) ELSE h[k]
            BY <2>2, <1>1, <1>2 DEF Sifts
        <2>4. (ms[k + 1].body \in B <=> ns[k + 1].body \in C) /\ (ms[k + 1].body \in B => ms[k + 1] = ns[k + 1])
            BY <2>2
        <2> QED BY <2>2, <2>3, <2>4
    <1>5. S = Nat
        <2>1. S \subseteq Nat
            OBVIOUS
        <2> HIDE DEF S
        <2> QED BY <1>3, <1>4, <2>1, Induct
    <1>6. g[Len(ms)] = h[Len(ms)]
        BY <1>5
    <1> QED BY <1>6, <1>1, <1>2 DEF Sifts

LEMMA OfAll ==
    ASSUME NEW M, NEW ms \in Seq(M), NEW B, \A k \in 1 .. Len(ms) : ms[k].body \in B
    PROVE  Of(ms, B) = ms
PROOF
    <1>1. Len(ms) \in Nat /\ DOMAIN ms = 1 .. Len(ms) /\ \A j \in 1 .. Len(ms) : ms[j] \in M
        OBVIOUS
    <1>2. PICK g : Sifts(ms, B, g)
        BY <1>1, OfSifts
    <1> DEFINE S == {k \in Nat : k <= Len(ms) =>
                        g[k] \in Seq(M) /\ Len(g[k]) = k /\ \A i \in 1 .. k : g[k][i] = ms[i]}
    <1>3. 0 \in S
        <2>1. g[0] = <<>>
            BY <1>2 DEF Sifts
        <2>2. <<>> \in Seq(M) /\ Len(<<>>) = 0 /\ 1 .. 0 = {}
            OBVIOUS
        <2> QED BY <2>1, <2>2
    <1>4. ASSUME NEW k \in S PROVE k + 1 \in S
        <2>1. SUFFICES ASSUME k + 1 <= Len(ms)
                       PROVE  g[k + 1] \in Seq(M) /\ Len(g[k + 1]) = k + 1 /\ \A i \in 1 .. k + 1 : g[k + 1][i] = ms[i]
            OBVIOUS
        <2>2. k \in Nat /\ k + 1 \in 1 .. Len(ms) /\ (k + 1) - 1 = k
              /\ g[k] \in Seq(M) /\ Len(g[k]) = k /\ \A i \in 1 .. k : g[k][i] = ms[i]
            BY <2>1, <1>1
        <2> HIDE DEF S
        <2>3. g[k + 1] = Append(g[k], ms[k + 1]) /\ ms[k + 1] \in M
            BY <2>2, <1>2, <1>1 DEF Sifts
        <2> QED BY <2>2, <2>3, AppendFacts
    <1>5. S = Nat
        <2>1. S \subseteq Nat
            OBVIOUS
        <2> HIDE DEF S
        <2> QED BY <1>3, <1>4, <2>1, Induct
    <1>6. g[Len(ms)] \in Seq(M) /\ Len(g[Len(ms)]) = Len(ms) /\ \A i \in 1 .. Len(ms) : g[Len(ms)][i] = ms[i]
        BY <1>5, <1>1
    <1>7. g[Len(ms)] = ms
        BY <1>6, <1>1
    <1> QED BY <1>7, <1>2 DEF Sifts

(* The filter of one message more. *)
LEMMA OfAppend ==
    ASSUME NEW M, NEW ms \in Seq(M), NEW x \in M, NEW B
    PROVE  Of(Append(ms, x), B) = IF x.body \in B THEN Append(Of(ms, B), x) ELSE Of(ms, B)
PROOF
    <1> DEFINE ns == Append(ms, x)
    <1>1. /\ Len(ms) \in Nat /\ Len(ns) \in Nat /\ Len(ns) = Len(ms) + 1 /\ ns[Len(ms) + 1] = x
          /\ \A j \in 1 .. Len(ms) : ns[j] = ms[j]
        BY AppendFacts
    <1> HIDE DEF ns
    <1>2. PICK g : Sifts(ms, B, g)
        BY <1>1, OfSifts
    <1>3. PICK h : Sifts(ns, B, h)
        BY <1>1, OfSifts
    <1> DEFINE S == {k \in Nat : k <= Len(ms) => g[k] = h[k]}
    <1>4. 0 \in S
        BY <1>2, <1>3 DEF Sifts
    <1>5. ASSUME NEW k \in S PROVE k + 1 \in S
        <2>1. SUFFICES ASSUME k + 1 <= Len(ms) PROVE g[k + 1] = h[k + 1]
            OBVIOUS
        <2>2. /\ k \in Nat /\ k + 1 \in 1 .. Len(ms) /\ k + 1 \in 1 .. Len(ns) /\ (k + 1) - 1 = k
              /\ g[k] = h[k]
            BY <2>1, <1>1
        <2>3. /\ g[k + 1] = IF ms[k + 1].body \in B THEN Append(g[k], ms[k + 1]) ELSE g[k]
              /\ h[k + 1] = IF ns[k + 1].body \in B THEN Append(h[k], ns[k + 1]) ELSE h[k]
            BY <2>2, <1>2, <1>3 DEF Sifts
        <2> QED BY <2>2, <2>3, <1>1
    <1>6. S = Nat
        <2>1. S \subseteq Nat
            OBVIOUS
        <2> HIDE DEF S
        <2> QED BY <1>4, <1>5, <2>1, Induct
    <1>7. g[Len(ms)] = h[Len(ms)]
        BY <1>6, <1>1
    <1>8. Len(ns) \in 1 .. Len(ns) /\ Len(ns) - 1 = Len(ms)
        BY <1>1
    <1>9. h[Len(ns)] = IF ns[Len(ns)].body \in B THEN Append(h[Len(ms)], ns[Len(ns)]) ELSE h[Len(ms)]
        BY <1>8, <1>3 DEF Sifts
    <1>10. Of(ns, B) = IF x.body \in B THEN Append(Of(ms, B), x) ELSE Of(ms, B)
        BY <1>9, <1>7, <1>1, <1>2, <1>3 DEF Sifts
    <1> QED BY <1>10 DEF ns

LEMMA OfOf ==
    ASSUME NEW M, NEW ms \in Seq(M), NEW A, NEW B, B \subseteq A
    PROVE  Of(Of(ms, A), B) = Of(ms, B)
PROOF
    <1>1. Len(ms) \in Nat /\ \A j \in 1 .. Len(ms) : ms[j] \in M
        OBVIOUS
    <1>2. PICK g : Sifts(ms, A, g)
        BY <1>1, OfSifts
    <1>3. PICK h : Sifts(ms, B, h)
        BY <1>1, OfSifts
    <1> DEFINE P(k) == g[k] \in Seq(M) /\ Of(g[k], B) = h[k]
               S == {k \in Nat : k <= Len(ms) => P(k)}
    <1>4. P(0)
        <2>1. g[0] = <<>> /\ h[0] = <<>>
            BY <1>2, <1>3 DEF Sifts
        <2>2. <<>> \in Seq(M) /\ \A k \in 1 .. Len(<<>>) : <<>>[k].body \in B
            OBVIOUS
        <2>3. Of(<<>>, B) = <<>>
            BY <2>2, OfAll
        <2> QED BY <2>1, <2>2, <2>3
    <1>5. ASSUME NEW k \in S PROVE k + 1 \in S
        <2>1. SUFFICES ASSUME k + 1 <= Len(ms) PROVE P(k + 1)
            <3>1. k + 1 \in Nat
                OBVIOUS
            <3> HIDE DEF P
            <3> QED BY <3>1
        <2>2. k \in Nat /\ k + 1 \in 1 .. Len(ms) /\ (k + 1) - 1 = k /\ g[k] \in Seq(M) /\ Of(g[k], B) = h[k]
            BY <2>1, <1>1
        <2>3. /\ g[k + 1] = IF ms[k + 1].body \in A THEN Append(g[k], ms[k + 1]) ELSE g[k]
              /\ h[k + 1] = IF ms[k + 1].body \in B THEN Append(h[k], ms[k + 1]) ELSE h[k]
            BY <2>2, <1>2, <1>3 DEF Sifts
        <2>4. ms[k + 1] \in M
            BY <2>2, <1>1
        <2>5. Of(Append(g[k], ms[k + 1]), B) = IF ms[k + 1].body \in B THEN Append(h[k], ms[k + 1]) ELSE h[k]
            <3>1. Of(Append(g[k], ms[k + 1]), B)
                  = IF ms[k + 1].body \in B THEN Append(Of(g[k], B), ms[k + 1]) ELSE Of(g[k], B)
                <4>1. g[k] \in Seq(M)
                    BY <2>2
                <4> HIDE DEF P, S
                <4>2. ASSUME NEW s \in Seq(M), NEW x \in M
                      PROVE  Of(Append(s, x), B) = IF x.body \in B THEN Append(Of(s, B), x) ELSE Of(s, B)
                    BY OfAppend
                <4> QED BY ONLY <4>1, <2>4, <4>2, Zenon
            <3> QED BY ONLY <3>1, <2>2
        <2>6. Append(g[k], ms[k + 1]) \in Seq(M)
            BY <2>2, <2>4, AppendFacts
        <2> QED BY <2>2, <2>3, <2>5, <2>6
    <1>6. S = Nat
        <2>1. S \subseteq Nat
            OBVIOUS
        <2>2. 0 \in S
            <3> HIDE DEF P
            <3> QED BY <1>4
        <2> HIDE DEF S
        <2> QED BY <2>2, <1>5, <2>1, Induct
    <1>7. P(Len(ms))
        <2> HIDE DEF P
        <2> QED BY <1>6, <1>1
    <1> QED BY <1>7, <1>2, <1>3 DEF Sifts

-----------------------------------------------------------------------------
(* Operations, batches and the disk *)

LEMMA OpFacts ==
    ASSUME NEW op \in Ops
    PROVE  /\ op.kind \in {"config", "worker", "chat", "panel", "message"}
           /\ op.kind = "config" => op.uid = 0 /\ op.val \in Configs
           /\ op.kind = "worker" => op.uid = 0 /\ op.val \in SUBSET Numbers
           /\ op.kind = "chat" => op.uid = 0 /\ op.val \in Seq(ListedMessages)
           /\ op.kind = "panel" => op.uid \in Numbers /\ op.val \in Seq(Seq(ListedMessages))
           /\ op.kind = "message" => op.uid \in Uids /\ op.val \in Bodies
PROOF BY DEF Ops

LEMMA DiskFacts ==
    ASSUME NEW d \in Disks
    PROVE  /\ d.config \in Configs /\ d.worker \in SUBSET Numbers /\ d.chat \in Seq(ListedMessages)
           /\ d.panel \in [Numbers -> Seq(Seq(ListedMessages))]
           /\ d.message \in [Uids -> Bodies \cup {Absent}]
PROOF BY DEF Disks

LEMMA ApplyFacts ==
    ASSUME NEW d \in Disks, NEW op \in Ops
    PROVE  /\ Apply(d, op) \in Disks
           /\ Apply(d, op).config = IF op.kind = "config" THEN op.val ELSE d.config
           /\ Apply(d, op).worker = IF op.kind = "worker" THEN op.val ELSE d.worker
           /\ Apply(d, op).chat = IF op.kind = "chat" THEN op.val ELSE d.chat
           /\ \A p \in Numbers : Apply(d, op).panel[p] =
                  IF op.kind = "panel" /\ op.uid = p THEN op.val ELSE d.panel[p]
           /\ \A u \in Uids : Apply(d, op).message[u] =
                  IF op.kind = "message" /\ op.uid = u THEN op.val ELSE d.message[u]
PROOF
    <1>1. CASE op.kind = "config"
        <2>1. Apply(d, op) = [d EXCEPT !.config = op.val] /\ op.val \in Configs
            BY <1>1, OpFacts DEF Apply
        <2> QED BY <2>1, <1>1 DEF Disks
    <1>2. CASE op.kind = "worker"
        <2>1. Apply(d, op) = [d EXCEPT !.worker = op.val] /\ op.val \in SUBSET Numbers
            BY <1>2, OpFacts DEF Apply
        <2> QED BY <2>1, <1>2 DEF Disks
    <1>3. CASE op.kind = "chat"
        <2>1. Apply(d, op) = [d EXCEPT !.chat = op.val] /\ op.val \in Seq(ListedMessages)
            BY <1>3, OpFacts DEF Apply
        <2> QED BY <2>1, <1>3 DEF Disks
    <1>4. CASE op.kind = "panel"
        <2>1. /\ Apply(d, op) = [d EXCEPT !.panel[op.uid] = op.val]
              /\ op.uid \in Numbers /\ op.val \in Seq(Seq(ListedMessages))
            BY <1>4, OpFacts DEF Apply
        <2> DEFINE q == [d.panel EXCEPT ![op.uid] = op.val]
        <2>2. /\ q \in [Numbers -> Seq(Seq(ListedMessages))]
              /\ \A x \in DOMAIN d.panel : q[x] = IF op.uid = x THEN op.val ELSE d.panel[x]
            BY <2>1, DiskFacts
        <2>3. Apply(d, op) = [d EXCEPT !.panel = q]
            BY <2>1, DiskFacts
        <2> HIDE DEF q
        <2>4. /\ Apply(d, op) \in Disks /\ Apply(d, op).panel = q
              /\ Apply(d, op).config = d.config /\ Apply(d, op).worker = d.worker /\ Apply(d, op).chat = d.chat
              /\ Apply(d, op).message = d.message
            BY <2>2, <2>3 DEF Disks
        <2> QED BY <2>2, <2>4, <1>4, DiskFacts
    <1>5. CASE op.kind = "message"
        <2>1. /\ Apply(d, op) = [d EXCEPT !.message[op.uid] = op.val]
              /\ op.uid \in Uids /\ op.val \in Bodies
            BY <1>5, OpFacts DEF Apply
        <2> DEFINE q == [d.message EXCEPT ![op.uid] = op.val]
        <2>2. /\ q \in [Uids -> Bodies \cup {Absent}]
              /\ \A x \in DOMAIN d.message : q[x] = IF op.uid = x THEN op.val ELSE d.message[x]
            BY <2>1, DiskFacts
        <2>3. Apply(d, op) = [d EXCEPT !.message = q]
            BY <2>1, DiskFacts
        <2> HIDE DEF q
        <2>4. /\ Apply(d, op) \in Disks /\ Apply(d, op).message = q
              /\ Apply(d, op).config = d.config /\ Apply(d, op).worker = d.worker /\ Apply(d, op).chat = d.chat
              /\ Apply(d, op).panel = d.panel
            BY <2>2, <2>3 DEF Disks
        <2> QED BY <2>2, <2>4, <1>5, DiskFacts
    <1> QED BY <1>1, <1>2, <1>3, <1>4, <1>5, OpFacts

LEMMA DeleteFacts ==
    ASSUME NEW d \in Disks, NEW ms
    PROVE  /\ DeleteFiles(d, ms) \in Disks
           /\ DeleteFiles(d, ms).config = d.config /\ DeleteFiles(d, ms).worker = d.worker
           /\ DeleteFiles(d, ms).chat = d.chat /\ DeleteFiles(d, ms).panel = d.panel
           /\ \A u \in Uids : DeleteFiles(d, ms).message[u] =
                  IF \E i \in DOMAIN ms : ms[i].uid = u THEN Absent ELSE d.message[u]
PROOF
    <1> DEFINE gone == [u \in Uids |-> IF \E i \in DOMAIN ms : ms[i].uid = u THEN Absent ELSE d.message[u]]
    <1>1. DeleteFiles(d, ms) = [d EXCEPT !.message = gone]
        BY DiskFacts DEF DeleteFiles
    <1>2. gone \in [Uids -> Bodies \cup {Absent}]
        BY DiskFacts
    <1>3. \A u \in Uids : gone[u] = IF \E i \in DOMAIN ms : ms[i].uid = u THEN Absent ELSE d.message[u]
        OBVIOUS
    <1> HIDE DEF gone
    <1> QED BY <1>1, <1>2, <1>3 DEF Disks

LEMMA StateFacts ==
    ASSUME NEW m, StateOK(m)
    PROVE  /\ m.chat \in Seq(Messages) /\ m.next \in Nat /\ DOMAIN m.history \subseteq Numbers
           /\ \A u \in DOMAIN m.history : m.history[u] \in Seq(Messages)
PROOF BY DEF StateOK

LEMMA MessageFacts ==
    ASSUME NEW ms \in Seq(Messages), NEW i \in DOMAIN ms
    PROVE  ms[i].uid \in Uids /\ ms[i].body \in Bodies /\ File(ms[i]) \in Ops
           /\ File(ms[i]).kind = "message" /\ File(ms[i]).uid = ms[i].uid /\ File(ms[i]).val = ms[i].body
PROOF
    <1>1. ms[i] \in Messages
        OBVIOUS
    <1> QED BY <1>1 DEF Messages, File, Ops

LEMMA ListedFacts ==
    ASSUME NEW ms \in Seq(Messages), NEW h
    PROVE  /\ Listed(ms, h) \in Seq(ListedMessages)
           /\ Len(Listed(ms, h)) = Len(ms) /\ DOMAIN Listed(ms, h) = DOMAIN ms
           /\ \A i \in DOMAIN ms : /\ Listed(ms, h)[i].uid = ms[i].uid
                                   /\ Listed(ms, h)[i].body = ms[i].body
                                   /\ Listed(ms, h)[i].handed = (ms[i].body \in h)
PROOF
    <1>1. Len(ms) \in Nat /\ DOMAIN ms = 1 .. Len(ms)
        OBVIOUS
    <1>2. ASSUME NEW i \in 1 .. Len(ms)
          PROVE  [uid |-> ms[i].uid, body |-> ms[i].body, handed |-> ms[i].body \in h] \in ListedMessages
        BY <1>1, MessageFacts DEF ListedMessages
    <1>3. Listed(ms, h) \in [1 .. Len(ms) -> ListedMessages]
        BY <1>1, <1>2 DEF Listed
    <1>4. Listed(ms, h) \in Seq(ListedMessages)
        BY <1>1, <1>3
    <1> QED BY <1>1, <1>3, <1>4 DEF Listed

(* What build_save_batch returns: config.json, the worker file and the     *)
(* conversation first, then every panel, message and delete, in any order. *)
Rest(m, h) == PanelWrites(m, h) \cup HistoryMessages(m) \cup OrphanDeletes(m)
ConfigOp(m, v) == Config([next |-> m.next, ver |-> v, owner |-> "self", reload |-> FALSE])

LEMMA RestFacts ==
    ASSUME NEW m, StateOK(m), NEW h, disk \in Disks
    PROVE  /\ PanelWrites(m, h) \subseteq Ops /\ IsFiniteSet(PanelWrites(m, h))
           /\ HistoryMessages(m) \subseteq Ops /\ IsFiniteSet(HistoryMessages(m))
           /\ OrphanDeletes(m) \subseteq Ops /\ IsFiniteSet(OrphanDeletes(m))
PROOF
    <1>1. /\ m.chat \in Seq(Messages) /\ m.next \in Nat /\ DOMAIN m.history \subseteq Numbers
          /\ \A u \in DOMAIN m.history : m.history[u] \in Seq(Messages)
        BY StateFacts
    <1>2. IsFiniteSet(Numbers)
        BY BoundsAssumption, FS_Interval DEF Numbers
    <1>3. IsFiniteSet(DOMAIN m.history)
        BY <1>1, <1>2, FS_Subset
    <1>4. PanelWrites(m, h) \subseteq Ops
        <2>1. ASSUME NEW u \in DOMAIN m.history PROVE Panel(u, <<Listed(m.history[u], h)>>) \in Ops
            <3>1. Listed(m.history[u], h) \in Seq(ListedMessages) /\ u \in Numbers
                BY <1>1, ListedFacts
            <3>2. <<Listed(m.history[u], h)>> \in Seq(Seq(ListedMessages))
                BY <3>1
            <3> QED BY <3>1, <3>2 DEF Panel, Ops
        <2> QED BY <2>1 DEF PanelWrites
    <1>5. IsFiniteSet(PanelWrites(m, h))
        <2> DEFINE f == [u \in DOMAIN m.history |-> Panel(u, <<Listed(m.history[u], h)>>)]
        <2>1. /\ \A u \in DOMAIN m.history : f[u] \in PanelWrites(m, h)
              /\ \A y \in PanelWrites(m, h) : \E u \in DOMAIN m.history : f[u] = y
            BY DEF PanelWrites
        <2> HIDE DEF f
        <2> QED BY <2>1, <1>3, FiniteImage
    <1>6. \A u \in DOMAIN m.history : {File(m.history[u][j]) : j \in DOMAIN m.history[u]} \subseteq Ops
        BY <1>1, MessageFacts
    <1>7. HistoryMessages(m) \subseteq Ops
        BY <1>6 DEF HistoryMessages
    <1>8. ASSUME NEW u \in DOMAIN m.history
          PROVE  IsFiniteSet({File(m.history[u][j]) : j \in DOMAIN m.history[u]})
        <2>1. IsFiniteSet(DOMAIN m.history[u])
            <3>1. Len(m.history[u]) \in Nat /\ DOMAIN m.history[u] = 1 .. Len(m.history[u])
                BY <1>1
            <3> QED BY <3>1, FS_Interval
        <2> DEFINE f == [j \in DOMAIN m.history[u] |-> File(m.history[u][j])]
                   T == {File(m.history[u][j]) : j \in DOMAIN m.history[u]}
        <2>2. /\ \A j \in DOMAIN m.history[u] : f[j] \in T
              /\ \A y \in T : \E j \in DOMAIN m.history[u] : f[j] = y
            OBVIOUS
        <2>3. IsFiniteSet(T)
            <3> HIDE DEF f, T
            <3> QED BY <2>1, <2>2, FiniteImage
        <2> QED BY <2>3
    <1>9. IsFiniteSet(HistoryMessages(m))
        <2> DEFINE g == [u \in DOMAIN m.history |-> {File(m.history[u][j]) : j \in DOMAIN m.history[u]}]
                   T == {{File(m.history[u][j]) : j \in DOMAIN m.history[u]} : u \in DOMAIN m.history}
        <2>1. IsFiniteSet(T)
            <3>1. /\ \A u \in DOMAIN m.history : g[u] \in T
                  /\ \A y \in T : \E u \in DOMAIN m.history : g[u] = y
                OBVIOUS
            <3> HIDE DEF g, T
            <3> QED BY <3>1, <1>3, FiniteImage
        <2>2. \A x \in T : IsFiniteSet(x)
            BY <1>8
        <2>3. HistoryMessages(m) = UNION T
            BY Zenon DEF HistoryMessages
        <2> HIDE DEF T
        <2> QED BY <2>1, <2>2, <2>3, FS_UNION
    <1> DEFINE O == {p \in Numbers \ DOMAIN m.history : disk.panel[p] # NoPanel}
    <1>10. O \subseteq Numbers /\ IsFiniteSet(O)
        BY <1>2, FS_Subset
    <1>11. OrphanDeletes(m) \subseteq Ops
        <2>1. <<>> \in Seq(Seq(ListedMessages))
            OBVIOUS
        <2>2. ASSUME NEW u \in Numbers PROVE Panel(u, NoPanel) \in Ops
            BY <2>1 DEF Panel, NoPanel, Ops
        <2> QED BY <2>2 DEF OrphanDeletes
    <1>12. IsFiniteSet(OrphanDeletes(m))
        <2> DEFINE f == [u \in O |-> Panel(u, NoPanel)]
        <2>1. (\A u \in O : f[u] \in OrphanDeletes(m)) /\ \A y \in OrphanDeletes(m) : \E u \in O : f[u] = y
            BY DEF OrphanDeletes
        <2> HIDE DEF f, O
        <2> QED BY <2>1, <1>10, FiniteImage
    <1> QED BY <1>4, <1>5, <1>7, <1>9, <1>11, <1>12

LEMMA BatchFacts ==
    ASSUME NEW m, StateOK(m), NEW v \in Nat, NEW h, disk \in Disks, NEW b, b = BuildSaveBatch(m, v, h)
    PROVE  /\ b \in Seq(Ops) /\ Len(b) >= 3 /\ b # <<>>
           /\ b[1] = ConfigOp(m, v) /\ b[2] = Worker(DOMAIN m.history) /\ b[3] = Chat(Listed(m.chat, h))
           /\ \A k \in DOMAIN b : k > 3 => b[k] \in Rest(m, h)
           /\ \A op \in Rest(m, h) : \E k \in DOMAIN b : b[k] = op
PROOF
    <1> DEFINE head == <<ConfigOp(m, v), Worker(DOMAIN m.history), Chat(Listed(m.chat, h))>>
               p == SetToSeq(PanelWrites(m, h))
               q == SetToSeq(HistoryMessages(m))
               o == SetToSeq(OrphanDeletes(m))
    <1>1. /\ m.chat \in Seq(Messages) /\ m.next \in Nat /\ DOMAIN m.history \subseteq Numbers
        BY StateFacts
    <1>2. ConfigOp(m, v) \in Ops /\ Worker(DOMAIN m.history) \in Ops /\ Chat(Listed(m.chat, h)) \in Ops
        BY <1>1, ListedFacts DEF ConfigOp, Config, Worker, Chat, Ops, Configs
    <1>3. head \in Seq(Ops) /\ Len(head) = 3
          /\ head[1] = ConfigOp(m, v) /\ head[2] = Worker(DOMAIN m.history) /\ head[3] = Chat(Listed(m.chat, h))
        BY <1>2
    <1> DEFINE r == p \o q \o o
    <1>4. b = head \o r
        BY DEF BuildSaveBatch, ConfigOp
    <1>5. /\ p \in Seq(PanelWrites(m, h)) /\ \A x \in PanelWrites(m, h) : InSeq(x, p)
          /\ q \in Seq(HistoryMessages(m)) /\ \A x \in HistoryMessages(m) : InSeq(x, q)
          /\ o \in Seq(OrphanDeletes(m)) /\ \A x \in OrphanDeletes(m) : InSeq(x, o)
        BY RestFacts, SetToSeqFacts DEF InSeq
    <1> HIDE DEF head, p, q, o
    <1>6. p \in Seq(Rest(m, h)) /\ q \in Seq(Rest(m, h)) /\ o \in Seq(Rest(m, h)) /\ Rest(m, h) \subseteq Ops
        BY <1>5, RestFacts DEF Rest
    <1>7. r \in Seq(Rest(m, h)) /\ \A x : InSeq(x, p) \/ InSeq(x, q) \/ InSeq(x, o) => InSeq(x, r)
        <2> DEFINE pq == p \o q
        <2>1. pq \in Seq(Rest(m, h)) /\ \A x : InSeq(x, p) \/ InSeq(x, q) => InSeq(x, pq)
            BY <1>6, ConcatElements
        <2> HIDE DEF pq
        <2>2. pq \o o \in Seq(Rest(m, h)) /\ \A x : InSeq(x, pq) \/ InSeq(x, o) => InSeq(x, pq \o o)
            BY <1>6, <2>1, ConcatElements
        <2> QED BY <2>1, <2>2 DEF pq
    <1>8. \A x \in Rest(m, h) : InSeq(x, r)
        <2> HIDE DEF r
        <2> QED BY <1>5, <1>7 DEF Rest
    <1> HIDE DEF r
    <1>9. r \in Seq(Ops) /\ Len(r) \in Nat /\ DOMAIN r = 1 .. Len(r) /\ \A i \in 1 .. Len(r) : r[i] \in Rest(m, h)
        BY <1>6, <1>7
    <1>10. /\ b \in Seq(Ops) /\ Len(b) = 3 + Len(r) /\ DOMAIN b = 1 .. 3 + Len(r)
           /\ \A i \in 1 .. 3 : b[i] = head[i]
           /\ \A i \in 1 .. Len(r) : b[3 + i] = r[i]
        <2>1. /\ b \in Seq(Ops) /\ Len(b) = Len(head) + Len(r)
              /\ \A i \in 1 .. Len(head) : b[i] = head[i]
              /\ \A i \in 1 .. Len(r) : b[Len(head) + i] = r[i]
            <3>1. head \in Seq(Ops) /\ r \in Seq(Ops) /\ b = head \o r
                BY <1>3, <1>4, <1>9
            <3> QED BY ONLY <3>1, ConcatFacts
        <2>2. DOMAIN b = 1 .. Len(b)
            BY <2>1
        <2> QED BY <2>1, <2>2, <1>3
    <1>11. ASSUME NEW k \in DOMAIN b, k > 3 PROVE b[k] \in Rest(m, h)
        <2>1. k - 3 \in 1 .. Len(r) /\ k = 3 + (k - 3)
            BY <1>9, <1>10, <1>11
        <2> QED BY <2>1, <1>9, <1>10
    <1>12. \A op \in Rest(m, h) : \E k \in DOMAIN b : b[k] = op
        <2>1. \A i \in 1 .. Len(r) : 3 + i \in DOMAIN b
            BY <1>9, <1>10
        <2> QED BY <1>8, <1>9, <1>10, <2>1 DEF InSeq
    <1>13. Len(b) >= 3 /\ b # <<>>
        BY <1>9, <1>10
    <1> QED BY <1>3, <1>10, <1>11, <1>12, <1>13

(* What a boot reads back: every message under the uid that lists it, with *)
(* the body of its file.                                                    *)
Read(d, list) == [i \in DOMAIN list |-> [uid |-> list[i].uid, body |-> d.message[list[i].uid]]]
Loose == [uid : Uids, body : Bodies \cup {Absent}]

LEMMA ReadFacts ==
    ASSUME NEW d \in Disks, NEW list \in Seq(ListedMessages)
    PROVE  /\ Read(d, list) \in Seq(Loose) /\ Len(Read(d, list)) = Len(list) /\ Len(list) \in Nat
           /\ DOMAIN Read(d, list) = DOMAIN list /\ DOMAIN list = 1 .. Len(list)
           /\ \A i \in DOMAIN list : /\ list[i].uid \in Uids
                                     /\ Read(d, list)[i].uid = list[i].uid
                                     /\ Read(d, list)[i].body = d.message[list[i].uid]
           /\ LoadMessages(d, list) = Of(Read(d, list), Bodies)
PROOF
    <1>1. Len(list) \in Nat /\ DOMAIN list = 1 .. Len(list)
        OBVIOUS
    <1>2. \A i \in 1 .. Len(list) : list[i].uid \in Uids
        <2>1. \A i \in 1 .. Len(list) : list[i] \in ListedMessages
            OBVIOUS
        <2> QED BY <2>1 DEF ListedMessages
    <1>3. \A i \in 1 .. Len(list) : [uid |-> list[i].uid, body |-> d.message[list[i].uid]] \in Loose
        BY <1>2, DiskFacts DEF Loose
    <1>4. Read(d, list) \in [1 .. Len(list) -> Loose]
        BY <1>1, <1>3 DEF Read
    <1>5. Read(d, list) \in Seq(Loose) /\ Len(Read(d, list)) = Len(list)
        BY <1>1, <1>4
    <1> QED BY <1>1, <1>2, <1>4, <1>5 DEF Read, LoadMessages

LEMMA LoadFacts ==
    ASSUME NEW d \in Disks, NEW list \in Seq(ListedMessages), NEW ms, ms = LoadMessages(d, list)
    PROVE  /\ ms \in Seq(Messages)
           /\ \A i \in DOMAIN ms : \E j \in DOMAIN list :
                  ms[i].uid = list[j].uid /\ ms[i].uid \in Uids
                  /\ ms[i].body \in Bodies /\ ms[i].body = d.message[ms[i].uid]
           /\ Distinct(list) => Distinct(ms)
PROOF
    <1> DEFINE r == Read(d, list)
    <1>1. /\ r \in Seq(Loose) /\ DOMAIN r = DOMAIN list /\ ms = Of(r, Bodies)
          /\ \A i \in DOMAIN list : /\ list[i].uid \in Uids /\ r[i].uid = list[i].uid
                                    /\ r[i].body = d.message[list[i].uid]
        BY ReadFacts
    <1> HIDE DEF r
    <1>2. /\ ms \in Seq(Loose)
          /\ \A i \in DOMAIN ms : \E j \in DOMAIN r : ms[i] = r[j] /\ r[j].body \in Bodies
          /\ Distinct(r) => Distinct(ms)
        BY <1>1, OfElements
    <1>3. \A i \in DOMAIN ms : ms[i] \in Messages
        <2>1. \A x \in Loose : x.body \in Bodies => x \in Messages
            BY DEF Loose, Messages
        <2> QED BY <1>2, <2>1
    <1>4. ms \in Seq(Messages)
        BY <1>2, <1>3
    <1>5. Distinct(list) => Distinct(r)
        BY <1>1 DEF Distinct
    <1> QED BY <1>1, <1>2, <1>4, <1>5

LEMMA LoadStateFacts ==
    ASSUME NEW d \in Disks, NEW m, m = LoadState(d)
    PROVE  /\ StateOK(m) /\ m.next = d.config.next
           /\ m.chat = LoadMessages(d, d.chat)
           /\ DOMAIN m.history = {p \in d.worker : d.panel[p] # NoPanel}
           /\ \A p \in DOMAIN m.history :
                  /\ p \in Numbers /\ d.panel[p][1] \in Seq(ListedMessages)
                  /\ m.history[p] = LoadMessages(d, d.panel[p][1])
PROOF
    <1> DEFINE D == {p \in d.worker : d.panel[p] # NoPanel}
               H == [u \in D |-> LoadMessages(d, d.panel[u][1])]
    <1>1. m = [chat |-> LoadMessages(d, d.chat), history |-> H, next |-> d.config.next]
        BY DEF LoadState
    <1>2. D \subseteq Numbers /\ d.config.next \in Nat
        BY DiskFacts DEF Configs
    <1>3. ASSUME NEW p \in D PROVE d.panel[p][1] \in Seq(ListedMessages)
        <2>1. d.panel[p] \in Seq(Seq(ListedMessages)) /\ d.panel[p] # <<>>
            BY <1>2, DiskFacts DEF NoPanel
        <2> QED BY <2>1
    <1>4. ASSUME NEW p \in D PROVE LoadMessages(d, d.panel[p][1]) \in Seq(Messages)
        BY <1>3, LoadFacts
    <1>5. LoadMessages(d, d.chat) \in Seq(Messages)
        BY DiskFacts, LoadFacts
    <1>6. DOMAIN H = D /\ \A p \in D : H[p] = LoadMessages(d, d.panel[p][1])
        OBVIOUS
    <1>7. H \in [D -> Seq(Messages)]
        BY <1>4
    <1> HIDE DEF H
    <1>8. m.chat = LoadMessages(d, d.chat) /\ m.history = H /\ m.next = d.config.next
        BY <1>1
    <1>9. StateOK(m)
        BY <1>1, <1>2, <1>5, <1>6, <1>7, <1>8 DEF StateOK
    <1> QED BY <1>2, <1>3, <1>6, <1>8, <1>9

-----------------------------------------------------------------------------
(* Types *)

(* save_state_async adds the messages and one batch to the channel. *)
Sends(b, ms) ==
    /\ Len(chan') = Len(chan) + Len(ms) + 1
    /\ \A i \in 1 .. Len(chan) : chan'[i] = chan[i]
    /\ \A i \in 1 .. Len(ms) : chan'[Len(chan) + i] = SendMessage(File(ms[i]))
    /\ chan'[Len(chan) + Len(ms) + 1] = SendBatch(b)

LEMMA MsgFacts ==
    ASSUME NEW op \in Ops, NEW b \in Seq(Ops)
    PROVE  /\ SendMessage(op) \in WriterMsgs /\ SendBatch(b) \in WriterMsgs
           /\ SendFlush(1) \in WriterMsgs /\ SendFlush(2) \in WriterMsgs /\ SendShutdown \in WriterMsgs
           /\ SendMessage(op).kind = "message" /\ SendMessage(op).ops = <<op>>
           /\ SendBatch(b).kind = "batch" /\ SendBatch(b).ops = b
PROOF
    <1>1. <<op>> \in Seq(Ops)
        OBVIOUS
    <1> QED BY <1>1 DEF SendMessage, SendBatch, SendFlush, SendShutdown, WriterMsgs

LEMMA SaveFacts ==
    ASSUME OwnTypeOK, NEW m, StateOK(m), NEW ms \in Seq(Messages), SaveStateAsync(m, ms)
    PROVE  /\ mem' = m /\ built' = built + 1 /\ StateOK(mem')
           /\ chan' \in Seq(WriterMsgs)
           /\ \E b \in Seq(Ops) : b = BuildSaveBatch(m, built + 1, handed') /\ Sends(b, ms)
PROOF
    <1> DEFINE b == BuildSaveBatch(m, built + 1, handed')
               f == [i \in DOMAIN ms |-> SendMessage(File(ms[i]))]
    <1>1. b \in Seq(Ops)
        <2>1. built + 1 \in Nat /\ disk \in Disks
            BY DEF OwnTypeOK, CountersTypeOK
        <2> QED BY <2>1, BatchFacts
    <1>2. mem' = m /\ built' = built + 1 /\ chan' = chan \o f \o <<SendBatch(b)>>
        BY DEF SaveStateAsync
    <1>3. Len(ms) \in Nat /\ DOMAIN ms = 1 .. Len(ms)
        OBVIOUS
    <1>4. \A i \in 1 .. Len(ms) : SendMessage(File(ms[i])) \in WriterMsgs
        BY <1>1, <1>3, MessageFacts, MsgFacts
    <1>5. f \in Seq(WriterMsgs) /\ Len(f) = Len(ms) /\ \A i \in 1 .. Len(ms) : f[i] = SendMessage(File(ms[i]))
        BY <1>3, <1>4
    <1>6. SendBatch(b) \in WriterMsgs /\ chan \in Seq(WriterMsgs)
        BY <1>1, MsgFacts, <1>4, OpFacts DEF OwnTypeOK, ThreadTypeOK, SendBatch, WriterMsgs
    <1> DEFINE c == chan \o f
    <1> HIDE DEF b, f
    <1>7. /\ c \in Seq(WriterMsgs) /\ Len(c) = Len(chan) + Len(ms) /\ Len(chan) \in Nat
          /\ \A i \in 1 .. Len(chan) : c[i] = chan[i]
          /\ \A i \in 1 .. Len(ms) : c[Len(chan) + i] = f[i]
        <2>1. /\ c \in Seq(WriterMsgs) /\ Len(c) = Len(chan) + Len(f)
              /\ \A i \in 1 .. Len(chan) : c[i] = chan[i]
              /\ \A i \in 1 .. Len(f) : c[Len(chan) + i] = f[i]
            <3>1. chan \in Seq(WriterMsgs) /\ f \in Seq(WriterMsgs)
                BY <1>5, <1>6
            <3> QED BY ONLY <3>1, ConcatFacts
        <2> HIDE DEF c
        <2> QED BY <2>1, <1>5, <1>6
    <1>8. chan' = Append(c, SendBatch(b))
        BY <1>2, <1>7, <1>6 DEF c
    <1> HIDE DEF c
    <1>9. /\ chan' \in Seq(WriterMsgs) /\ Len(chan') = Len(c) + 1
          /\ \A i \in 1 .. Len(c) : chan'[i] = c[i]
          /\ chan'[Len(c) + 1] = SendBatch(b)
        BY <1>6, <1>7, <1>8, AppendFacts
    <1>10. Sends(b, ms)
        <2>1. \A i \in 1 .. Len(chan) : i \in 1 .. Len(c)
            BY <1>7, <1>3
        <2>2. \A i \in 1 .. Len(ms) : Len(chan) + i \in 1 .. Len(c)
            BY <1>7, <1>3
        <2> QED BY <2>1, <2>2, <1>5, <1>7, <1>9 DEF Sends
    <1> QED BY <1>1, <1>2, <1>9, <1>10 DEF b

(* The state in memory after each operation. *)
LEMMA PushFacts ==
    ASSUME OwnTypeOK, NEW t \in {"U", "A"}, made < MaxMessages, mem.next \in Numbers,
           NEW msg, msg = [uid |-> <<mem.next, t>>, body |-> made + 1],
           NEW m, m = [mem EXCEPT !.chat = Append(@, msg), !.next = @ + 1]
    PROVE  /\ msg \in Messages /\ msg.uid \in Uids /\ msg.body \in Bodies
           /\ msg.uid = <<mem.next, t>> /\ msg.uid[1] = mem.next /\ msg.body = made + 1
           /\ m.chat = Append(mem.chat, msg) /\ m.history = mem.history /\ m.next = mem.next + 1
           /\ StateOK(m)
PROOF
    <1>1. made \in Nat /\ made + 1 \in Bodies
        BY BoundsAssumption DEF OwnTypeOK, CountersTypeOK, Bodies
    <1>2. <<mem.next, t>> \in Uids /\ <<mem.next, t>>[1] = mem.next
        BY DEF Uids
    <1>3. msg \in Messages /\ msg.uid = <<mem.next, t>> /\ msg.body = made + 1
        BY <1>1, <1>2 DEF Messages
    <1>4. StateOK(mem) /\ mem = [chat |-> mem.chat, history |-> mem.history, next |-> mem.next]
        BY DEF OwnTypeOK, MainTypeOK, StateOK
    <1>5. m = [chat |-> Append(mem.chat, msg), history |-> mem.history, next |-> mem.next + 1]
        BY <1>4
    <1>6. Append(mem.chat, msg) \in Seq(Messages) /\ mem.next + 1 \in Nat
        BY <1>3, <1>4 DEF StateOK
    <1> QED BY <1>1, <1>2, <1>3, <1>4, <1>5, <1>6 DEF StateOK

LEMMA ClearFacts ==
    ASSUME OwnTypeOK, NEW m, m = [mem EXCEPT !.chat = <<>>]
    PROVE  m.chat = <<>> /\ m.history = mem.history /\ m.next = mem.next /\ StateOK(m)
PROOF BY DEF OwnTypeOK, MainTypeOK, StateOK

LEMMA MoveFacts ==
    ASSUME OwnTypeOK, Len(mem.chat) > 1, mem.next \in Numbers,
           NEW m, m = [chat |-> Tail(mem.chat), next |-> mem.next + 1,
                       history |-> [p \in DOMAIN mem.history \cup {mem.next} |->
                                       IF p = mem.next THEN <<Head(mem.chat)>> ELSE mem.history[p]]]
    PROVE  /\ StateOK(m) /\ m.next = mem.next + 1 /\ m.chat = Tail(mem.chat)
           /\ DOMAIN m.history = DOMAIN mem.history \cup {mem.next}
           /\ m.history[mem.next] = <<mem.chat[1]>>
           /\ \A p \in DOMAIN mem.history : p # mem.next => m.history[p] = mem.history[p]
           /\ Head(mem.chat) = mem.chat[1] /\ mem.chat[1] \in Messages /\ mem.chat # <<>>
PROOF
    <1>1. StateOK(mem)
        BY DEF OwnTypeOK, MainTypeOK
    <1>2. /\ mem.chat \in Seq(Messages) /\ mem.chat # <<>> /\ Head(mem.chat) = mem.chat[1]
          /\ mem.chat[1] \in Messages /\ Tail(mem.chat) \in Seq(Messages) /\ <<mem.chat[1]>> \in Seq(Messages)
        BY <1>1, StateFacts
    <1> DEFINE H == [p \in DOMAIN mem.history \cup {mem.next} |->
                        IF p = mem.next THEN <<Head(mem.chat)>> ELSE mem.history[p]]
    <1>3. /\ DOMAIN H = DOMAIN mem.history \cup {mem.next} /\ H[mem.next] = <<mem.chat[1]>>
          /\ \A p \in DOMAIN mem.history : p # mem.next => H[p] = mem.history[p]
        BY <1>2
    <1>4. H \in [DOMAIN H -> Seq(Messages)] /\ DOMAIN H \subseteq Numbers
        BY <1>1, <1>2, <1>3, StateFacts
    <1> HIDE DEF H
    <1>5. m = [chat |-> Tail(mem.chat), next |-> mem.next + 1, history |-> H]
        BY DEF H
    <1>6. mem.next + 1 \in Nat
        BY <1>1, StateFacts
    <1>7. m.chat = Tail(mem.chat) /\ m.next = mem.next + 1 /\ m.history = H
        BY <1>5
    <1>8. StateOK(m)
        BY <1>2, <1>4, <1>5, <1>6, <1>7 DEF StateOK
    <1> QED BY <1>2, <1>3, <1>7, <1>8

LEMMA CloseFacts ==
    ASSUME OwnTypeOK, NEW u, NEW m, m = [mem EXCEPT !.history = [p \in DOMAIN @ \ {u} |-> @[p]]]
    PROVE  /\ StateOK(m) /\ m.next = mem.next /\ m.chat = mem.chat
           /\ DOMAIN m.history = DOMAIN mem.history \ {u}
           /\ \A p \in DOMAIN m.history : m.history[p] = mem.history[p]
PROOF
    <1>1. StateOK(mem) /\ mem = [chat |-> mem.chat, history |-> mem.history, next |-> mem.next]
        BY DEF OwnTypeOK, MainTypeOK, StateOK
    <1> DEFINE H == [p \in DOMAIN mem.history \ {u} |-> mem.history[p]]
    <1>2. m = [chat |-> mem.chat, history |-> H, next |-> mem.next]
        BY <1>1
    <1>3. DOMAIN H = DOMAIN mem.history \ {u} /\ \A p \in DOMAIN H : H[p] = mem.history[p]
        OBVIOUS
    <1>4. H \in [DOMAIN H -> Seq(Messages)]
        BY <1>1, StateFacts
    <1> HIDE DEF H
    <1>5. m.chat = mem.chat /\ m.next = mem.next /\ m.history = H
        BY <1>2
    <1> QED BY <1>1, <1>2, <1>3, <1>4, <1>5, StateFacts DEF StateOK

LEMMA HeadMsg ==
    ASSUME OwnTypeOK, chan # <<>>
    PROVE  /\ Head(chan) = chan[1] /\ chan[1] \in WriterMsgs /\ Tail(chan) \in Seq(WriterMsgs)
           /\ Len(chan) \in Nat \ {0} /\ Len(Tail(chan)) = Len(chan) - 1
           /\ \A i \in 1 .. Len(chan) - 1 : Tail(chan)[i] = chan[i + 1]
           /\ Head(chan).ops \in Seq(Ops)
           /\ Head(chan).kind \in {"batch", "message", "flush", "shutdown"}
           /\ Head(chan).kind = "flush" => Head(chan).id \in {1, 2}
PROOF
    <1>1. chan \in Seq(WriterMsgs)
        BY DEF OwnTypeOK, ThreadTypeOK
    <1>2. /\ Head(chan) = chan[1] /\ chan[1] \in WriterMsgs /\ Tail(chan) \in Seq(WriterMsgs)
          /\ Len(chan) \in Nat \ {0} /\ Len(Tail(chan)) = Len(chan) - 1
          /\ \A i \in 1 .. Len(chan) - 1 : Tail(chan)[i] = chan[i + 1]
        BY <1>1, TailFacts
    <1>3. <<>> \in Seq(Ops)
        OBVIOUS
    <1>4. ASSUME NEW x \in WriterMsgs
          PROVE  /\ x.ops \in Seq(Ops) /\ x.kind \in {"batch", "message", "flush", "shutdown"}
                 /\ x.kind = "flush" => x.id \in {1, 2}
        BY <1>3 DEF WriterMsgs
    <1> QED BY <1>2, <1>4

(* Every step keeps the types. *)
LEMMA TypeStep ==
    ASSUME OwnTypeOK, [Step]_ownVars
    PROVE  OwnTypeOK'
PROOF
    <1> USE DEF OwnTypeOK
    <1>0. StateOK(mem) /\ disk \in Disks /\ built + 1 \in Nat /\ mem.chat \in Seq(Messages) /\ mem.next \in Nat
        BY StateFacts DEF MainTypeOK, CountersTypeOK
    <1>b. BuildSaveBatch(mem, built + 1, handed) \in Seq(Ops)
        BY <1>0, BatchFacts
    <1>e. <<>> \in Seq(Ops) /\ <<>> \in Seq(WriterMsgs) /\ <<>> \in Seq(Messages)
        OBVIOUS
    <1>p. messages \o batch \in Seq(Ops)
        BY DEF ThreadTypeOK
    <1>1. CASE UserMessage
        <2> DEFINE msg == [uid |-> <<mem.next, "U">>, body |-> made + 1]
                   m == [mem EXCEPT !.chat = Append(@, msg), !.next = @ + 1]
        <2>1. /\ made < MaxMessages /\ mem.next \in Numbers /\ made' = made + 1
              /\ handed' = handed \cup {msg.body} /\ disk' = Apply(disk, File(msg)) /\ SaveStateAsync(m, <<>>)
              /\ UNCHANGED <<main, exit, mainOps, threadVars, crashes, removed, overtaken, stale, timedOut>>
            BY <1>1 DEF UserMessage
        <2>2. msg \in Messages /\ msg.body = made + 1 /\ StateOK(m)
            BY <2>1, PushFacts
        <2> HIDE DEF msg, m
        <2>3. File(msg) \in Ops
            BY <2>2 DEF Messages, File, Ops
        <2>4. disk' \in Disks
            BY <2>1, <2>3, <1>0, ApplyFacts
        <2>5. StateOK(mem') /\ built' = built + 1 /\ chan' \in Seq(WriterMsgs)
            BY <2>1, <2>2, <1>e, SaveFacts
        <2>6. MainTypeOK'
            BY <2>1, <2>5 DEF MainTypeOK, StateOK
        <2>7. ThreadTypeOK'
            BY <2>1, <2>5 DEF ThreadTypeOK, threadVars
        <2>8. CountersTypeOK'
            BY <2>1, <2>2, <2>5, BoundsAssumption DEF CountersTypeOK, Bodies
        <2> QED BY <2>4, <2>6, <2>7, <2>8
    <1>2. CASE BeginAssistant
        <2> DEFINE msg == [uid |-> <<mem.next, "A">>, body |-> made + 1]
                   m == [mem EXCEPT !.chat = Append(@, msg), !.next = @ + 1]
        <2>1. /\ made < MaxMessages /\ mem.next \in Numbers /\ made' = made + 1
              /\ SaveStateAsync(m, <<>>)
              /\ UNCHANGED <<handed, disk, main, exit, mainOps, threadVars, crashes, removed, overtaken, stale, timedOut>>
            BY <1>2 DEF BeginAssistant
        <2>2. StateOK(m)
            BY <2>1, PushFacts
        <2> HIDE DEF msg, m
        <2>5. StateOK(mem') /\ built' = built + 1 /\ chan' \in Seq(WriterMsgs)
            BY <2>1, <2>2, <1>e, SaveFacts
        <2>6. MainTypeOK'
            BY <2>1, <2>5 DEF MainTypeOK, StateOK
        <2>7. ThreadTypeOK'
            BY <2>1, <2>5 DEF ThreadTypeOK, threadVars
        <2>8. CountersTypeOK'
            BY <2>1, <2>5, BoundsAssumption DEF CountersTypeOK
        <2> QED BY <2>1, <2>6, <2>7, <2>8
    <1>3. CASE FinishAssistant
        <2> DEFINE msg == Last(mem.chat)
        <2>1. /\ mem.chat # <<>> /\ handed' = handed \cup {msg.body} /\ SaveStateAsync(mem, <<msg>>)
              /\ UNCHANGED <<main, exit, mainOps, threadVars, disk, made, crashes, removed, overtaken, stale, timedOut>>
            BY <1>3 DEF FinishAssistant
        <2>2. msg \in Messages /\ <<msg>> \in Seq(Messages)
            BY <2>1, <1>0 DEF Last
        <2> HIDE DEF msg
        <2>5. StateOK(mem') /\ built' = built + 1 /\ chan' \in Seq(WriterMsgs)
            BY <2>1, <2>2, <1>0, SaveFacts
        <2>6. MainTypeOK'
            BY <2>1, <2>5 DEF MainTypeOK, StateOK
        <2>7. ThreadTypeOK'
            BY <2>1, <2>5 DEF ThreadTypeOK, threadVars
        <2>8. CountersTypeOK'
            BY <2>1, <2>2, <2>5, BoundsAssumption DEF CountersTypeOK, Messages
        <2> QED BY <2>1, <2>6, <2>7, <2>8
    <1>4. CASE ClearConversation
        <2> DEFINE m == [mem EXCEPT !.chat = <<>>]
        <2>1. /\ disk' = DeleteFiles(disk, mem.chat) /\ removed' = removed \cup BodiesOf(mem.chat)
              /\ SaveStateAsync(m, <<>>)
              /\ UNCHANGED <<handed, main, exit, mainOps, threadVars, made, crashes, overtaken, stale, timedOut>>
            BY <1>4 DEF ClearConversation
        <2>2. StateOK(m)
            BY ClearFacts
        <2> HIDE DEF m
        <2>3. BodiesOf(mem.chat) \subseteq Bodies
            BY <1>0, MessageFacts DEF BodiesOf
        <2>4. disk' \in Disks
            BY <2>1, <1>0, DeleteFacts
        <2>5. StateOK(mem') /\ built' = built + 1 /\ chan' \in Seq(WriterMsgs)
            BY <2>1, <2>2, <1>e, SaveFacts
        <2>6. MainTypeOK'
            BY <2>1, <2>5 DEF MainTypeOK, StateOK
        <2>7. ThreadTypeOK'
            BY <2>1, <2>5 DEF ThreadTypeOK, threadVars
        <2>8. CountersTypeOK'
            BY <2>1, <2>3, <2>5 DEF CountersTypeOK
        <2> QED BY <2>4, <2>6, <2>7, <2>8
    <1>5. CASE Detach
        <2> DEFINE old == <<Head(mem.chat)>>
                   m == [chat |-> Tail(mem.chat), next |-> mem.next + 1,
                         history |-> [p \in DOMAIN mem.history \cup {mem.next} |->
                                         IF p = mem.next THEN <<Head(mem.chat)>> ELSE mem.history[p]]]
        <2>1. /\ Len(mem.chat) > 1 /\ mem.next \in Numbers
              /\ disk' = DeleteFiles(disk, old) /\ removed' = removed \cup BodiesOf(old)
              /\ SaveStateAsync(m, <<>>)
              /\ UNCHANGED <<handed, main, exit, mainOps, threadVars, made, crashes, overtaken, stale, timedOut>>
            BY <1>5 DEF Detach
        <2>2. StateOK(m) /\ old \in Seq(Messages)
            <3>1. StateOK(m) /\ Head(mem.chat) \in Messages
                BY <2>1, MoveFacts
            <3> HIDE DEF m
            <3> QED BY <3>1
        <2> HIDE DEF m, old
        <2>3. BodiesOf(old) \subseteq Bodies
            BY <2>2, MessageFacts DEF BodiesOf
        <2>4. disk' \in Disks
            BY <2>1, <1>0, DeleteFacts
        <2>5. StateOK(mem') /\ built' = built + 1 /\ chan' \in Seq(WriterMsgs)
            BY <2>1, <2>2, <1>e, SaveFacts
        <2>6. MainTypeOK'
            BY <2>1, <2>5 DEF MainTypeOK, StateOK
        <2>7. ThreadTypeOK'
            BY <2>1, <2>5 DEF ThreadTypeOK, threadVars
        <2>8. CountersTypeOK'
            BY <2>1, <2>3, <2>5 DEF CountersTypeOK
        <2> QED BY <2>4, <2>6, <2>7, <2>8
    <1>6. ASSUME NEW u \in Numbers, ClosePanel(u) PROVE OwnTypeOK'
        <2> DEFINE m == [mem EXCEPT !.history = [p \in DOMAIN @ \ {u} |-> @[p]]]
        <2>1. /\ SaveStateAsync(m, <<>>)
              /\ UNCHANGED <<handed, main, exit, mainOps, threadVars, disk, made, crashes, removed,
                             overtaken, stale, timedOut>>
            BY <1>6 DEF ClosePanel
        <2>2. StateOK(m)
            BY CloseFacts
        <2> HIDE DEF m
        <2>5. StateOK(mem') /\ built' = built + 1 /\ chan' \in Seq(WriterMsgs)
            BY <2>1, <2>2, <1>e, SaveFacts
        <2>6. MainTypeOK'
            BY <2>1, <2>5 DEF MainTypeOK, StateOK
        <2>7. ThreadTypeOK'
            BY <2>1, <2>5 DEF ThreadTypeOK, threadVars
        <2>8. CountersTypeOK'
            BY <2>1, <2>5 DEF CountersTypeOK
        <2> QED BY <2>1, <2>6, <2>7, <2>8
    <1>7. CASE SyncSave
        BY <1>7, <1>b DEF SyncSave, StartSyncSave, BatchQueued, threadVars, MainTypeOK, ThreadTypeOK, CountersTypeOK
    <1>8. CASE SyncOp
        <2>1. /\ mainOps # <<>> /\ main \in {"saving", "lastSave"} /\ disk' = Apply(disk, Head(mainOps))
              /\ mainOps' = Tail(mainOps) /\ main' = IF main = "saving" /\ Tail(mainOps) = <<>> THEN "run" ELSE main
              /\ UNCHANGED <<exit, mem, chan, threadVars, ghosts>>
            BY <1>8 DEF SyncOp
        <2>2. Head(mainOps) \in Ops /\ Tail(mainOps) \in Seq(Ops)
            BY <2>1, TailFacts DEF MainTypeOK
        <2>3. disk' \in Disks
            BY <2>1, <2>2, <1>0, ApplyFacts
        <2>4. MainTypeOK'
            BY <2>1, <2>2 DEF MainTypeOK, StateOK
        <2>5. ThreadTypeOK' /\ CountersTypeOK'
            BY <2>1 DEF ThreadTypeOK, CountersTypeOK, threadVars, ghosts
        <2> QED BY <2>3, <2>4, <2>5
    <1>9. ASSUME NEW e \in Exits, NEW n \in {"flush", "drop"}, Leave(e, n) PROVE OwnTypeOK'
        <2>1. SendFlush(1) \in WriterMsgs
            BY DEF SendFlush, WriterMsgs
        <2>2. chan' \in Seq(WriterMsgs)
            BY <2>1, <1>9, AppendFacts DEF Leave, ThreadTypeOK
        <2> QED BY <1>9, <2>2 DEF Leave, threadVars, MainTypeOK, StateOK, ThreadTypeOK, CountersTypeOK
    <1>10. CASE Quit
        BY <1>10, <1>9 DEF Quit
    <1>11. CASE Disowned
        BY <1>11, <1>9 DEF Disowned, Exits
    <1>12. CASE FinalSave
        <2>1. timedOut' \in BOOLEAN
            BY <1>12 DEF FinalSave, FlushDone, FlushTimeout, CountersTypeOK
        <2>2. overtaken' \in BOOLEAN
            BY <1>12 DEF FinalSave, StartSyncSave, BatchQueued, CountersTypeOK
        <2> QED BY <1>12, <1>b, <2>1, <2>2 DEF FinalSave, StartSyncSave, threadVars, MainTypeOK, StateOK,
                                            ThreadTypeOK, CountersTypeOK
    <1>13. CASE LeaveMain
        <2>1. SendFlush(2) \in WriterMsgs
            BY DEF SendFlush, WriterMsgs
        <2>2. Append(chan, SendFlush(2)) \in Seq(WriterMsgs)
            BY <2>1, AppendFacts DEF ThreadTypeOK
        <2>3. [disk EXCEPT !.config.reload = TRUE] \in Disks
            BY <1>0 DEF Disks, Configs
        <2> QED BY <1>13, <2>2, <2>3 DEF LeaveMain, threadVars, ghosts, MainTypeOK, StateOK, ThreadTypeOK, CountersTypeOK
    <1>14. CASE DropWriter
        <2>1. SendShutdown \in WriterMsgs
            BY DEF SendShutdown, WriterMsgs
        <2>2. Append(chan, SendShutdown) \in Seq(WriterMsgs)
            BY <2>1, AppendFacts DEF ThreadTypeOK
        <2> QED BY <1>14, <2>2 DEF DropWriter, FlushDone, FlushTimeout, threadVars, MainTypeOK, StateOK,
                                   ThreadTypeOK, CountersTypeOK
    <1>15. CASE Join
        BY <1>15 DEF Join, threadVars, ghosts, MainTypeOK, StateOK, ThreadTypeOK, CountersTypeOK
    <1>16. CASE Receive
        <2>1. /\ Head(chan).ops \in Seq(Ops)
              /\ Head(chan).kind = "flush" => Head(chan).id \in {1, 2}
              /\ chan # <<>> /\ chan' = Tail(chan) /\ Tail(chan) \in Seq(WriterMsgs)
              /\ UNCHANGED <<mainVars, acked, disk, ghosts>>
            BY <1>16, HeadMsg DEF Receive
        <2>2. messages \o Head(chan).ops \in Seq(Ops)
            BY <2>1, ConcatFacts DEF ThreadTypeOK
        <2>3. /\ batch' \in Seq(Ops) /\ messages' \in Seq(Ops) /\ exec' \in Seq(Ops)
              /\ then' \in {"loop", "ack", "exit", "gone"} /\ flush' \in 0 .. 2
            <3>1. CASE Head(chan).kind = "batch"
                BY <1>16, <3>1, <2>1 DEF Receive, ThreadTypeOK
            <3>2. CASE Head(chan).kind = "message"
                BY <1>16, <3>2, <2>2 DEF Receive, ThreadTypeOK
            <3>3. CASE Head(chan).kind = "flush"
                <4>1. /\ flush' = Head(chan).id /\ then' = "ack" /\ exec' = messages \o batch
                      /\ batch' = <<>> /\ messages' = <<>>
                    BY <1>16, <3>3 DEF Receive, ExecutePending
                <4>2. Head(chan).id \in 0 .. 2
                    BY <3>3, <2>1
                <4> QED BY <4>1, <4>2, <1>p, <1>e
            <3>4. CASE Head(chan).kind = "shutdown"
                BY <1>16, <3>4, <1>p, <1>e DEF Receive, ExecutePending, ThreadTypeOK
            <3> QED BY <1>16, <3>1, <3>2, <3>3, <3>4 DEF Receive
        <2>4. ThreadTypeOK'
            BY <2>1, <2>3 DEF ThreadTypeOK
        <2> QED BY <2>1, <2>4 DEF mainVars, ghosts, MainTypeOK, StateOK, CountersTypeOK
    <1>17. CASE DebounceExpired
        BY <1>17, <1>p, <1>e DEF DebounceExpired, ExecutePending, mainVars, ghosts, MainTypeOK, StateOK, ThreadTypeOK, CountersTypeOK
    <1>18. CASE WriteFile
        <2>1. /\ exec # <<>> /\ disk' = Apply(disk, Head(exec)) /\ exec' = Tail(exec)
              /\ UNCHANGED <<mainVars, chan, batch, messages, then, flush, acked, ghosts>>
            BY <1>18 DEF WriteFile
        <2>2. Head(exec) \in Ops /\ Tail(exec) \in Seq(Ops)
            BY <2>1, TailFacts DEF ThreadTypeOK
        <2>3. disk' \in Disks
            BY <2>1, <2>2, <1>0, ApplyFacts
        <2>4. ThreadTypeOK'
            BY <2>1, <2>2 DEF ThreadTypeOK
        <2>5. MainTypeOK' /\ CountersTypeOK'
            BY <2>1 DEF MainTypeOK, StateOK, CountersTypeOK, mainVars, ghosts
        <2> QED BY <2>3, <2>4, <2>5
    <1>19. CASE Written
        BY <1>19 DEF Written, mainVars, ghosts, MainTypeOK, StateOK, ThreadTypeOK, CountersTypeOK
    <1>20. CASE Kill
        BY <1>20, <1>e DEF Kill, NewWriter, MainTypeOK, StateOK, ThreadTypeOK, CountersTypeOK
    <1>21. CASE Seize
        <2>1. [disk EXCEPT !.config.owner = "other"] \in Disks
            BY <1>0 DEF Disks, Configs
        <2> QED BY <1>21, <2>1 DEF Seize, mainVars, threadVars, ghosts, MainTypeOK, StateOK, ThreadTypeOK, CountersTypeOK
    <1>22. CASE Boot
        <2> DEFINE m == LoadState(disk)
        <2>1. StateOK(m)
            BY <1>0, LoadStateFacts
        <2> HIDE DEF m
        <2>2. BuildSaveBatch(m, built + 1, handed) \in Seq(Ops)
            BY <2>1, <1>0, BatchFacts
        <2>3. /\ mem' = m /\ built' = built + 1 /\ mainOps' = BuildSaveBatch(m, built + 1, handed)
              /\ main' = "saving" /\ exit' = "none" /\ NewWriter /\ stale' = overtaken
              /\ UNCHANGED <<disk, made, crashes, handed, removed, overtaken, timedOut>>
            BY <1>22 DEF Boot, m
        <2>4. MainTypeOK'
            BY <2>1, <2>2, <2>3 DEF MainTypeOK, StateOK
        <2> QED BY <2>3, <2>4, <1>e DEF NewWriter, ThreadTypeOK, CountersTypeOK
    <1>23. CASE UNCHANGED ownVars
        BY <1>23 DEF ownVars, mainVars, threadVars, ghosts, MainTypeOK, StateOK, ThreadTypeOK, CountersTypeOK
    <1> QED
        BY <1>1, <1>2, <1>3, <1>4, <1>5, <1>6, <1>7, <1>8, <1>10, <1>11, <1>12, <1>13, <1>14, <1>15, <1>16,
           <1>17, <1>18, <1>19, <1>20, <1>21, <1>22, <1>23 DEF Step, OwnNext, MainNext, ThreadNext

-----------------------------------------------------------------------------
(* Steps *)

LEMMA FileOps ==
    ASSUME NEW s \in Seq(Ops), NEW t \in Seq(Ops), NEW u, NEW c
    PROVE  /\ FileOp(s \o t, u, c) <=> FileOp(s, u, c) \/ FileOp(t, u, c)
           /\ s # <<>> => (FileOp(Tail(s), u, c) => FileOp(s, u, c))
           /\ ~FileOp(<<>>, u, c)
           /\ FileOp(s, u, c) => u \in Uids /\ c \in Bodies
PROOF
    <1>1. FileOp(s \o t, u, c) <=> FileOp(s, u, c) \/ FileOp(t, u, c)
        <2>1. \A x : InSeq(x, s \o t) <=> InSeq(x, s) \/ InSeq(x, t)
            BY ConcatElements
        <2>2. \A q : FileOp(q, u, c) <=> \E x : InSeq(x, q) /\ x.kind = "message" /\ x.uid = u /\ x.val = c
            BY DEF FileOp, InSeq
        <2> QED BY ONLY <2>1, <2>2, Zenon
    <1>2. ASSUME s # <<>>, FileOp(Tail(s), u, c) PROVE FileOp(s, u, c)
        <2>1. /\ Len(Tail(s)) = Len(s) - 1 /\ Len(s) \in Nat \ {0} /\ Tail(s) \in Seq(Ops)
              /\ \A i \in 1 .. Len(s) - 1 : Tail(s)[i] = s[i + 1]
            BY <1>2, TailFacts
        <2>2. PICK k \in 1 .. Len(s) - 1 : Tail(s)[k].kind = "message" /\ Tail(s)[k].uid = u /\ Tail(s)[k].val = c
            BY <2>1, <1>2 DEF FileOp
        <2>3. k + 1 \in DOMAIN s /\ s[k + 1] = Tail(s)[k]
            BY <2>1
        <2> QED BY <2>2, <2>3 DEF FileOp
    <1>3. ~FileOp(<<>>, u, c)
        BY DEF FileOp
    <1>4. FileOp(s, u, c) => u \in Uids /\ c \in Bodies
        BY OpFacts DEF FileOp
    <1> QED BY <1>1, <1>2, <1>3, <1>4

(* A batch holds the files of the messages of the history panels. *)
LEMMA BatchFiles ==
    ASSUME NEW m, StateOK(m), NEW v \in Nat, NEW h, disk \in Disks, NEW b, b = BuildSaveBatch(m, v, h),
           NEW u, NEW c
    PROVE  FileOp(b, u, c) <=> InPanels(m, u, c)
PROOF
    <1>1. /\ b \in Seq(Ops) /\ Len(b) >= 3
          /\ b[1] = ConfigOp(m, v) /\ b[2] = Worker(DOMAIN m.history) /\ b[3] = Chat(Listed(m.chat, h))
          /\ \A k \in DOMAIN b : k > 3 => b[k] \in Rest(m, h)
          /\ \A op \in Rest(m, h) : \E k \in DOMAIN b : b[k] = op
        BY ONLY BatchFacts, StateOK(m), v \in Nat, disk \in Disks, b = BuildSaveBatch(m, v, h)
    <1>2. b[1].kind # "message" /\ b[2].kind # "message" /\ b[3].kind # "message"
        BY <1>1 DEF ConfigOp, Config, Worker, Chat
    <1>3. \A op \in PanelWrites(m, h) \cup OrphanDeletes(m) : op.kind # "message"
        BY DEF PanelWrites, OrphanDeletes, Panel
    <1>4. \A p \in DOMAIN m.history : \A i \in DOMAIN m.history[p] :
              /\ File(m.history[p][i]).kind = "message"
              /\ File(m.history[p][i]).uid = m.history[p][i].uid
              /\ File(m.history[p][i]).val = m.history[p][i].body
        BY DEF File
    <1>5. ASSUME FileOp(b, u, c) PROVE InPanels(m, u, c)
        <2>1. PICK k \in DOMAIN b : b[k].kind = "message" /\ b[k].uid = u /\ b[k].val = c
            BY <1>5 DEF FileOp
        <2>2. k > 3
            <3>1. k \in Nat /\ k >= 1
                BY <1>1
            <3> QED BY <3>1, <2>1, <1>2
        <2>3. b[k] \in HistoryMessages(m)
            BY <2>1, <2>2, <1>1, <1>3 DEF Rest
        <2>4. PICK p \in DOMAIN m.history : b[k] \in {File(m.history[p][j]) : j \in DOMAIN m.history[p]}
            BY <2>3 DEF HistoryMessages
        <2> QED BY <2>1, <2>4, <1>4 DEF InPanels
    <1>6. ASSUME InPanels(m, u, c) PROVE FileOp(b, u, c)
        <2>0. PICK p \in DOMAIN m.history : \E i \in DOMAIN m.history[p] :
                  m.history[p][i].uid = u /\ m.history[p][i].body = c
            BY <1>6 DEF InPanels
        <2>1. PICK i \in DOMAIN m.history[p] : m.history[p][i].uid = u /\ m.history[p][i].body = c
            BY <2>0
        <2>2. File(m.history[p][i]) \in Rest(m, h)
            BY DEF Rest, HistoryMessages
        <2> QED BY <2>1, <2>2, <1>1, <1>4 DEF FileOp
    <1> QED BY <1>5, <1>6

(* The next message, under the next uid. *)
New(w, u, c) == u = w /\ c = made + 1 /\ made' = made + 1 /\ mem'.next = mem.next + 1

(* What the operations that save behind the loop's back have in common:    *)
(* ms are the messages they hand over, b the batch, w the uid a new        *)
(* message would get.                                                       *)
Pipes(ms, b) ==
    /\ main = "run"
    /\ UNCHANGED <<main, exit, mainOps, threadVars, crashes, overtaken, stale, timedOut>>
    /\ StateOK(mem') /\ built' = built + 1
    /\ ms \in Seq(Messages) /\ b \in Seq(Ops) /\ chan' \in Seq(WriterMsgs)
    /\ b = BuildSaveBatch(mem', built + 1, handed') /\ Sends(b, ms)
Forward ==
    /\ mem.next <= mem'.next /\ made <= made'
    /\ handed \subseteq handed' /\ removed \subseteq removed' /\ handed' \cup removed' \subseteq 1 .. made'
    /\ disk'.config = disk.config /\ disk'.worker = disk.worker
    /\ disk'.chat = disk.chat /\ disk'.panel = disk.panel
ChatStep(w, ms) ==
    /\ \A u, c : InChat(u, c)' => InChat(u, c) \/ New(w, u, c)
    /\ \A u, c : InHistory(u, c)' => InHistory(u, c) \/ (InChat(u, c) /\ c \in handed)
    /\ \A i \in DOMAIN ms : InChat(ms[i].uid, ms[i].body) /\ ms[i].body \in handed'
    /\ \A u, c : InChat(u, c)' /\ c \in handed' =>
           \/ InChat(u, c) /\ c \in handed
           \/ Stored(u, c)'
           \/ \E i \in DOMAIN ms : ms[i].uid = u /\ ms[i].body = c
    /\ Distinct(mem.chat) /\ (\A u, c : InChat(u, c) => u[1] < mem.next) => Distinct(mem'.chat)
FileStep(w) ==
    \A u \in Uids :
        \/ disk'.message[u] = disk.message[u]
        \/ /\ u = w /\ disk'.message[u] = made + 1 /\ made + 1 \in handed'
           /\ made' = made + 1 /\ mem'.next = mem.next + 1
        \/ /\ disk'.message[u] = Absent /\ \E c : InChat(u, c) /\ c \in removed'
           /\ Distinct(mem.chat) => \A c : ~InChat(u, c)'
Async(w, ms, b) == w[1] = mem.next /\ Pipes(ms, b) /\ Forward /\ ChatStep(w, ms) /\ FileStep(w)

LEMMA ChatElements ==
    ASSUME OwnTypeOK
    PROVE  /\ StateOK(mem) /\ disk \in Disks /\ built + 1 \in Nat /\ made \in Nat
           /\ mem.chat \in Seq(Messages) /\ mem.next \in Nat
           /\ Len(mem.chat) \in Nat /\ DOMAIN mem.chat = 1 .. Len(mem.chat)
           /\ \A i \in DOMAIN mem.chat : InChat(mem.chat[i].uid, mem.chat[i].body)
           /\ \A i \in DOMAIN mem.chat : mem.chat[i].uid \in Uids /\ mem.chat[i].body \in Bodies
           /\ DOMAIN mem.history \subseteq Numbers
           /\ \A p \in DOMAIN mem.history : mem.history[p] \in Seq(Messages)
PROOF
    <1>1. StateOK(mem) /\ disk \in Disks /\ built + 1 \in Nat /\ made \in Nat
        BY BoundsAssumption DEF OwnTypeOK, MainTypeOK, CountersTypeOK
    <1>2. /\ mem.chat \in Seq(Messages) /\ mem.next \in Nat /\ DOMAIN mem.history \subseteq Numbers
          /\ \A p \in DOMAIN mem.history : mem.history[p] \in Seq(Messages)
        BY <1>1, StateFacts
    <1>3. \A i \in DOMAIN mem.chat : mem.chat[i].uid \in Uids /\ mem.chat[i].body \in Bodies
        BY <1>2, MessageFacts
    <1> QED BY <1>1, <1>2, <1>3 DEF InChat

(* Pushing a message: the common part of a user's and the assistant's. *)
LEMMA PushStep ==
    ASSUME OwnTypeOK, NEW t \in {"U", "A"}, NEW msg, msg = [uid |-> <<mem.next, t>>, body |-> made + 1],
           NEW m, m = [mem EXCEPT !.chat = Append(@, msg), !.next = @ + 1],
           made < MaxMessages, mem.next \in Numbers, made' = made + 1, mem' = m
    PROVE  /\ mem'.next = mem.next + 1 /\ msg.uid[1] = mem.next
           /\ \A u, c : InChat(u, c)' <=> InChat(u, c) \/ (u = msg.uid /\ c = made + 1)
           /\ \A u, c : InHistory(u, c)' <=> InHistory(u, c)
           /\ Distinct(mem.chat) /\ (\A u, c : InChat(u, c) => u[1] < mem.next) => Distinct(mem'.chat)
PROOF
    <1>1. /\ msg \in Messages /\ msg.uid[1] = mem.next /\ msg.body = made + 1
          /\ mem'.chat = Append(mem.chat, msg) /\ mem'.history = mem.history /\ mem'.next = mem.next + 1
        BY PushFacts
    <1> DEFINE n == Len(mem.chat)
    <1>2. /\ n \in Nat /\ DOMAIN mem.chat = 1 .. n /\ DOMAIN mem'.chat = 1 .. n + 1
          /\ \A i \in 1 .. n : mem'.chat[i] = mem.chat[i]
          /\ mem'.chat[n + 1] = msg
        <2>1. mem.chat \in Seq(Messages)
            BY ChatElements
        <2>2. /\ Append(mem.chat, msg) \in Seq(Messages) /\ Len(Append(mem.chat, msg)) = n + 1
              /\ \A i \in 1 .. n : Append(mem.chat, msg)[i] = mem.chat[i] /\ Append(mem.chat, msg)[n + 1] = msg
            BY <2>1, <1>1, AppendFacts
        <2> QED BY <2>1, <2>2, <1>1
    <1> HIDE DEF n
    <1>3. \A u, c : InChat(u, c)' <=> InChat(u, c) \/ (u = msg.uid /\ c = made + 1)
        <2>1. \A i \in 1 .. n + 1 : i \in 1 .. n \/ i = n + 1
            BY <1>2
        <2>2. n + 1 \in 1 .. n + 1 /\ \A i \in 1 .. n : i \in 1 .. n + 1
            BY <1>2
        <2> QED BY <1>1, <1>2, <2>1, <2>2 DEF InChat
    <1>4. \A u, c : InHistory(u, c)' <=> InHistory(u, c)
        BY <1>1 DEF InHistory
    <1>5. ASSUME Distinct(mem.chat), \A u, c : InChat(u, c) => u[1] < mem.next
          PROVE  Distinct(mem'.chat)
        <2>1. \A i \in 1 .. n : mem.chat[i].uid[1] < mem.next
            BY <1>5, <1>2 DEF InChat
        <2>2. \A i \in 1 .. n : mem.chat[i].uid # msg.uid
            BY <2>1, <1>1, ChatElements
        <2>3. \A i, j \in 1 .. n : mem.chat[i].uid = mem.chat[j].uid => i = j
            BY <1>5, <1>2 DEF Distinct
        <2>4. ASSUME NEW i \in 1 .. n + 1, NEW j \in 1 .. n + 1, mem'.chat[i].uid = mem'.chat[j].uid
              PROVE  i = j
            <3>1. (i \in 1 .. n \/ i = n + 1) /\ (j \in 1 .. n \/ j = n + 1)
                BY <1>2
            <3> QED BY <3>1, <2>2, <2>3, <2>4, <1>2
        <2> QED BY <2>4, <1>2 DEF Distinct
    <1> QED BY <1>1, <1>3, <1>4, <1>5

LEMMA UserMessageStep ==
    ASSUME OwnTypeOK, Bound, UserMessage
    PROVE  \E w, ms, b : Async(w, ms, b)
PROOF
    <1> DEFINE msg == [uid |-> <<mem.next, "U">>, body |-> made + 1]
               m == [mem EXCEPT !.chat = Append(@, msg), !.next = @ + 1]
    <1>1. /\ main = "run" /\ made < MaxMessages /\ mem.next \in Numbers /\ made' = made + 1
          /\ handed' = handed \cup {msg.body} /\ disk' = Apply(disk, File(msg)) /\ SaveStateAsync(m, <<>>)
          /\ UNCHANGED <<main, exit, mainOps, threadVars, crashes, removed, overtaken, stale, timedOut>>
        BY DEF UserMessage
    <1>2. /\ msg \in Messages /\ msg.uid \in Uids /\ msg.body \in Bodies /\ msg.body = made + 1
          /\ msg.uid[1] = mem.next /\ StateOK(m)
        BY <1>1, PushFacts
    <1>3. <<>> \in Seq(Messages) /\ DOMAIN <<>> = {}
        OBVIOUS
    <1>4. /\ mem' = m /\ built' = built + 1 /\ StateOK(mem') /\ chan' \in Seq(WriterMsgs)
          /\ \E b \in Seq(Ops) : b = BuildSaveBatch(m, built + 1, handed') /\ Sends(b, <<>>)
        <2> HIDE DEF msg, m
        <2> QED BY <1>1, <1>2, <1>3, SaveFacts
    <1>5. PICK b \in Seq(Ops) : b = BuildSaveBatch(mem', built + 1, handed') /\ Sends(b, <<>>)
        BY <1>4
    <1>6. /\ mem'.next = mem.next + 1 /\ msg.uid[1] = mem.next
          /\ \A u, c : InChat(u, c)' <=> InChat(u, c) \/ (u = msg.uid /\ c = made + 1)
          /\ \A u, c : InHistory(u, c)' <=> InHistory(u, c)
          /\ Distinct(mem.chat) /\ (\A u, c : InChat(u, c) => u[1] < mem.next) => Distinct(mem'.chat)
        BY <1>1, <1>4, PushStep
    <1> HIDE DEF msg, m
    <1>7. File(msg) \in Ops /\ File(msg).kind = "message" /\ File(msg).uid = msg.uid /\ File(msg).val = msg.body
        BY <1>2 DEF Messages, File, Ops
    <1>8. /\ disk'.config = disk.config /\ disk'.worker = disk.worker /\ disk'.chat = disk.chat
          /\ \A p \in Numbers : disk'.panel[p] = disk.panel[p]
          /\ \A u \in Uids : disk'.message[u] = IF u = msg.uid THEN msg.body ELSE disk.message[u]
          /\ disk' \in Disks
        BY <1>1, <1>7, ApplyFacts, ChatElements
    <1>9. disk'.panel = disk.panel
        BY <1>8, ChatElements, DiskFacts
    <1>10. Pipes(<<>>, b)
        BY <1>1, <1>3, <1>4, <1>5 DEF Pipes
    <1>11. Forward
        <2>1. handed \cup removed \subseteq 1 .. made /\ mem.next \in Nat /\ made \in Nat
            BY ChatElements DEF Bound
        <2> QED BY <1>1, <1>2, <1>6, <1>8, <1>9, <2>1 DEF Forward
    <1>12. ChatStep(msg.uid, <<>>)
        <2>1. \A u, c : u = msg.uid /\ c = made + 1 => Stored(u, c)'
            BY <1>2, <1>8 DEF Stored
        <2>2. \A u, c : InChat(u, c)' => InChat(u, c) \/ New(msg.uid, u, c)
            BY <1>1, <1>6 DEF New
        <2>3. \A u, c : InChat(u, c)' /\ c \in handed' => (InChat(u, c) /\ c \in handed) \/ Stored(u, c)'
            <3>1. ASSUME NEW u, NEW c, InChat(u, c)', c \in handed', ~(u = msg.uid /\ c = made + 1)
                  PROVE  InChat(u, c) /\ c \in handed
                <4>1. InChat(u, c)
                    BY <3>1, <1>6
                <4>2. c \in 1 .. made
                    BY <4>1 DEF Bound, Knows
                <4> QED BY <4>1, <4>2, <3>1, <1>1, <1>2, ChatElements
            <3> QED BY <3>1, <2>1
        <2> QED BY <2>2, <2>3, <1>3, <1>6 DEF ChatStep
    <1>13. FileStep(msg.uid)
        BY <1>1, <1>2, <1>6, <1>8 DEF FileStep
    <1> QED BY <1>6, <1>10, <1>11, <1>12, <1>13 DEF Async

LEMMA BeginAssistantStep ==
    ASSUME OwnTypeOK, Bound, BeginAssistant
    PROVE  \E w, ms, b : Async(w, ms, b)
PROOF
    <1> DEFINE msg == [uid |-> <<mem.next, "A">>, body |-> made + 1]
               m == [mem EXCEPT !.chat = Append(@, msg), !.next = @ + 1]
    <1>1. /\ main = "run" /\ made < MaxMessages /\ mem.next \in Numbers /\ made' = made + 1
          /\ SaveStateAsync(m, <<>>)
          /\ UNCHANGED <<main, exit, mainOps, threadVars, handed, disk, crashes, removed, overtaken, stale, timedOut>>
        BY DEF BeginAssistant
    <1>2. msg.uid[1] = mem.next /\ StateOK(m)
        BY <1>1, PushFacts
    <1>3. <<>> \in Seq(Messages) /\ DOMAIN <<>> = {}
        OBVIOUS
    <1>4. /\ mem' = m /\ built' = built + 1 /\ StateOK(mem') /\ chan' \in Seq(WriterMsgs)
          /\ \E b \in Seq(Ops) : b = BuildSaveBatch(m, built + 1, handed') /\ Sends(b, <<>>)
        <2> HIDE DEF msg, m
        <2> QED BY <1>1, <1>2, <1>3, SaveFacts
    <1>5. PICK b \in Seq(Ops) : b = BuildSaveBatch(mem', built + 1, handed') /\ Sends(b, <<>>)
        BY <1>4
    <1>6. /\ mem'.next = mem.next + 1 /\ msg.uid[1] = mem.next
          /\ \A u, c : InChat(u, c)' <=> InChat(u, c) \/ (u = msg.uid /\ c = made + 1)
          /\ \A u, c : InHistory(u, c)' <=> InHistory(u, c)
          /\ Distinct(mem.chat) /\ (\A u, c : InChat(u, c) => u[1] < mem.next) => Distinct(mem'.chat)
        BY <1>1, <1>4, PushStep
    <1> HIDE DEF msg, m
    <1>10. Pipes(<<>>, b)
        BY <1>1, <1>3, <1>4, <1>5 DEF Pipes
    <1>11. Forward
        <2>1. handed \cup removed \subseteq 1 .. made /\ mem.next \in Nat /\ made \in Nat
            BY ChatElements DEF Bound
        <2> QED BY <1>1, <1>6, <2>1 DEF Forward
    <1>12. ChatStep(msg.uid, <<>>)
        <2>1. made + 1 \notin handed'
            BY <1>1, ChatElements DEF Bound
        <2>2. \A u, c : InChat(u, c)' => InChat(u, c) \/ New(msg.uid, u, c)
            BY <1>1, <1>6 DEF New
        <2> QED BY <2>1, <2>2, <1>1, <1>3, <1>6 DEF ChatStep
    <1>13. FileStep(msg.uid)
        BY <1>1 DEF FileStep
    <1> QED BY <1>6, <1>10, <1>11, <1>12, <1>13 DEF Async

LEMMA FinishAssistantStep ==
    ASSUME OwnTypeOK, Bound, FinishAssistant
    PROVE  \E w, ms, b : Async(w, ms, b)
PROOF
    <1> DEFINE msg == Last(mem.chat)
    <1>1. /\ main = "run" /\ mem.chat # <<>> /\ handed' = handed \cup {msg.body} /\ SaveStateAsync(mem, <<msg>>)
          /\ UNCHANGED <<main, exit, mainOps, threadVars, disk, made, crashes, removed, overtaken, stale, timedOut>>
        BY DEF FinishAssistant
    <1>2. /\ msg \in Messages /\ <<msg>> \in Seq(Messages) /\ InChat(msg.uid, msg.body) /\ msg.body \in 1 .. made
          /\ StateOK(mem) /\ DOMAIN <<msg>> = {1} /\ <<msg>>[1] = msg
        <2>1. msg = mem.chat[Len(mem.chat)] /\ Len(mem.chat) \in DOMAIN mem.chat /\ StateOK(mem) /\ msg \in Messages
            BY <1>1, ChatElements DEF Last
        <2> HIDE DEF msg
        <2>2. InChat(msg.uid, msg.body)
            BY <2>1, ChatElements
        <2>3. msg.body \in 1 .. made
            BY <2>2 DEF Bound, Knows
        <2> QED BY <2>1, <2>2, <2>3
    <1> HIDE DEF msg
    <1>4. /\ mem' = mem /\ built' = built + 1 /\ StateOK(mem') /\ chan' \in Seq(WriterMsgs)
          /\ \E b \in Seq(Ops) : b = BuildSaveBatch(mem, built + 1, handed') /\ Sends(b, <<msg>>)
        BY <1>1, <1>2, SaveFacts
    <1>5. PICK b \in Seq(Ops) : b = BuildSaveBatch(mem', built + 1, handed') /\ Sends(b, <<msg>>)
        BY <1>4
    <1>6. PICK w : w[1] = mem.next
        <2>1. <<mem.next, "A">>[1] = mem.next
            OBVIOUS
        <2> QED BY <2>1
    <1>7. (\A u, c : InChat(u, c)' <=> InChat(u, c)) /\ (\A u, c : InHistory(u, c)' <=> InHistory(u, c))
        BY <1>4 DEF InChat, InHistory
    <1>10. Pipes(<<msg>>, b)
        BY <1>1, <1>2, <1>4, <1>5 DEF Pipes
    <1>11. Forward
        <2>1. handed \cup removed \subseteq 1 .. made /\ mem.next \in Nat /\ made \in Nat
            BY ChatElements DEF Bound
        <2> QED BY <1>1, <1>2, <1>4, <2>1 DEF Forward
    <1>12. ChatStep(w, <<msg>>)
        <2>1. ASSUME NEW u, NEW c, InChat(u, c)', c \in handed'
              PROVE  (InChat(u, c) /\ c \in handed) \/ (msg.uid = u /\ msg.body = c)
            <3>1. InChat(u, c)
                BY <2>1, <1>7
            <3>2. c = msg.body => u = msg.uid
                BY <3>1, <1>2 DEF Bound, Knows
            <3> QED BY <3>1, <3>2, <2>1, <1>1
        <2>2. \A i \in DOMAIN <<msg>> : InChat(<<msg>>[i].uid, <<msg>>[i].body) /\ <<msg>>[i].body \in handed'
            BY <1>1, <1>2
        <2> QED BY <2>1, <2>2, <1>2, <1>4, <1>7 DEF ChatStep
    <1>13. FileStep(w)
        BY <1>1 DEF FileStep
    <1> QED BY <1>6, <1>10, <1>11, <1>12, <1>13 DEF Async

LEMMA ClearConversationStep ==
    ASSUME OwnTypeOK, Bound, ClearConversation
    PROVE  \E w, ms, b : Async(w, ms, b)
PROOF
    <1> DEFINE m == [mem EXCEPT !.chat = <<>>]
    <1>1. /\ main = "run" /\ disk' = DeleteFiles(disk, mem.chat) /\ removed' = removed \cup BodiesOf(mem.chat)
          /\ SaveStateAsync(m, <<>>)
          /\ UNCHANGED <<handed, main, exit, mainOps, threadVars, made, crashes, overtaken, stale, timedOut>>
        BY DEF ClearConversation
    <1>2. m.chat = <<>> /\ m.history = mem.history /\ m.next = mem.next /\ StateOK(m)
        BY ClearFacts
    <1> HIDE DEF m
    <1>3. <<>> \in Seq(Messages) /\ DOMAIN <<>> = {}
        OBVIOUS
    <1>4. /\ mem' = m /\ built' = built + 1 /\ StateOK(mem') /\ chan' \in Seq(WriterMsgs)
          /\ \E b \in Seq(Ops) : b = BuildSaveBatch(m, built + 1, handed') /\ Sends(b, <<>>)
        BY <1>1, <1>2, <1>3, SaveFacts
    <1>5. PICK b \in Seq(Ops) : b = BuildSaveBatch(mem', built + 1, handed') /\ Sends(b, <<>>)
        BY <1>4
    <1>6. PICK w : w[1] = mem.next
        <2>1. <<mem.next, "A">>[1] = mem.next
            OBVIOUS
        <2> QED BY <2>1
    <1>7. (\A u, c : ~InChat(u, c)') /\ (\A u, c : InHistory(u, c)' <=> InHistory(u, c)) /\ Distinct(mem'.chat)
        BY <1>2, <1>3, <1>4 DEF InChat, InHistory, Distinct
    <1>8. /\ disk'.config = disk.config /\ disk'.worker = disk.worker /\ disk'.chat = disk.chat
          /\ disk'.panel = disk.panel
          /\ \A u \in Uids : disk'.message[u] =
                 IF \E i \in DOMAIN mem.chat : mem.chat[i].uid = u THEN Absent ELSE disk.message[u]
        BY <1>1, DeleteFacts, ChatElements
    <1>9. \A i \in DOMAIN mem.chat : InChat(mem.chat[i].uid, mem.chat[i].body) /\ mem.chat[i].body \in BodiesOf(mem.chat)
        BY ChatElements DEF BodiesOf
    <1>10. Pipes(<<>>, b)
        BY <1>1, <1>3, <1>4, <1>5 DEF Pipes
    <1>11. Forward
        <2>1. handed \cup removed \subseteq 1 .. made /\ mem.next \in Nat /\ made \in Nat
            BY ChatElements DEF Bound
        <2>2. BodiesOf(mem.chat) \subseteq 1 .. made
            BY <1>9 DEF Bound, Knows, BodiesOf
        <2> QED BY <1>1, <1>2, <1>4, <1>8, <2>1, <2>2 DEF Forward
    <1>12. ChatStep(w, <<>>)
        BY <1>3, <1>7 DEF ChatStep
    <1>13. FileStep(w)
        BY <1>1, <1>7, <1>8, <1>9 DEF FileStep
    <1> QED BY <1>6, <1>10, <1>11, <1>12, <1>13 DEF Async

LEMMA DetachStep ==
    ASSUME OwnTypeOK, Bound, Detach
    PROVE  \E w, ms, b : Async(w, ms, b)
PROOF
    <1> DEFINE old == <<Head(mem.chat)>>
               m == [chat |-> Tail(mem.chat), next |-> mem.next + 1,
                     history |-> [p \in DOMAIN mem.history \cup {mem.next} |->
                                     IF p = mem.next THEN <<Head(mem.chat)>> ELSE mem.history[p]]]
               msg == mem.chat[1]
    <1>1. /\ main = "run" /\ Len(mem.chat) > 1 /\ mem.next \in Numbers /\ Head(mem.chat).body \in handed
          /\ disk' = DeleteFiles(disk, old) /\ removed' = removed \cup BodiesOf(old)
          /\ SaveStateAsync(m, <<>>)
          /\ UNCHANGED <<handed, main, exit, mainOps, threadVars, made, crashes, overtaken, stale, timedOut>>
        BY DEF Detach
    <1>2. /\ StateOK(m) /\ m.next = mem.next + 1 /\ m.chat = Tail(mem.chat)
          /\ DOMAIN m.history = DOMAIN mem.history \cup {mem.next}
          /\ m.history[mem.next] = <<msg>>
          /\ \A p \in DOMAIN mem.history : p # mem.next => m.history[p] = mem.history[p]
          /\ Head(mem.chat) = msg /\ msg \in Messages /\ mem.chat # <<>>
        BY <1>1, MoveFacts
    <1>3. /\ <<>> \in Seq(Messages) /\ DOMAIN <<>> = {} /\ DOMAIN old = {1} /\ old[1] = msg /\ BodiesOf(old) = {msg.body}
        BY <1>2 DEF BodiesOf
    <1> HIDE DEF m, old
    <1>4. /\ mem' = m /\ built' = built + 1 /\ StateOK(mem') /\ chan' \in Seq(WriterMsgs)
          /\ \E b \in Seq(Ops) : b = BuildSaveBatch(m, built + 1, handed') /\ Sends(b, <<>>)
        BY <1>1, <1>2, <1>3, SaveFacts
    <1>5. PICK b \in Seq(Ops) : b = BuildSaveBatch(mem', built + 1, handed') /\ Sends(b, <<>>)
        BY <1>4
    <1>6. PICK w : w[1] = mem.next
        <2>1. <<mem.next, "A">>[1] = mem.next
            OBVIOUS
        <2> QED BY <2>1
    <1> DEFINE n == Len(mem.chat)
    <1>7. /\ n \in Nat /\ n > 1 /\ DOMAIN mem.chat = 1 .. n /\ DOMAIN mem'.chat = 1 .. n - 1
          /\ \A i \in 1 .. n - 1 : mem'.chat[i] = mem.chat[i + 1]
        <2>1. /\ Tail(mem.chat) \in Seq(Messages) /\ Len(Tail(mem.chat)) = Len(mem.chat) - 1
              /\ \A i \in 1 .. Len(mem.chat) - 1 : Tail(mem.chat)[i] = mem.chat[i + 1]
            BY <1>2, ChatElements, TailFacts
        <2>2. mem'.chat = Tail(mem.chat) /\ DOMAIN Tail(mem.chat) = 1 .. n - 1
            BY <2>1, <1>2, <1>4
        <2>3. n \in Nat /\ n > 1 /\ DOMAIN mem.chat = 1 .. n
            BY <1>1, ChatElements
        <2> QED BY <2>1, <2>2, <2>3
    <1> HIDE DEF n
    <1>8. /\ disk'.config = disk.config /\ disk'.worker = disk.worker /\ disk'.chat = disk.chat
          /\ disk'.panel = disk.panel
          /\ \A u \in Uids : disk'.message[u] = IF msg.uid = u THEN Absent ELSE disk.message[u]
        BY <1>1, <1>3, DeleteFacts, ChatElements
    <1>9. InChat(msg.uid, msg.body) /\ msg.body \in handed /\ msg.body \in 1 .. made
        <2>1. 1 \in DOMAIN mem.chat /\ mem.chat[1] = msg /\ msg.body \in handed
            BY <1>1, <1>2, <1>7
        <2>2. InChat(msg.uid, msg.body) /\ msg.body \in handed
            BY <2>1 DEF InChat
        <2> QED BY <2>2 DEF Bound
    <1>10. Pipes(<<>>, b)
        BY <1>1, <1>3, <1>4, <1>5 DEF Pipes
    <1>11. Forward
        <2>1. handed \cup removed \subseteq 1 .. made /\ mem.next \in Nat /\ made \in Nat
            BY ChatElements DEF Bound
        <2> QED BY <1>1, <1>2, <1>3, <1>4, <1>8, <1>9, <2>1 DEF Forward
    <1>12. \A u, c : InChat(u, c)' => InChat(u, c)
        <2>1. \A i \in 1 .. n - 1 : i + 1 \in 1 .. n
            BY <1>7
        <2> QED BY <2>1, <1>7 DEF InChat
    <1>13. ASSUME NEW u, NEW c, InHistory(u, c)'
           PROVE  InHistory(u, c) \/ (InChat(u, c) /\ c \in handed)
        <2>0. PICK p \in DOMAIN mem'.history : \E i \in DOMAIN mem'.history[p] :
                  mem'.history[p][i].uid = u /\ mem'.history[p][i].body = c
            BY <1>13 DEF InHistory
        <2>1. CASE p = mem.next
            <3>1. mem'.history[p] = <<msg>> /\ \A i \in DOMAIN <<msg>> : <<msg>>[i] = msg
                BY <2>1, <1>2, <1>4
            <3> QED BY <3>1, <2>0, <1>9
        <2>2. CASE p # mem.next
            <3>1. p \in DOMAIN mem.history /\ mem'.history[p] = mem.history[p]
                BY <2>2, <1>2, <1>4
            <3> QED BY <3>1, <2>0 DEF InHistory
        <2> QED BY <2>1, <2>2
    <1>14. ASSUME Distinct(mem.chat)
           PROVE  Distinct(mem'.chat) /\ \A u, c : u = msg.uid => ~InChat(u, c)'
        <2>1. \A i, j \in 1 .. n : mem.chat[i].uid = mem.chat[j].uid => i = j
            BY <1>14, <1>7 DEF Distinct
        <2>2. \A i \in 1 .. n - 1 : i \in Int /\ i + 1 \in 1 .. n /\ i + 1 # 1
            BY <1>7
        <2>3. Distinct(mem'.chat)
            <3>1. ASSUME NEW i \in 1 .. n - 1, NEW j \in 1 .. n - 1, mem'.chat[i].uid = mem'.chat[j].uid PROVE i = j
                <4>1. mem.chat[i + 1].uid = mem.chat[j + 1].uid
                    BY <3>1, <1>7
                <4>2. i + 1 \in 1 .. n /\ j + 1 \in 1 .. n /\ i \in Int /\ j \in Int
                    BY <2>2
                <4>3. i + 1 = j + 1
                    BY <4>1, <4>2, <2>1
                <4> QED BY <4>2, <4>3
            <3> QED BY <3>1, <1>7 DEF Distinct
        <2>4. \A i \in 1 .. n - 1 : mem'.chat[i].uid # msg.uid
            <3>1. 1 \in 1 .. n
                BY <1>7
            <3> QED BY <3>1, <2>1, <2>2, <1>7
        <2>5. \A u, c : u = msg.uid => ~InChat(u, c)'
            BY <2>4, <1>7 DEF InChat
        <2> QED BY <2>3, <2>5
    <1>15. ChatStep(w, <<>>)
        BY <1>1, <1>3, <1>12, <1>13, <1>14 DEF ChatStep
    <1>16. FileStep(w)
        <2>1. ASSUME NEW u \in Uids, u = msg.uid
              PROVE  /\ disk'.message[u] = Absent /\ InChat(u, msg.body) /\ msg.body \in removed'
                     /\ Distinct(mem.chat) => \A c : ~InChat(u, c)'
            BY <2>1, <1>1, <1>3, <1>8, <1>9, <1>14
        <2>2. \A u \in Uids : u # msg.uid => disk'.message[u] = disk.message[u]
            BY <1>8
        <2> QED BY <2>1, <2>2 DEF FileStep
    <1> QED BY <1>6, <1>10, <1>11, <1>15, <1>16 DEF Async

LEMMA ClosePanelStep ==
    ASSUME OwnTypeOK, Bound, NEW u \in Numbers, ClosePanel(u)
    PROVE  \E w, ms, b : Async(w, ms, b)
PROOF
    <1> DEFINE m == [mem EXCEPT !.history = [p \in DOMAIN @ \ {u} |-> @[p]]]
    <1>1. /\ main = "run" /\ SaveStateAsync(m, <<>>)
          /\ UNCHANGED <<handed, main, exit, mainOps, threadVars, disk, made, crashes, removed,
                         overtaken, stale, timedOut>>
        BY DEF ClosePanel
    <1>2. /\ StateOK(m) /\ m.next = mem.next /\ m.chat = mem.chat
          /\ DOMAIN m.history = DOMAIN mem.history \ {u}
          /\ \A p \in DOMAIN m.history : m.history[p] = mem.history[p]
        BY CloseFacts
    <1> HIDE DEF m
    <1>3. <<>> \in Seq(Messages) /\ DOMAIN <<>> = {}
        OBVIOUS
    <1>4. /\ mem' = m /\ built' = built + 1 /\ StateOK(mem') /\ chan' \in Seq(WriterMsgs)
          /\ \E b \in Seq(Ops) : b = BuildSaveBatch(m, built + 1, handed') /\ Sends(b, <<>>)
        BY <1>1, <1>2, <1>3, SaveFacts
    <1>5. PICK b \in Seq(Ops) : b = BuildSaveBatch(mem', built + 1, handed') /\ Sends(b, <<>>)
        BY <1>4
    <1>6. PICK w : w[1] = mem.next
        <2>1. <<mem.next, "A">>[1] = mem.next
            OBVIOUS
        <2> QED BY <2>1
    <1>7. (\A v, c : InChat(v, c)' <=> InChat(v, c)) /\ (\A v, c : InHistory(v, c)' => InHistory(v, c))
        BY <1>2, <1>4 DEF InChat, InHistory
    <1>10. Pipes(<<>>, b)
        BY <1>1, <1>3, <1>4, <1>5 DEF Pipes
    <1>11. Forward
        <2>1. handed \cup removed \subseteq 1 .. made /\ mem.next \in Nat /\ made \in Nat
            BY ChatElements DEF Bound
        <2> QED BY <1>1, <1>2, <1>4, <2>1 DEF Forward
    <1>12. ChatStep(w, <<>>)
        BY <1>1, <1>2, <1>3, <1>4, <1>7 DEF ChatStep
    <1>13. FileStep(w)
        BY <1>1 DEF FileStep
    <1> QED BY <1>6, <1>10, <1>11, <1>12, <1>13 DEF Async

(* The other steps.  Quiet ones leave the state, the operations on their   *)
(* way and the files alone; the thread takes a batch, a message, or all    *)
(* that is pending.                                                         *)
Quiet ==
    /\ UNCHANGED <<mem, mainOps, batch, messages, exec, made, built, crashes, handed, removed, overtaken, stale>>
    /\ disk'.chat = disk.chat /\ disk'.worker = disk.worker /\ disk'.panel = disk.panel
    /\ disk'.message = disk.message
    /\ disk'.config.next = disk.config.next /\ disk'.config.ver = disk.config.ver
    /\ chan' = chan \/ \E x \in WriterMsgs : ~IsWork(x) /\ x.ops = <<>> /\ chan' = Append(chan, x)
    /\ exit' = "killed" <=> exit = "killed"
Aside == UNCHANGED <<mainVars, disk, ghosts>>
TakeBatch ==
    /\ chan # <<>> /\ Head(chan).kind = "batch" /\ chan' = Tail(chan)
    /\ batch' = Head(chan).ops /\ UNCHANGED <<messages, exec, then, flush, acked>> /\ Aside /\ Idle
TakeMessage ==
    /\ chan # <<>> /\ Head(chan).kind = "message" /\ chan' = Tail(chan)
    /\ messages' = messages \o Head(chan).ops /\ UNCHANGED <<batch, exec, then, flush, acked>> /\ Aside /\ Idle
TakePending ==
    /\ Idle /\ exec' = messages \o batch /\ messages' = <<>> /\ batch' = <<>>
    /\ \/ chan' = chan /\ chan = <<>> /\ then' = "loop" /\ flush' = flush
       \/ /\ chan # <<>> /\ Head(chan).kind = "flush" /\ chan' = Tail(chan)
          /\ then' = "ack" /\ flush' = Head(chan).id
       \/ chan # <<>> /\ Head(chan).kind = "shutdown" /\ chan' = Tail(chan) /\ then' = "exit" /\ flush' = flush
    /\ UNCHANGED acked /\ Aside

LEMMA QuietSteps ==
    ASSUME OwnTypeOK, Phases,
           Quit \/ Disowned \/ LeaveMain \/ DropWriter \/ Join \/ Written \/ Seize \/ UNCHANGED ownVars
    PROVE  Quiet
PROOF
    <1>1. disk \in Disks /\ disk.config \in Configs
        BY DiskFacts DEF OwnTypeOK
    <1>2. /\ SendFlush(1) \in WriterMsgs /\ ~IsWork(SendFlush(1)) /\ SendFlush(1).ops = <<>>
          /\ SendFlush(2) \in WriterMsgs /\ ~IsWork(SendFlush(2)) /\ SendFlush(2).ops = <<>>
          /\ SendShutdown \in WriterMsgs /\ ~IsWork(SendShutdown) /\ SendShutdown.ops = <<>>
        BY DEF SendFlush, SendShutdown, WriterMsgs, IsWork
    <1>3. ASSUME NEW e \in Exits, NEW n, Leave(e, n) PROVE Quiet
        <2>1. exit # "killed" /\ e # "killed"
            BY <1>3 DEF Leave, Phases, Exits
        <2> QED BY <1>3, <2>1, <1>2 DEF Leave, Quiet, threadVars
    <1>4. CASE Quit
        BY <1>4, <1>3 DEF Quit
    <1>5. CASE Disowned
        BY <1>5, <1>3 DEF Disowned, Exits
    <1>6. CASE LeaveMain
        <2> DEFINE d == [disk EXCEPT !.config.reload = TRUE]
        <2>1. /\ d.chat = disk.chat /\ d.worker = disk.worker /\ d.panel = disk.panel /\ d.message = disk.message
              /\ d.config.next = disk.config.next /\ d.config.ver = disk.config.ver
            BY <1>1 DEF Disks, Configs
        <2>2. disk' = disk \/ disk' = d
            BY <1>6 DEF LeaveMain
        <2> HIDE DEF d
        <2> QED BY <1>6, <2>1, <2>2, <1>2 DEF LeaveMain, Quiet, threadVars, ghosts
    <1>7. CASE DropWriter
        BY <1>7, <1>2 DEF DropWriter, Quiet, threadVars
    <1>8. CASE Join
        BY <1>8 DEF Join, Quiet, threadVars, ghosts
    <1>9. CASE Written
        BY <1>9 DEF Written, Quiet, mainVars, ghosts
    <1>10. CASE Seize
        <2> DEFINE d == [disk EXCEPT !.config.owner = "other"]
        <2>1. /\ d.chat = disk.chat /\ d.worker = disk.worker /\ d.panel = disk.panel /\ d.message = disk.message
              /\ d.config.next = disk.config.next /\ d.config.ver = disk.config.ver
            BY <1>1 DEF Disks, Configs
        <2>2. disk' = d
            BY <1>10 DEF Seize
        <2> HIDE DEF d
        <2> QED BY <1>10, <2>1, <2>2 DEF Seize, Quiet, mainVars, threadVars, ghosts
    <1>11. CASE UNCHANGED ownVars
        BY <1>11 DEF ownVars, Quiet, mainVars, threadVars, ghosts
    <1> QED BY <1>4, <1>5, <1>6, <1>7, <1>8, <1>9, <1>10, <1>11

LEMMA TakeSteps ==
    ASSUME OwnTypeOK, Receive \/ DebounceExpired
    PROVE  TakeBatch \/ TakeMessage \/ TakePending
PROOF
    <1>1. CASE DebounceExpired
        BY <1>1 DEF DebounceExpired, ExecutePending, TakePending, Aside
    <1>2. CASE Receive /\ Head(chan).kind = "batch"
        BY <1>2 DEF Receive, TakeBatch, Aside
    <1>3. CASE Receive /\ Head(chan).kind = "message"
        BY <1>3 DEF Receive, TakeMessage, Aside
    <1>4. CASE Receive /\ Head(chan).kind = "flush"
        BY <1>4 DEF Receive, ExecutePending, TakePending, Aside
    <1>5. CASE Receive /\ Head(chan).kind = "shutdown"
        BY <1>5 DEF Receive, ExecutePending, TakePending, Aside
    <1> QED BY <1>1, <1>2, <1>3, <1>4, <1>5 DEF Receive

(* Every step is of one of these kinds. *)
LEMMA Kinds ==
    ASSUME OwnTypeOK, Bound, Phases, [Step]_ownVars
    PROVE  \/ \E w, ms, b : Async(w, ms, b)
           \/ SyncSave \/ FinalSave \/ SyncOp \/ WriteFile
           \/ Quiet \/ TakeBatch \/ TakeMessage \/ TakePending
           \/ Kill \/ Boot
PROOF
    <1>1. ASSUME NEW u \in Numbers, ClosePanel(u) PROVE \E w, ms, b : Async(w, ms, b)
        BY <1>1, ClosePanelStep
    <1>2. UserMessage \/ BeginAssistant \/ FinishAssistant \/ ClearConversation \/ Detach
          => \E w, ms, b : Async(w, ms, b)
        BY UserMessageStep, BeginAssistantStep, FinishAssistantStep, ClearConversationStep, DetachStep
    <1>3. Quit \/ Disowned \/ LeaveMain \/ DropWriter \/ Join \/ Written \/ Seize \/ UNCHANGED ownVars => Quiet
        BY QuietSteps
    <1>4. Receive \/ DebounceExpired => TakeBatch \/ TakeMessage \/ TakePending
        BY TakeSteps
    <1> QED BY <1>1, <1>2, <1>3, <1>4 DEF Step, OwnNext, MainNext, ThreadNext

-----------------------------------------------------------------------------
(* Bodies and uids *)

Learns(w) == \A u, c : Knows(u, c)' => Knows(u, c) \/ New(w, u, c)
Stores(w) == \A u, c : Stored(u, c)' => Stored(u, c) \/ Knows(u, c) \/ New(w, u, c)

(* The channel after an Async step: n items were there, the batch is item l. *)
Shape(n, l, ms, b) ==
    /\ n \in Nat /\ l \in Nat /\ n < l /\ Len(chan) = n /\ Len(chan') = l
    /\ DOMAIN chan = 1 .. n /\ DOMAIN chan' = 1 .. l
    /\ \A i \in 1 .. n : i \in 1 .. l /\ chan'[i] = chan[i]
    /\ l \in 1 .. l /\ chan'[l].kind = "batch" /\ chan'[l].ops = b
    /\ \A i \in 1 .. l : i \in 1 .. n \/ i = l \/
           /\ n < i /\ i < l /\ chan'[i].kind = "message"
           /\ \E j \in DOMAIN ms : chan'[i].ops = <<File(ms[j])>>
    /\ \A j \in DOMAIN ms : \E i \in 1 .. l :
           n < i /\ i < l /\ chan'[i].kind = "message" /\ chan'[i].ops = <<File(ms[j])>>

LEMMA SendsShape ==
    ASSUME OwnTypeOK, NEW w, NEW ms, NEW b, Async(w, ms, b)
    PROVE  \E n, l : Shape(n, l, ms, b)
PROOF
    <1> DEFINE n == Len(chan)  k == Len(ms)  l == n + k + 1
    <1>1. chan' \in Seq(WriterMsgs) /\ chan \in Seq(WriterMsgs) /\ ms \in Seq(Messages) /\ Sends(b, ms)
        BY DEF Async, Pipes, OwnTypeOK, ThreadTypeOK
    <1>2. n \in Nat /\ k \in Nat /\ DOMAIN chan = 1 .. n /\ DOMAIN ms = 1 .. k
        BY <1>1
    <1>3. Len(chan') = l
        BY <1>1 DEF Sends
    <1>4. DOMAIN chan' = 1 .. l
        <2>1. DOMAIN chan' = 1 .. Len(chan')
            BY <1>1
        <2> QED BY <2>1, <1>3
    <1>5. \A i \in 1 .. n : i \in 1 .. l /\ chan'[i] = chan[i]
        BY <1>1, <1>2 DEF Sends
    <1>6. ASSUME NEW j \in 1 .. k
          PROVE  /\ chan'[n + j].kind = "message" /\ chan'[n + j].ops = <<File(ms[j])>>
                 /\ n + j \in 1 .. l /\ n < n + j /\ n + j < l
        <2>1. chan'[n + j] = SendMessage(File(ms[j]))
            BY <1>1 DEF Sends
        <2>2. n + j \in 1 .. l /\ n < n + j /\ n + j < l
            BY <1>2
        <2> QED BY <2>1, <2>2 DEF SendMessage
    <1>7. chan'[l].kind = "batch" /\ chan'[l].ops = b /\ l \in 1 .. l /\ n < l /\ l \in Nat
        <2>1. chan'[l] = SendBatch(b)
            BY <1>1 DEF Sends
        <2> QED BY <2>1, <1>2 DEF SendBatch
    <1>8. ASSUME NEW i \in 1 .. l, i \notin 1 .. n, i # l PROVE \E j \in 1 .. k : i = n + j
        <2>1. i - n \in 1 .. k /\ i = n + (i - n)
            BY <1>2, <1>8
        <2> QED BY <2>1
    <1> HIDE DEF n, k, l
    <1>9. \A i \in 1 .. l : i \in 1 .. n \/ i = l \/
              /\ n < i /\ i < l /\ chan'[i].kind = "message"
              /\ \E j \in DOMAIN ms : chan'[i].ops = <<File(ms[j])>>
        BY <1>2, <1>6, <1>8
    <1>10. \A j \in DOMAIN ms : \E i \in 1 .. l :
               n < i /\ i < l /\ chan'[i].kind = "message" /\ chan'[i].ops = <<File(ms[j])>>
        BY <1>2, <1>6
    <1>11. Len(chan) = n
        BY DEF n
    <1>12. Shape(n, l, ms, b)
        BY <1>2, <1>3, <1>4, <1>5, <1>7, <1>9, <1>10, <1>11 DEF Shape
    <1> QED BY <1>12

(* An Async step queues the files of the history and those handed over. *)
LEMMA AsyncQueued ==
    ASSUME OwnTypeOK, NEW w, NEW ms, NEW b, Async(w, ms, b), NEW u, NEW c
    PROVE  Queued(u, c)' => \/ Queued(u, c) \/ InHistory(u, c)'
                            \/ \E i \in DOMAIN ms : ms[i].uid = u /\ ms[i].body = c
PROOF
    <1>1. /\ ms \in Seq(Messages) /\ b \in Seq(Ops) /\ b = BuildSaveBatch(mem', built + 1, handed') /\ StateOK(mem')
          /\ Sends(b, ms) /\ UNCHANGED <<mainOps, threadVars>>
        BY DEF Async, Pipes
    <1>2. FileOp(b, u, c) => InHistory(u, c)'
        <2>1. built + 1 \in Nat /\ disk \in Disks
            BY ChatElements
        <2>2. FileOp(b, u, c) <=> InPanels(mem', u, c)
            BY <1>1, <2>1, BatchFiles
        <2> QED BY <2>2 DEF InPanels, InHistory
    <1>3. \A i \in DOMAIN ms : FileOp(<<File(ms[i])>>, u, c) => ms[i].uid = u /\ ms[i].body = c
        BY DEF FileOp, File
    <1>4. ASSUME NEW i \in DOMAIN chan', FileOp(chan'[i].ops, u, c)
          PROVE  Queued(u, c) \/ InHistory(u, c)' \/ \E j \in DOMAIN ms : ms[j].uid = u /\ ms[j].body = c
        <2>1. PICK n, l : Shape(n, l, ms, b)
            BY SendsShape
        <2>2. CASE i \in 1 .. n
            BY <2>1, <2>2, <1>4 DEF Queued, Shape
        <2>3. CASE i = l
            BY <2>1, <2>3, <1>4, <1>2 DEF Shape
        <2>4. CASE i \notin 1 .. n /\ i # l
            <3>1. \E j \in DOMAIN ms : chan'[i].ops = <<File(ms[j])>>
                BY <2>1, <2>4 DEF Shape
            <3> QED BY <3>1, <1>4, <1>3
        <2> QED BY <2>2, <2>3, <2>4
    <1> QED BY <1>1, <1>4 DEF Queued, threadVars

(* The channel without its first item, and with one more. *)
LEMMA PopShape ==
    ASSUME NEW S, NEW s \in Seq(S), s # <<>>, NEW t, t = Tail(s)
    PROVE  /\ t \in Seq(S) /\ 1 \in DOMAIN s /\ s[1] = Head(s) /\ s[1] \in S
           /\ \A i \in DOMAIN t : i \in Nat /\ i >= 1 /\ i + 1 \in DOMAIN s /\ t[i] = s[i + 1]
           /\ \A j \in DOMAIN s : j \in Nat /\ (j # 1 => j - 1 \in DOMAIN t /\ t[j - 1] = s[j])
           /\ Len(t) = Len(s) - 1 /\ Len(s) \in Nat /\ Len(s) >= 1
           /\ DOMAIN s = 1 .. Len(s) /\ DOMAIN t = 1 .. Len(t)
PROOF
    <1>1. /\ t \in Seq(S) /\ Len(t) = Len(s) - 1 /\ Len(s) \in Nat \ {0}
          /\ \A i \in 1 .. Len(s) - 1 : t[i] = s[i + 1]
          /\ Head(s) = s[1] /\ s[1] \in S
        BY TailFacts
    <1>2. DOMAIN s = 1 .. Len(s) /\ DOMAIN t = 1 .. Len(s) - 1
        BY <1>1
    <1>3. ASSUME NEW j \in 1 .. Len(s), j # 1 PROVE j - 1 \in 1 .. Len(s) - 1 /\ (j - 1) + 1 = j
        BY <1>1, <1>3
    <1>4. ASSUME NEW i \in 1 .. Len(s) - 1 PROVE i + 1 \in 1 .. Len(s)
        BY <1>1
    <1>5. 1 \in 1 .. Len(s)
        BY <1>1
    <1> QED BY <1>1, <1>2, <1>3, <1>4, <1>5

LEMMA PushShape ==
    ASSUME NEW S, NEW s \in Seq(S), NEW x \in S, NEW t, t = Append(s, x)
    PROVE  /\ t \in Seq(S) /\ Len(t) = Len(s) + 1 /\ Len(s) \in Nat /\ t[Len(t)] = x
           /\ DOMAIN s = 1 .. Len(s) /\ DOMAIN t = 1 .. Len(t)
           /\ \A i \in DOMAIN s : i \in DOMAIN t /\ t[i] = s[i] /\ i # Len(t)
           /\ \A i \in DOMAIN t : i \in DOMAIN s \/ i = Len(t)
PROOF
    <1>1. /\ t \in Seq(S) /\ Len(t) = Len(s) + 1 /\ Len(s) \in Nat
          /\ \A i \in 1 .. Len(s) : t[i] = s[i]
          /\ t[Len(s) + 1] = x
        BY AppendFacts
    <1>2. DOMAIN s = 1 .. Len(s) /\ DOMAIN t = 1 .. Len(s) + 1
        BY <1>1
    <1>3. \A i \in 1 .. Len(s) + 1 : i \in 1 .. Len(s) \/ i = Len(s) + 1
        BY <1>1
    <1>4. \A i \in 1 .. Len(s) : i \in 1 .. Len(s) + 1 /\ i # Len(s) + 1
        BY <1>1
    <1> QED BY <1>1, <1>2, <1>3, <1>4

LEMMA MessagesOps ==
    ASSUME OwnTypeOK
    PROVE  /\ exec \in Seq(Ops) /\ batch \in Seq(Ops) /\ messages \in Seq(Ops) /\ mainOps \in Seq(Ops)
           /\ chan \in Seq(WriterMsgs) /\ \A i \in DOMAIN chan : chan[i] \in WriterMsgs /\ chan[i].ops \in Seq(Ops)
           /\ disk \in Disks
PROOF
    <1>1. <<>> \in Seq(Ops)
        OBVIOUS
    <1>2. \A x \in WriterMsgs : x.ops \in Seq(Ops)
        BY <1>1 DEF WriterMsgs
    <1>3. chan \in Seq(WriterMsgs)
        BY DEF OwnTypeOK, ThreadTypeOK
    <1>4. \A i \in DOMAIN chan : chan[i] \in WriterMsgs
        BY <1>3
    <1> QED BY <1>2, <1>3, <1>4 DEF OwnTypeOK, ThreadTypeOK, MainTypeOK

LEMMA PopChan ==
    ASSUME OwnTypeOK, chan # <<>>, chan' = Tail(chan)
    PROVE  /\ 1 \in DOMAIN chan /\ chan[1] = Head(chan) /\ chan[1] \in WriterMsgs
           /\ \A i \in DOMAIN chan' : i \in Nat /\ i >= 1 /\ i + 1 \in DOMAIN chan /\ chan'[i] = chan[i + 1]
           /\ \A j \in DOMAIN chan : j \in Nat /\ (j # 1 => j - 1 \in DOMAIN chan' /\ chan'[j - 1] = chan[j])
           /\ Len(chan') = Len(chan) - 1 /\ Len(chan) \in Nat /\ Len(chan) >= 1
           /\ DOMAIN chan = 1 .. Len(chan) /\ DOMAIN chan' = 1 .. Len(chan')
PROOF
    <1>1. chan \in Seq(WriterMsgs)
        BY MessagesOps
    <1> QED BY ONLY <1>1, chan # <<>>, chan' = Tail(chan), PopShape

(* Only the thread's own steps and the two writers shuffle operations. *)
LEMMA ShuffleQueued ==
    ASSUME OwnTypeOK, Quiet \/ TakeBatch \/ TakeMessage \/ TakePending \/ SyncOp \/ WriteFile \/ Kill
    PROVE  \A u, c : Queued(u, c)' => Queued(u, c)
PROOF
    <1> SUFFICES ASSUME NEW u, NEW c, Queued(u, c)' PROVE Queued(u, c)
        OBVIOUS
    <1>0. ~FileOp(<<>>, u, c)
        BY DEF FileOp
    <1>1. CASE Quiet
        <2>1. UNCHANGED <<exec, messages, batch, mainOps>>
            BY <1>1 DEF Quiet
        <2>2. CASE chan' = chan
            BY <2>1, <2>2 DEF Queued
        <2>3. ASSUME NEW x \in WriterMsgs, x.ops = <<>>, chan' = Append(chan, x) PROVE Queued(u, c)
            <3>1. /\ \A i \in DOMAIN chan : i \in DOMAIN chan' /\ chan'[i] = chan[i]
                  /\ \A i \in DOMAIN chan' : i \in DOMAIN chan \/ chan'[i] = x
                BY <2>3, PushShape, MessagesOps
            <3> QED BY <2>1, <2>3, <3>1, <1>0 DEF Queued
        <2> QED BY <1>1, <2>2, <2>3 DEF Quiet
    <1>2. CASE TakeBatch
        <2>1. /\ 1 \in DOMAIN chan /\ batch' = chan[1].ops /\ UNCHANGED <<exec, messages, mainOps>>
              /\ \A i \in DOMAIN chan' : i + 1 \in DOMAIN chan /\ chan'[i] = chan[i + 1]
            BY <1>2, PopChan DEF TakeBatch, Aside, mainVars
        <2> QED BY <2>1 DEF Queued
    <1>3. CASE TakeMessage
        <2>1. /\ 1 \in DOMAIN chan /\ messages' = messages \o chan[1].ops /\ UNCHANGED <<exec, batch, mainOps>>
              /\ \A i \in DOMAIN chan' : i + 1 \in DOMAIN chan /\ chan'[i] = chan[i + 1]
            BY <1>3, PopChan DEF TakeMessage, Aside, mainVars
        <2>2. FileOp(messages', u, c) => FileOp(messages, u, c) \/ FileOp(chan[1].ops, u, c)
            BY <2>1, MessagesOps, FileOps
        <2> QED BY <2>1, <2>2 DEF Queued
    <1>4. CASE TakePending
        <2>1. /\ exec' = messages \o batch /\ messages' = <<>> /\ batch' = <<>> /\ UNCHANGED mainOps
              /\ \A i \in DOMAIN chan' : \E j \in DOMAIN chan : chan'[i] = chan[j]
            BY <1>4, PopChan DEF TakePending, Aside, mainVars
        <2>2. FileOp(exec', u, c) => FileOp(messages, u, c) \/ FileOp(batch, u, c)
            BY <2>1, MessagesOps, FileOps
        <2> QED BY <2>1, <2>2, <1>0 DEF Queued
    <1>5. CASE SyncOp
        <2>1. /\ mainOps # <<>> /\ mainOps' = Tail(mainOps) /\ UNCHANGED <<exec, messages, batch, chan>>
            BY <1>5 DEF SyncOp, threadVars
        <2>2. FileOp(mainOps', u, c) => FileOp(mainOps, u, c)
            BY <2>1, MessagesOps, FileOps
        <2> QED BY <2>1, <2>2 DEF Queued
    <1>6. CASE WriteFile
        <2>1. /\ exec # <<>> /\ exec' = Tail(exec) /\ UNCHANGED <<mainOps, messages, batch, chan>>
            BY <1>6 DEF WriteFile, mainVars
        <2>2. FileOp(exec', u, c) => FileOp(exec, u, c)
            BY <2>1, MessagesOps, FileOps
        <2> QED BY <2>1, <2>2 DEF Queued
    <1>7. CASE Kill
        <2>1. exec' = <<>> /\ messages' = <<>> /\ batch' = <<>> /\ mainOps' = <<>> /\ chan' = <<>>
            BY <1>7 DEF Kill, NewWriter
        <2> QED BY <2>1, <1>0 DEF Queued
    <1> QED BY <1>1, <1>2, <1>3, <1>4, <1>5, <1>6, <1>7

LEMMA SyncQueued ==
    ASSUME OwnTypeOK, SyncSave \/ FinalSave
    PROVE  \A u, c : Queued(u, c)' => Queued(u, c) \/ InHistory(u, c)
PROOF
    <1>1. mainOps' = BuildSaveBatch(mem, built + 1, handed) /\ UNCHANGED <<chan, threadVars>>
        BY DEF SyncSave, FinalSave, StartSyncSave
    <1>2. StateOK(mem) /\ disk \in Disks /\ built + 1 \in Nat
        BY ChatElements
    <1>3. ASSUME NEW u, NEW c, FileOp(mainOps', u, c) PROVE InHistory(u, c)
        <2>1. FileOp(mainOps', u, c) <=> InPanels(mem, u, c)
            BY <1>1, <1>2, BatchFiles
        <2> QED BY <2>1, <1>3 DEF InPanels, InHistory
    <1> QED BY <1>1, <1>3 DEF Queued, threadVars

(* What holds of every step within a life. *)
Within(w) ==
    /\ w[1] = mem.next /\ Learns(w) /\ Stores(w) /\ \A u, c : Filed(u, c)' => c \in handed'
    /\ mem.next <= mem'.next /\ made <= made'
    /\ handed \subseteq handed' /\ removed \subseteq removed' /\ handed' \cup removed' \subseteq 1 .. made'

LEMMA AppliedStored ==
    ASSUME NEW op \in Ops, disk \in Disks, disk' = Apply(disk, op), NEW u, NEW c, Stored(u, c)'
    PROVE  Stored(u, c) \/ (op.kind = "message" /\ op.uid = u /\ op.val = c)
PROOF BY ApplyFacts DEF Stored

LEMMA WithinLife ==
    ASSUME OwnTypeOK, Bound,
           \/ \E w, ms, b : Async(w, ms, b)
           \/ SyncSave \/ FinalSave \/ SyncOp \/ WriteFile
           \/ Quiet \/ TakeBatch \/ TakeMessage \/ TakePending \/ Kill
    PROVE  \E w : Within(w)
PROOF
    <1>0. mem.next \in Nat /\ made \in Nat /\ handed \cup removed \subseteq 1 .. made
        BY ChatElements DEF Bound
    <1>1. ASSUME NEW w, NEW ms, NEW b, Async(w, ms, b) PROVE Within(w)
        <2>1. Forward /\ ChatStep(w, ms) /\ FileStep(w) /\ w[1] = mem.next
            BY <1>1 DEF Async
        <2>2. \A u, c : Queued(u, c)' => Queued(u, c) \/ InHistory(u, c)' \/
                            \E i \in DOMAIN ms : ms[i].uid = u /\ ms[i].body = c
            BY <1>1, AsyncQueued
        <2>3. \A u, c : Queued(u, c)' => Queued(u, c) \/ InHistory(u, c)' \/ (InChat(u, c) /\ c \in handed')
            BY <2>1, <2>2 DEF ChatStep
        <2>4. Learns(w)
            BY <2>1, <2>3 DEF Learns, Knows, ChatStep
        <2>5. \A u, c : Stored(u, c)' => Stored(u, c) \/ (New(w, u, c) /\ c \in handed')
            <3>1. Absent \notin Bodies
                BY BoundsAssumption DEF Absent, Bodies
            <3> QED BY <2>1, <3>1 DEF Stored, FileStep, New
        <2>6. \A u, c : Filed(u, c)' => c \in handed'
            BY <2>1, <2>3, <2>5 DEF Filed, Forward, ChatStep, Bound
        <2> QED BY <2>1, <2>4, <2>5, <2>6 DEF Within, Stores, Forward
    <1> DEFINE w == <<mem.next, "A">>
    <1>w. w[1] = mem.next
        OBVIOUS
    <1> HIDE DEF w
    <1>2. ASSUME mem' = mem, UNCHANGED <<made, handed, removed>>,
                 \A u, c : Queued(u, c)' => Queued(u, c) \/ InHistory(u, c),
                 \A u, c : Stored(u, c)' => Stored(u, c) \/ Queued(u, c)
          PROVE  Within(w)
        <2>1. \A u, c : (InChat(u, c)' <=> InChat(u, c)) /\ (InHistory(u, c)' <=> InHistory(u, c))
            BY <1>2 DEF InChat, InHistory
        <2>2. Learns(w) /\ Stores(w)
            BY <2>1, <1>2 DEF Learns, Stores, Knows
        <2>3. \A u, c : Filed(u, c)' => Filed(u, c)
            BY <2>1, <1>2 DEF Filed
        <2>4. \A u, c : Filed(u, c) => c \in handed
            BY DEF Bound
        <2> QED BY <2>2, <2>3, <2>4, <1>2, <1>0, <1>w DEF Within
    <1>3. CASE SyncSave \/ FinalSave
        <2>1. UNCHANGED <<mem, made, handed, removed, disk>>
            BY <1>3 DEF SyncSave, FinalSave, StartSyncSave
        <2>2. \A u, c : Stored(u, c)' => Stored(u, c)
            BY <2>1 DEF Stored
        <2> QED BY <2>1, <2>2, <1>2, <1>3, SyncQueued
    <1>4. CASE SyncOp
        <2>1. /\ UNCHANGED <<mem, made, handed, removed>> /\ mainOps # <<>> /\ disk' = Apply(disk, Head(mainOps))
            BY <1>4 DEF SyncOp, ghosts
        <2>2. Head(mainOps) = mainOps[1] /\ mainOps[1] \in Ops /\ 1 \in DOMAIN mainOps
            BY <2>1, MessagesOps, PopShape
        <2>3. \A u, c : Stored(u, c)' => Stored(u, c) \/ FileOp(mainOps, u, c)
            BY <2>1, <2>2, AppliedStored, MessagesOps DEF FileOp
        <2> QED BY <2>1, <2>3, <1>2, <1>4, ShuffleQueued DEF Queued
    <1>5. CASE WriteFile
        <2>1. /\ UNCHANGED <<mem, made, handed, removed>> /\ exec # <<>> /\ disk' = Apply(disk, Head(exec))
            BY <1>5 DEF WriteFile, mainVars, ghosts
        <2>2. Head(exec) = exec[1] /\ exec[1] \in Ops /\ 1 \in DOMAIN exec
            BY <2>1, MessagesOps, PopShape
        <2>3. \A u, c : Stored(u, c)' => Stored(u, c) \/ FileOp(exec, u, c)
            BY <2>1, <2>2, AppliedStored, MessagesOps DEF FileOp
        <2> QED BY <2>1, <2>3, <1>2, <1>5, ShuffleQueued DEF Queued
    <1>6. CASE Quiet \/ TakeBatch \/ TakeMessage \/ TakePending \/ Kill
        <2>1. UNCHANGED <<mem, made, handed, removed>> /\ disk'.message = disk.message
            BY <1>6 DEF Quiet, TakeBatch, TakeMessage, TakePending, Aside, Kill, mainVars, ghosts
        <2>2. \A u, c : Stored(u, c)' => Stored(u, c)
            BY <2>1 DEF Stored
        <2> QED BY <2>1, <2>2, <1>2, <1>6, ShuffleQueued
    <1> QED BY <1>1, <1>3, <1>4, <1>5, <1>6

(* A boot knows what the disk holds. *)
LEMMA BootKnows ==
    ASSUME OwnTypeOK, Boot
    PROVE  /\ \A u, c : Knows(u, c)' => Stored(u, c)
           /\ \A u, c : Stored(u, c)' <=> Stored(u, c)
           /\ mem' = LoadState(disk) /\ StateOK(mem') /\ mem'.next = disk.config.next
           /\ mem'.chat = LoadMessages(disk, disk.chat)
           /\ DOMAIN mem'.history = {p \in disk.worker : disk.panel[p] # NoPanel}
           /\ \A p \in DOMAIN mem'.history :
                  /\ p \in Numbers /\ disk.panel[p][1] \in Seq(ListedMessages)
                  /\ mem'.history[p] = LoadMessages(disk, disk.panel[p][1])
           /\ mainOps' = BuildSaveBatch(mem', built + 1, handed)
           /\ exec' = <<>> /\ batch' = <<>> /\ messages' = <<>> /\ chan' = <<>>
           /\ then' = "loop" /\ acked' = {}
           /\ main' = "saving" /\ exit' = "none" /\ built' = built + 1 /\ stale' = overtaken
           /\ UNCHANGED <<disk, made, crashes, handed, removed, overtaken, timedOut>>
PROOF
    <1>1. /\ mem' = LoadState(disk) /\ mainOps' = BuildSaveBatch(mem', built + 1, handed)
          /\ exec' = <<>> /\ batch' = <<>> /\ messages' = <<>> /\ chan' = <<>> /\ then' = "loop" /\ acked' = {}
          /\ main' = "saving" /\ exit' = "none" /\ built' = built + 1 /\ stale' = overtaken
          /\ UNCHANGED <<disk, made, crashes, handed, removed, overtaken, timedOut>>
        BY DEF Boot, NewWriter
    <1>0. disk \in Disks /\ disk.chat \in Seq(ListedMessages) /\ built + 1 \in Nat
        BY ChatElements, DiskFacts
    <1>2. /\ StateOK(mem') /\ mem'.next = disk.config.next
          /\ mem'.chat = LoadMessages(disk, disk.chat)
          /\ DOMAIN mem'.history = {p \in disk.worker : disk.panel[p] # NoPanel}
          /\ \A p \in DOMAIN mem'.history :
                 /\ p \in Numbers /\ disk.panel[p][1] \in Seq(ListedMessages)
                 /\ mem'.history[p] = LoadMessages(disk, disk.panel[p][1])
        BY <1>1, <1>0, LoadStateFacts
    <1>3. ASSUME NEW list \in Seq(ListedMessages), NEW i \in DOMAIN LoadMessages(disk, list)
          PROVE  Stored(LoadMessages(disk, list)[i].uid, LoadMessages(disk, list)[i].body)
        BY <1>0, LoadFacts DEF Stored
    <1>4. \A u, c : InChat(u, c)' => Stored(u, c)
        BY <1>0, <1>2, <1>3 DEF InChat
    <1>5. \A u, c : InHistory(u, c)' => Stored(u, c)
        BY <1>2, <1>3 DEF InHistory
    <1>6. ASSUME NEW u, NEW c, Queued(u, c)' PROVE Stored(u, c)
        <2>1. ~FileOp(<<>>, u, c)
            BY DEF FileOp
        <2>2. FileOp(mainOps', u, c)
            BY <2>1, <1>1, <1>6 DEF Queued
        <2>3. InPanels(mem', u, c)
            BY <2>2, <1>0, <1>1, <1>2, BatchFiles
        <2> QED BY <2>3, <1>5 DEF InPanels, InHistory
    <1>7. \A u, c : Stored(u, c)' <=> Stored(u, c)
        BY <1>1 DEF Stored
    <1> QED BY <1>1, <1>2, <1>4, <1>5, <1>6, <1>7 DEF Knows

LEMMA BoundStep ==
    ASSUME OwnTypeOK, Bound, Phases, [Step]_ownVars
    PROVE  Bound'
PROOF
    <1>0. \A u, c : Stored(u, c) => c \in handed /\ c \in 1 .. made
        BY DEF Bound, Filed
    <1>1. ASSUME NEW w, Within(w) PROVE Bound'
        <2>0. made \in Nat /\ made' \in Nat /\ made <= made' /\ mem.next \in Nat
            <3>1. OwnTypeOK'
                BY TypeStep
            <3> QED BY <1>1, <3>1, ChatElements DEF Within, OwnTypeOK, CountersTypeOK
        <2>1. \A u, c : Knows(u, c)' => c \in 1 .. made'
            BY <1>1, <2>0 DEF Within, Learns, New, Bound
        <2>2. ASSUME NEW u, NEW c, Knows(u, c)' \/ Stored(u, c)'
              PROVE  Knows(u, c) \/ Stored(u, c) \/ (u = w /\ c = made + 1)
            BY <2>2, <1>1 DEF Within, Learns, Stores, New
        <2>3. \A u, c : Knows(u, c) \/ Stored(u, c) => c # made + 1
            BY <1>0, <2>0 DEF Bound
        <2>4. \A u, v, c : (Knows(u, c)' \/ Stored(u, c)') /\ (Knows(v, c)' \/ Stored(v, c)') => u = v
            <3>1. \A u, v, c : (Knows(u, c) \/ Stored(u, c)) /\ (Knows(v, c) \/ Stored(v, c)) => u = v
                BY DEF Bound
            <3> SUFFICES ASSUME NEW u, NEW v, NEW c, Knows(u, c)' \/ Stored(u, c)', Knows(v, c)' \/ Stored(v, c)'
                         PROVE  u = v
                OBVIOUS
            <3>2. Knows(u, c) \/ Stored(u, c) \/ (u = w /\ c = made + 1)
                BY <2>2
            <3>3. Knows(v, c) \/ Stored(v, c) \/ (v = w /\ c = made + 1)
                BY <2>2
            <3> QED BY ONLY <3>1, <3>2, <3>3, <2>3
        <2> QED BY <2>1, <2>4, <1>1 DEF Within, Bound
    <1>2. CASE Boot
        <2>1. /\ \A u, c : Knows(u, c)' => Stored(u, c)
              /\ \A u, c : Stored(u, c)' <=> Stored(u, c)
              /\ UNCHANGED <<made, handed, removed>>
            BY <1>2, BootKnows
        <2>2. \A u, c : Filed(u, c)' => Stored(u, c)
            BY <2>1 DEF Filed, Knows
        <2> QED BY <2>1, <2>2, <1>0 DEF Bound
    <1> QED BY <1>1, <1>2, Kinds, WithinLife

-----------------------------------------------------------------------------
(* The pipeline *)

LEMMA BehindStep ==
    ASSUME OwnTypeOK, Bound, Phases, Behind, [Step]_ownVars
    PROVE  Behind'
PROOF
    <1>1. ASSUME NEW w, NEW ms, NEW b, Async(w, ms, b) PROVE Behind'
        <2>1. PICK n, l : Shape(n, l, ms, b)
            BY <1>1, SendsShape
        <2>2. UNCHANGED <<messages, batch>> /\ b # <<>>
            <3>1. StateOK(mem') /\ b = BuildSaveBatch(mem', built + 1, handed') /\ built + 1 \in Nat /\ disk \in Disks
                BY <1>1, ChatElements DEF Async, Pipes
            <3>2. b # <<>>
                BY <3>1, BatchFacts
            <3> QED BY <3>2, <1>1 DEF Async, Pipes, threadVars
        <2>3. \A i \in DOMAIN chan' : i < l => \E j \in DOMAIN chan' : j > i /\ chan'[j].kind = "batch"
            BY <2>1 DEF Shape
        <2>4. ASSUME NEW i \in DOMAIN chan'
              PROVE  /\ chan'[i].kind = "batch" => chan'[i].ops # <<>>
                     /\ chan'[i].kind = "message" =>
                            /\ \A k \in DOMAIN chan'[i].ops : chan'[i].ops[k].kind = "message"
                            /\ \E j \in DOMAIN chan' : j > i /\ chan'[j].kind = "batch"
            <3>1. CASE i \in 1 .. n
                <4>1. chan'[i] = chan[i] /\ i \in DOMAIN chan /\ i < l
                    BY <3>1, <2>1 DEF Shape
                <4> QED BY <4>1, <2>3 DEF Behind
            <3>2. CASE i = l
                BY <3>2, <2>1, <2>2 DEF Shape
            <3>3. CASE i \notin 1 .. n /\ i # l
                <4>1. /\ i < l /\ chan'[i].kind = "message" /\ \E j \in DOMAIN ms : chan'[i].ops = <<File(ms[j])>>
                    BY <3>3, <2>1 DEF Shape
                <4>2. PICK j \in DOMAIN ms : chan'[i].ops = <<File(ms[j])>>
                    BY <4>1
                <4>3. \A k \in DOMAIN <<File(ms[j])>> : <<File(ms[j])>>[k].kind = "message"
                    BY DEF File
                <4> QED BY <4>1, <4>2, <4>3, <2>3
            <3> QED BY <3>1, <3>2, <3>3
        <2>5. SomeBatch'
            BY <2>1 DEF Shape, SomeBatch
        <2> QED BY <2>2, <2>4, <2>5 DEF Behind
    <1>2. CASE SyncSave \/ FinalSave \/ SyncOp \/ WriteFile
        <2>1. UNCHANGED <<chan, batch, messages>>
            BY <1>2 DEF SyncSave, FinalSave, StartSyncSave, SyncOp, WriteFile, threadVars
        <2> QED BY <2>1 DEF Behind, SomeBatch
    <1>3. CASE Quiet
        <2>1. UNCHANGED <<batch, messages>>
            BY <1>3 DEF Quiet
        <2>2. CASE chan' = chan
            BY <2>1, <2>2 DEF Behind, SomeBatch
        <2>3. ASSUME NEW x \in WriterMsgs, ~IsWork(x), chan' = Append(chan, x) PROVE Behind'
            <3>1. /\ \A i \in DOMAIN chan : i \in DOMAIN chan' /\ chan'[i] = chan[i]
                  /\ \A i \in DOMAIN chan' : i \in DOMAIN chan \/ chan'[i] = x
                BY <2>3, PushShape, MessagesOps
            <3>2. x.kind # "batch" /\ x.kind # "message"
                BY <2>3 DEF IsWork
            <3>3. ASSUME NEW i \in DOMAIN chan'
                  PROVE  /\ chan'[i].kind = "batch" => chan'[i].ops # <<>>
                         /\ chan'[i].kind = "message" =>
                                /\ \A k \in DOMAIN chan'[i].ops : chan'[i].ops[k].kind = "message"
                                /\ \E j \in DOMAIN chan' : j > i /\ chan'[j].kind = "batch"
                BY <3>1, <3>2 DEF Behind
            <3>4. SomeBatch => SomeBatch'
                BY <3>1 DEF SomeBatch
            <3> QED BY <2>1, <3>3, <3>4 DEF Behind
        <2> QED BY <1>3, <2>2, <2>3 DEF Quiet
    <1>4. ASSUME chan # <<>>, chan' = Tail(chan)
          PROVE  /\ \A i \in DOMAIN chan' :
                        /\ chan'[i].kind = "batch" => chan'[i].ops # <<>>
                        /\ chan'[i].kind = "message" =>
                               /\ \A k \in DOMAIN chan'[i].ops : chan'[i].ops[k].kind = "message"
                               /\ \E j \in DOMAIN chan' : j > i /\ chan'[j].kind = "batch"
                 /\ SomeBatch => SomeBatch' \/ Head(chan).kind = "batch"
                 /\ Head(chan).kind = "message" => SomeBatch'
        <2>1. /\ 1 \in DOMAIN chan /\ chan[1] = Head(chan)
              /\ \A i \in DOMAIN chan' : i \in Nat /\ i >= 1 /\ i + 1 \in DOMAIN chan /\ chan'[i] = chan[i + 1]
              /\ \A j \in DOMAIN chan : j \in Nat /\ (j # 1 => j - 1 \in DOMAIN chan' /\ chan'[j - 1] = chan[j])
            BY <1>4, PopChan
        <2>2. ASSUME NEW i \in DOMAIN chan'
              PROVE  /\ chan'[i].kind = "batch" => chan'[i].ops # <<>>
                     /\ chan'[i].kind = "message" => \A k \in DOMAIN chan'[i].ops : chan'[i].ops[k].kind = "message"
            BY <2>1 DEF Behind
        <2>3. ASSUME NEW i \in DOMAIN chan', chan'[i].kind = "message"
              PROVE  \E j \in DOMAIN chan' : j > i /\ chan'[j].kind = "batch"
            <3>1. PICK j \in DOMAIN chan : j > i + 1 /\ chan[j].kind = "batch"
                BY <2>1, <2>3 DEF Behind
            <3>2. j # 1 /\ j - 1 > i
                BY <3>1, <2>1
            <3> QED BY <3>1, <3>2, <2>1
        <2>4. SomeBatch => SomeBatch' \/ Head(chan).kind = "batch"
            BY <2>1 DEF SomeBatch
        <2>5. Head(chan).kind = "message" => SomeBatch'
            <3>1. SUFFICES ASSUME chan[1].kind = "message" PROVE SomeBatch'
                BY <2>1
            <3>2. PICK j \in DOMAIN chan : j > 1 /\ chan[j].kind = "batch"
                BY <2>1, <3>1 DEF Behind
            <3>3. j # 1
                BY <3>2, <2>1
            <3> QED BY <3>2, <3>3, <2>1 DEF SomeBatch
        <2> QED BY <2>2, <2>3, <2>4, <2>5
    <1>5. CASE TakeBatch
        <2>1. batch' # <<>> /\ messages' = messages
            BY <1>5, PopChan DEF TakeBatch, Behind
        <2> QED BY <2>1, <1>4, <1>5 DEF TakeBatch, Behind
    <1>6. CASE TakeMessage
        <2>1. /\ messages' = messages \o chan[1].ops /\ chan[1].ops \in Seq(Ops) /\ messages \in Seq(Ops)
              /\ \A k \in DOMAIN chan[1].ops : chan[1].ops[k].kind = "message"
            <3>1. /\ chan # <<>> /\ chan' = Tail(chan) /\ Head(chan).kind = "message"
                  /\ messages' = messages \o Head(chan).ops
                BY <1>6 DEF TakeMessage
            <3>2. 1 \in DOMAIN chan /\ chan[1] = Head(chan)
                BY <3>1, PopChan
            <3>3. \A k \in DOMAIN chan[1].ops : chan[1].ops[k].kind = "message"
                BY <3>1, <3>2 DEF Behind
            <3> QED BY <3>1, <3>2, <3>3, MessagesOps
        <2>2. \A x : InSeq(x, messages') => InSeq(x, messages) \/ InSeq(x, chan[1].ops)
            BY <2>1, ConcatElements
        <2>3. \A k \in DOMAIN messages' : messages'[k].kind = "message"
            BY <2>1, <2>2 DEF InSeq, Behind
        <2>4. SomeBatch'
            BY <1>4, <1>6 DEF TakeMessage
        <2> QED BY <2>3, <2>4, <1>4, <1>6 DEF TakeMessage, Behind
    <1>7. CASE TakePending
        <2>1. messages' = <<>> /\ DOMAIN messages' = {}
            BY <1>7 DEF TakePending
        <2>2. CASE chan' = chan
            BY <2>1, <2>2 DEF Behind
        <2>3. CASE chan # <<>> /\ chan' = Tail(chan)
            BY <2>1, <2>3, <1>4 DEF Behind
        <2> QED BY <1>7, <2>2, <2>3 DEF TakePending
    <1>8. CASE Kill \/ Boot
        <2>1. messages' = <<>> /\ DOMAIN messages' = {} /\ DOMAIN chan' = {}
            BY <1>8 DEF Kill, Boot, NewWriter
        <2> QED BY <2>1 DEF Behind
    <1> QED BY <1>1, <1>2, <1>3, <1>5, <1>6, <1>7, <1>8, Kinds

LEMMA PhasesThread ==
    ASSUME OwnTypeOK, Bound, Behind, Phases, WriteFile \/ Written \/ TakeBatch \/ TakeMessage \/ TakePending
    PROVE  Phases'
PROOF
    <1>1. UNCHANGED <<main, exit, mainOps, timedOut>> /\ main # "down"
        BY DEF WriteFile, Written, TakeBatch, TakeMessage, TakePending, Aside, Idle, mainVars, ghosts
    <1>4. Calm => Calm' /\ acked \subseteq acked'
        <2>1. ASSUME Calm PROVE Calm'
            <3>1. ~TakeBatch /\ ~TakeMessage /\ ~WriteFile
                BY <2>1, PopChan DEF TakeBatch, TakeMessage, WriteFile, Calm, IsWork
            <3>2. CASE Written
                BY <3>2, <2>1 DEF Calm, Written
            <3>3. CASE TakePending
                <4>1. exec' = <<>> /\ messages' = <<>> /\ batch' = <<>>
                    BY <3>3, <2>1 DEF TakePending, Calm
                <4>2. chan' = chan \/ (chan # <<>> /\ chan' = Tail(chan))
                    BY <3>3 DEF TakePending
                <4>3. \A i \in DOMAIN chan' : ~IsWork(chan'[i])
                    BY <4>2, <2>1, PopChan DEF Calm, IsWork
                <4> QED BY <4>1, <4>3 DEF Calm
            <3> QED BY <3>1, <3>2, <3>3
        <2>2. acked \subseteq acked'
            BY DEF WriteFile, Written, TakeBatch, TakeMessage, TakePending
        <2> QED BY <2>1, <2>2
    <1>5. ASSUME main \in {"run", "saving"}
          PROVE  acked' = {} /\ then' = "loop" /\ \A i \in DOMAIN chan' : IsWork(chan'[i])
        <2>1. acked = {} /\ then = "loop" /\ \A i \in DOMAIN chan : IsWork(chan[i])
            BY <1>5 DEF Phases
        <2>2. CASE WriteFile
            BY <2>1, <2>2 DEF WriteFile
        <2>3. CASE Written
            BY <2>1, <2>3 DEF Written
        <2>4. CASE TakeBatch \/ TakeMessage
            <3>1. chan # <<>> /\ chan' = Tail(chan) /\ UNCHANGED <<acked, then>>
                BY <2>4 DEF TakeBatch, TakeMessage
            <3> QED BY <3>1, <2>1, PopChan DEF IsWork
        <2>5. CASE TakePending
            <3>1. chan # <<>> => 1 \in DOMAIN chan /\ chan[1] = Head(chan)
                BY MessagesOps, PopShape
            <3>2. chan = <<>> /\ then' = "loop" /\ chan' = chan /\ acked' = acked
                BY <3>1, <2>1, <2>5 DEF TakePending, IsWork
            <3> QED BY <3>2, <2>1
        <2> QED BY <2>2, <2>3, <2>4, <2>5
    <1>6. ASSUME Awaits PROVE Flushed'
        <2>1. Flushed
            BY <1>6 DEF Phases
        <2>2. CASE 1 \in acked /\ Calm
            BY <2>2, <1>4 DEF Flushed
        <2>3. CASE /\ 1 \notin acked /\ then = "ack" /\ flush = 1
                   /\ batch = <<>> /\ messages = <<>> /\ \A i \in DOMAIN chan : ~IsWork(chan[i])
            <3>1. ~TakeBatch /\ ~TakeMessage /\ ~TakePending
                BY <2>3 DEF TakeBatch, TakeMessage, TakePending, Idle
            <3>2. CASE WriteFile
                <4>1. UNCHANGED <<chan, batch, messages, then, flush, acked>>
                    BY <3>2 DEF WriteFile
                <4> QED BY <4>1, <2>3 DEF Flushed
            <3>3. CASE Written
                BY <3>3, <2>3 DEF Written, Flushed, Calm
            <3> QED BY <3>1, <3>2, <3>3
        <2>4. CASE /\ 1 \notin acked /\ then = "loop" /\ chan # <<>> /\ chan[Len(chan)] = SendFlush(1)
                   /\ \A i \in 1 .. Len(chan) - 1 : IsWork(chan[i])
            <3>1. ~Written
                BY <2>4 DEF Written
            <3>2. CASE WriteFile
                <4>1. UNCHANGED <<chan, then, acked>>
                    BY <3>2 DEF WriteFile
                <4> QED BY <4>1, <2>4 DEF Flushed
            <3>3. /\ 1 \in DOMAIN chan /\ Head(chan) = chan[1] /\ Len(chan) \in Nat /\ Len(chan) >= 1
                  /\ DOMAIN chan = 1 .. Len(chan)
                BY <2>4, MessagesOps, PopShape
            <3>4. SendFlush(1).kind = "flush" /\ SendFlush(1).id = 1
                BY DEF SendFlush
            <3>5. CASE TakeBatch \/ TakeMessage
                <4>1. /\ chan # <<>> /\ chan' = Tail(chan) /\ UNCHANGED <<acked, then>>
                      /\ chan[1].kind \in {"batch", "message"}
                    BY <3>5, <3>3 DEF TakeBatch, TakeMessage
                <4>2. Len(chan) # 1
                    BY <4>1, <2>4, <3>4
                <4>3. /\ Len(chan') = Len(chan) - 1 /\ DOMAIN chan' = 1 .. Len(chan')
                      /\ \A i \in DOMAIN chan' : chan'[i] = chan[i + 1]
                    BY <4>1, PopChan
                <4>4. Len(chan') >= 1 /\ Len(chan') \in DOMAIN chan' /\ Len(chan') + 1 = Len(chan)
                    BY <4>2, <4>3, <3>3
                <4>5. chan'[Len(chan')] = SendFlush(1) /\ chan' # <<>>
                    BY <4>3, <4>4, <2>4
                <4>6. ASSUME NEW i \in 1 .. Len(chan') - 1 PROVE IsWork(chan'[i])
                    <5>1. i \in DOMAIN chan' /\ i + 1 \in 1 .. Len(chan) - 1
                        BY <4>3, <3>3
                    <5>2. chan'[i] = chan[i + 1] /\ IsWork(chan[i + 1])
                        BY <5>1, <4>3, <2>4
                    <5> QED BY <5>2 DEF IsWork
                <4> QED BY <4>1, <4>5, <4>6, <2>4 DEF Flushed
            <3>6. CASE TakePending
                <4>1. ~IsWork(chan[1])
                    BY <3>6, <3>3, <2>4 DEF TakePending, IsWork
                <4>2. Len(chan) = 1
                    <5>1. 1 \notin 1 .. Len(chan) - 1
                        BY <4>1, <2>4
                    <5> QED BY <5>1, <3>3
                <4>3. chan[1] = SendFlush(1)
                    BY <4>2, <2>4
                <4>4. /\ chan' = Tail(chan) /\ then' = "ack" /\ flush' = 1 /\ batch' = <<>> /\ messages' = <<>>
                      /\ acked' = acked
                    BY <4>3, <3>6, <3>3, <3>4, <2>4 DEF TakePending
                <4>5. DOMAIN chan' = {}
                    <5>1. DOMAIN chan' = 1 .. Len(chan') /\ Len(chan') = Len(chan) - 1
                        BY <4>4, <2>4, PopChan
                    <5> QED BY <5>1, <4>2
                <4> QED BY <4>4, <4>5, <2>4 DEF Flushed
            <3> QED BY <3>1, <3>2, <3>5, <3>6
        <2> QED BY <2>1, <2>2, <2>3, <2>4 DEF Flushed
    <1> QED BY <1>1, <1>4, <1>5, <1>6 DEF Phases, Awaits, Over

(* What the main thread waits for is done when it goes on. *)
LEMMA FlushCalm ==
    ASSUME Flushed, 1 \in acked
    PROVE  Calm
PROOF BY DEF Flushed

(* Work added or taken while the flush is on its way. *)
LEMMA PhasesStep ==
    ASSUME OwnTypeOK, Bound, Behind, Phases, [Step]_ownVars
    PROVE  Phases'
PROOF
    <1>0. /\ main \in {"run", "saving", "flush", "lastSave", "drop", "join", "down"}
          /\ exit \in {"quit", "reload", "exec", "disowned", "none", "killed"}
          /\ Exits = {"quit", "reload", "exec", "disowned"}
        BY DEF OwnTypeOK, MainTypeOK, Exits
    <1>t. timedOut \in BOOLEAN /\ timedOut' \in BOOLEAN
        BY TypeStep DEF OwnTypeOK, CountersTypeOK
    <1>1. ASSUME NEW w, NEW ms, NEW b, Async(w, ms, b) PROVE Phases'
        <2>1. main = "run" /\ UNCHANGED <<main, exit, mainOps, acked, then, timedOut>>
            BY <1>1 DEF Async, Pipes, threadVars
        <2>2. PICK n, l : Shape(n, l, ms, b)
            BY <1>1, SendsShape
        <2>3. \A i \in DOMAIN chan' : IsWork(chan'[i])
            BY <2>1, <2>2 DEF Shape, Phases, IsWork
        <2> QED BY <2>1, <2>3 DEF Phases, Awaits, Over
    <1>2. ASSUME NEW e \in Exits, NEW nx, Leave(e, nx),
                 (nx = "flush" /\ e # "disowned") \/ (nx = "drop" /\ e = "disowned")
          PROVE  Phases'
        <2>1. /\ main = "run" /\ exit' = e /\ main' = nx /\ chan' = Append(chan, SendFlush(1))
              /\ timedOut' = FALSE /\ acked' = acked /\ then' = then /\ mainOps' = mainOps
            BY <1>2 DEF Leave, threadVars
        <2>2. /\ acked = {} /\ then = "loop" /\ mainOps = <<>>
              /\ \A i \in DOMAIN chan : IsWork(chan[i])
            BY <2>1 DEF Phases
        <2>3. SendFlush(1) \in WriterMsgs
            BY DEF SendFlush, WriterMsgs
        <2>4. /\ Len(chan') = Len(chan) + 1 /\ Len(chan) \in Nat /\ chan'[Len(chan')] = SendFlush(1)
              /\ DOMAIN chan = 1 .. Len(chan) /\ chan' # <<>>
              /\ \A i \in DOMAIN chan : chan'[i] = chan[i]
            <3>1. chan \in Seq(WriterMsgs)
                BY MessagesOps
            <3> QED BY <3>1, <2>1, <2>3, PushShape
        <2>5. \A i \in 1 .. Len(chan') - 1 : IsWork(chan'[i])
            BY <2>2, <2>4 DEF IsWork
        <2>6. Flushed'
            BY <2>1, <2>2, <2>4, <2>5 DEF Flushed
        <2> QED BY <2>1, <2>2, <2>6, <1>0, <1>2 DEF Phases, Awaits, Over
    <1>3. CASE Quit
        BY <1>3, <1>2 DEF Quit
    <1>4. CASE Disowned
        BY <1>4, <1>2 DEF Disowned, Exits
    <1>5. CASE SyncSave
        <2>1. main = "run" /\ main' = "saving" /\ UNCHANGED <<exit, acked, then, chan>>
            BY <1>5 DEF SyncSave, threadVars
        <2> QED BY <2>1 DEF Phases, Awaits, Over
    <1>6. CASE FinalSave
        <2>1. /\ main = "flush" /\ main' = "lastSave"
              /\ UNCHANGED <<exit, chan, batch, messages, exec, acked, then>>
              /\ (1 \in acked /\ timedOut' = timedOut) \/ timedOut' = TRUE
            BY <1>6 DEF FinalSave, StartSyncSave, FlushDone, FlushTimeout, threadVars
        <2>2. ~timedOut' => Calm'
            <3>1. Flushed
                BY <2>1 DEF Phases, Awaits
            <3>2. 1 \in acked => Calm
                BY <3>1, FlushCalm
            <3> QED BY <3>2, <2>1, <1>t DEF Calm
        <2> QED BY <2>1, <2>2, <1>0 DEF Phases, Awaits, Over
    <1>7. CASE SyncOp
        <2>1. /\ main \in {"saving", "lastSave"} /\ mainOps # <<>> /\ mainOps' = Tail(mainOps)
              /\ main' = IF main = "saving" /\ Tail(mainOps) = <<>> THEN "run" ELSE main
              /\ UNCHANGED <<exit, chan, batch, messages, exec, acked, then, timedOut>>
            BY <1>7 DEF SyncOp, threadVars, ghosts
        <2>2. Calm' <=> Calm
            BY <2>1 DEF Calm
        <2> QED BY <2>1, <2>2, <1>0 DEF Phases, Awaits, Over
    <1>8. CASE LeaveMain
        <2>1. /\ main = "lastSave" /\ mainOps = <<>> /\ mainOps' = <<>>
              /\ UNCHANGED <<exit, batch, messages, exec, acked, then, timedOut>>
              /\ (main' = "down" /\ exit = "exec" /\ chan' = chan) \/ (main' = "drop" /\ chan' = Append(chan, SendFlush(2)))
            BY <1>8 DEF LeaveMain, threadVars, ghosts
        <2>2. SendFlush(2) \in WriterMsgs /\ ~IsWork(SendFlush(2))
            BY DEF SendFlush, WriterMsgs, IsWork
        <2>3. Calm => Calm'
            <3>1. CASE chan' = chan
                BY <3>1, <2>1 DEF Calm
            <3>2. CASE chan' = Append(chan, SendFlush(2))
                <4>1. \A i \in DOMAIN chan' : (i \in DOMAIN chan /\ chan'[i] = chan[i]) \/ chan'[i] = SendFlush(2)
                    BY <3>2, <2>2, MessagesOps, PushShape
                <4> QED BY <4>1, <2>1, <2>2 DEF Calm, IsWork
            <3> QED BY <3>1, <3>2, <2>1
        <2> QED BY <2>1, <2>3, <1>0 DEF Phases, Awaits, Over
    <1>9. CASE DropWriter
        <2>1. /\ main = "drop" /\ main' = "join" /\ chan' = Append(chan, SendShutdown)
              /\ UNCHANGED <<exit, mainOps, batch, messages, exec, acked, then>>
              /\ \/ timedOut' = TRUE
                 \/ timedOut' = timedOut /\ (exit = "disowned" => 1 \in acked)
            BY <1>9 DEF DropWriter, FlushDone, FlushTimeout, threadVars
        <2>2. SendShutdown \in WriterMsgs /\ ~IsWork(SendShutdown)
            BY DEF SendShutdown, WriterMsgs, IsWork
        <2>3. Calm => Calm'
            <3>1. \A i \in DOMAIN chan' : (i \in DOMAIN chan /\ chan'[i] = chan[i]) \/ chan'[i] = SendShutdown
                BY <2>1, <2>2, MessagesOps, PushShape
            <3> QED BY <3>1, <2>1, <2>2 DEF Calm, IsWork
        <2>4. exit \in Exits /\ (~timedOut' => Calm)
            <3>1. exit = "disowned" => Flushed
                BY <2>1 DEF Phases, Awaits
            <3>2. exit = "disowned" /\ 1 \in acked => Calm
                BY <3>1, FlushCalm
            <3> QED BY <3>2, <2>1, <1>t DEF Phases, Over
        <2> QED BY <2>1, <2>3, <2>4, <1>0 DEF Phases, Awaits, Over
    <1>10. CASE Join
        <2>1. /\ main = "join" /\ main' = "down"
              /\ UNCHANGED <<exit, mainOps, chan, batch, messages, exec, acked, then, timedOut>>
            BY <1>10 DEF Join, threadVars, ghosts
        <2>2. Calm' <=> Calm
            BY <2>1 DEF Calm
        <2> QED BY <2>1, <2>2, <1>0 DEF Phases, Awaits, Over
    <1>11. CASE Kill
        BY <1>11, <1>0 DEF Kill, NewWriter, Phases, Awaits, Over
    <1>12. CASE Boot
        <2>1. main' = "saving" /\ exit' = "none" /\ acked' = {} /\ then' = "loop" /\ DOMAIN chan' = {}
            BY <1>12 DEF Boot, NewWriter
        <2> QED BY <2>1, <1>0 DEF Phases, Awaits, Over
    <1>13. CASE UNCHANGED ownVars \/ Seize
        <2>1. UNCHANGED <<main, exit, mainOps, chan, batch, messages, exec, then, flush, acked, timedOut>>
            BY <1>13 DEF Seize, ownVars, mainVars, threadVars, ghosts
        <2> QED BY <2>1 DEF Phases, Awaits, Over, Flushed, Calm
    <1>14. CASE WriteFile \/ Written \/ TakeBatch \/ TakeMessage \/ TakePending
        BY <1>14, PhasesThread
    <1> QED BY <1>1, <1>3, <1>4, <1>5, <1>6, <1>7, <1>8, <1>9, <1>10, <1>11, <1>12, <1>13, <1>14,
               UserMessageStep, BeginAssistantStep, FinishAssistantStep, ClearConversationStep, DetachStep,
               ClosePanelStep, TakeSteps
            DEF Step, OwnNext, MainNext, ThreadNext

-----------------------------------------------------------------------------
(* One life: uids are fresh, and what was handed over arrives *)

LEMMA KnowsTyped ==
    ASSUME OwnTypeOK, NEW u, NEW c, Knows(u, c)
    PROVE  u \in Uids /\ c \in Bodies /\ u[1] \in Nat
PROOF
    <1>1. \A v \in Uids : v[1] \in Nat
        BY DEF Uids, Numbers
    <1>2. InChat(u, c) => u \in Uids /\ c \in Bodies
        <2>1. mem.chat \in Seq(Messages)
            BY StateFacts DEF OwnTypeOK, MainTypeOK
        <2> QED BY <2>1, MessageFacts DEF InChat
    <1>3. InHistory(u, c) => u \in Uids /\ c \in Bodies
        <2>1. \A p \in DOMAIN mem.history : mem.history[p] \in Seq(Messages)
            BY StateFacts DEF OwnTypeOK, MainTypeOK
        <2> QED BY <2>1, MessageFacts DEF InHistory
    <1>4. ASSUME NEW s \in Seq(Ops), FileOp(s, u, c) PROVE u \in Uids /\ c \in Bodies
        BY <1>4, OpFacts DEF FileOp
    <1>5. Queued(u, c) => u \in Uids /\ c \in Bodies
        BY <1>4, MessagesOps DEF Queued
    <1> QED BY <1>1, <1>2, <1>3, <1>5 DEF Knows

LEMMA FreshWithin ==
    ASSUME OwnTypeOK, Fresh, NEW w, Within(w), mem'.next \in Nat, Distinct(mem.chat) => Distinct(mem'.chat)
    PROVE  Fresh'
PROOF
    <1>1. w[1] = mem.next /\ mem.next \in Nat /\ mem.next <= mem'.next
          /\ \A u, c : Knows(u, c)' => Knows(u, c) \/ New(w, u, c)
        BY DEF Within, Learns, OwnTypeOK, MainTypeOK, StateOK
    <1>2. \A u, c : Knows(u, c) => u[1] < mem.next /\ u[1] \in Nat
        BY KnowsTyped DEF Fresh
    <1>3. \A u, c : New(w, u, c) => u[1] = mem.next /\ c = made + 1 /\ mem'.next = mem.next + 1
        BY <1>1 DEF New
    <1>4. \A u, b, c : Knows(u, b)' /\ Knows(u, c)' => b = c
        BY <1>1, <1>2, <1>3 DEF Fresh
    <1>5. \A u, c : Knows(u, c)' => u[1] < mem'.next
        BY <1>1, <1>2, <1>3
    <1> QED BY <1>4, <1>5 DEF Fresh

(* A file on its way stays on its way, unless it is deleted or another     *)
(* message takes its place.                                                 *)
DueAll(u, c) == Due(u, c, Len(chan))

LEMMA SentAll ==
    ASSUME OwnTypeOK, NEW u, NEW c
    PROVE  Sent(u, c, Len(chan)) <=> \E i \in DOMAIN chan : chan[i].kind = "message" /\ FileOp(chan[i].ops, u, c)
PROOF
    <1>1. DOMAIN chan = 1 .. Len(chan) /\ Len(chan) \in Nat
        BY MessagesOps
    <1> QED BY <1>1 DEF Sent

LEMMA DueThread ==
    ASSUME OwnTypeOK, OwnTypeOK', Quiet \/ TakeBatch \/ TakeMessage \/ TakePending \/ SyncSave \/ FinalSave,
           NEW u, NEW c, DueAll(u, c)
    PROVE  DueAll(u, c)'
PROOF
    <1> DEFINE Posted == \E i \in DOMAIN chan : chan[i].kind = "message" /\ FileOp(chan[i].ops, u, c)
    <1>1. DueAll(u, c) <=> Stored(u, c) \/ FileOp(exec, u, c) \/ FileOp(messages, u, c) \/ Posted
        BY SentAll DEF DueAll, Due
    <1>2. DueAll(u, c)' <=> Stored(u, c)' \/ FileOp(exec', u, c) \/ FileOp(messages', u, c) \/ Posted'
        <2>1. DOMAIN chan' = 1 .. Len(chan') /\ Len(chan') \in Nat
            BY DEF OwnTypeOK, ThreadTypeOK
        <2>2. Sent(u, c, Len(chan))' <=> Posted'
            BY <2>1 DEF Sent
        <2> QED BY <2>2 DEF DueAll, Due
    <1>3. CASE Quiet \/ SyncSave \/ FinalSave
        <2>1. disk'.message = disk.message /\ UNCHANGED <<exec, messages>>
            BY <1>3 DEF Quiet, SyncSave, FinalSave, StartSyncSave, threadVars
        <2>2. Stored(u, c) => Stored(u, c)'
            BY <2>1 DEF Stored
        <2>3. chan' = chan \/ \E x \in WriterMsgs : ~IsWork(x) /\ x.ops = <<>> /\ chan' = Append(chan, x)
            BY <1>3 DEF Quiet, SyncSave, FinalSave
        <2>4. \A i \in DOMAIN chan : i \in DOMAIN chan' /\ chan'[i] = chan[i]
            <3>1. chan \in Seq(WriterMsgs)
                BY MessagesOps
            <3>2. ASSUME NEW x \in WriterMsgs, chan' = Append(chan, x)
                  PROVE  \A i \in DOMAIN chan : i \in DOMAIN chan' /\ chan'[i] = chan[i]
                BY <3>1, <3>2, PushShape
            <3> QED BY <2>3, <3>2
        <2>5. Posted => Posted'
            BY <2>4
        <2> QED BY <1>1, <1>2, <2>1, <2>2, <2>5
    <1>4. ASSUME TakeBatch \/ TakeMessage \/ TakePending PROVE Stored(u, c) => Stored(u, c)'
        <2>1. disk' = disk
            BY <1>4 DEF TakeBatch, TakeMessage, TakePending, Aside
        <2> QED BY <2>1 DEF Stored
    <1>5. ASSUME chan # <<>>, chan' = Tail(chan)
          PROVE  /\ 1 \in DOMAIN chan /\ chan[1] = Head(chan)
                 /\ Posted => Posted' \/ (chan[1].kind = "message" /\ FileOp(chan[1].ops, u, c))
        <2>1. /\ 1 \in DOMAIN chan /\ chan[1] = Head(chan)
              /\ \A j \in DOMAIN chan : j # 1 => j - 1 \in DOMAIN chan' /\ chan'[j - 1] = chan[j]
            BY <1>5, PopChan
        <2> QED BY <2>1
    <1>6. CASE TakeBatch
        <2>1. chan # <<>> /\ chan' = Tail(chan) /\ Head(chan).kind = "batch" /\ UNCHANGED <<exec, messages>>
            BY <1>6 DEF TakeBatch
        <2> QED BY <1>1, <1>2, <1>4, <1>5, <1>6, <2>1
    <1>7. CASE TakeMessage
        <2>1. chan # <<>> /\ chan' = Tail(chan) /\ messages' = messages \o Head(chan).ops /\ exec' = exec
            BY <1>7 DEF TakeMessage
        <2>2. Posted => Posted' \/ FileOp(Head(chan).ops, u, c)
            BY <2>1, <1>5
        <2>3. FileOp(messages', u, c) <=> FileOp(messages, u, c) \/ FileOp(Head(chan).ops, u, c)
            <3>1. Head(chan).ops \in Seq(Ops) /\ messages \in Seq(Ops)
                BY <2>1, <1>5, MessagesOps
            <3> QED BY <3>1, <2>1, FileOps
        <2> QED BY <1>1, <1>2, <1>4, <1>7, <2>1, <2>2, <2>3
    <1>8. CASE TakePending
        <2>1. exec = <<>> /\ exec' = messages \o batch
              /\ (chan' = chan \/ (chan # <<>> /\ chan' = Tail(chan) /\ Head(chan).kind # "message"))
            BY <1>8 DEF TakePending, Idle
        <2>2. Posted => Posted'
            BY <2>1, <1>5
        <2>3. FileOp(messages, u, c) \/ FileOp(exec, u, c) => FileOp(exec', u, c)
            BY <2>1, MessagesOps, FileOps
        <2> QED BY <1>1, <1>2, <1>4, <1>8, <2>2, <2>3
    <1> QED BY <1>3, <1>6, <1>7, <1>8

(* One file written, by either thread. *)
LEMMA DueApplied ==
    ASSUME OwnTypeOK, OwnTypeOK', Fresh, SyncOp \/ WriteFile, NEW u, NEW c, InChat(u, c), DueAll(u, c)
    PROVE  DueAll(u, c)'
PROOF
    <1>1. UNCHANGED <<chan, messages>>
        BY DEF SyncOp, WriteFile, threadVars
    <1>2. Sent(u, c, Len(chan)) => Sent(u, c, Len(chan))'
        BY <1>1 DEF Sent
    <1>3. ASSUME NEW op \in Ops, disk' = Apply(disk, op), op.kind = "message" => Knows(op.uid, op.val),
                 Stored(u, c)
          PROVE  Stored(u, c)'
        <2>1. disk'.message[u] = IF op.kind = "message" /\ op.uid = u THEN op.val ELSE disk.message[u]
            BY <1>3, MessagesOps, ApplyFacts DEF Stored
        <2>2. op.kind = "message" /\ op.uid = u => op.val = c
            BY <1>3 DEF Fresh, Knows
        <2> QED BY <2>1, <2>2, <1>3 DEF Stored
    <1>4. CASE SyncOp
        <2>1. exec' = exec /\ mainOps # <<>> /\ disk' = Apply(disk, Head(mainOps))
            BY <1>4 DEF SyncOp, threadVars
        <2>2. Head(mainOps) = mainOps[1] /\ mainOps[1] \in Ops /\ 1 \in DOMAIN mainOps
            BY <2>1, MessagesOps, PopShape
        <2>3. mainOps[1].kind = "message" => Knows(mainOps[1].uid, mainOps[1].val)
            BY <2>2 DEF Knows, Queued, FileOp
        <2>4. Stored(u, c) => Stored(u, c)'
            BY <2>1, <2>2, <2>3, <1>3
        <2> QED BY <2>1, <2>4, <1>1, <1>2 DEF DueAll, Due
    <1>5. CASE WriteFile
        <2>1. exec # <<>> /\ exec' = Tail(exec) /\ disk' = Apply(disk, Head(exec))
            BY <1>5 DEF WriteFile
        <2>2. /\ Head(exec) = exec[1] /\ exec[1] \in Ops /\ 1 \in DOMAIN exec
              /\ \A j \in DOMAIN exec : j # 1 => j - 1 \in DOMAIN exec' /\ exec'[j - 1] = exec[j]
            BY <2>1, MessagesOps, PopShape
        <2>3. exec[1].kind = "message" => Knows(exec[1].uid, exec[1].val)
            BY <2>2 DEF Knows, Queued, FileOp
        <2>4. Stored(u, c) => Stored(u, c)'
            BY <2>1, <2>2, <2>3, <1>3
        <2>5. FileOp(exec, u, c) => FileOp(exec', u, c) \/ Stored(u, c)'
            <3>1. ASSUME exec[1].kind = "message", exec[1].uid = u, exec[1].val = c PROVE Stored(u, c)'
                BY <3>1, <2>1, <2>2, OpFacts, MessagesOps, ApplyFacts DEF Stored
            <3> QED BY <3>1, <2>2 DEF FileOp
        <2> QED BY <2>1, <2>4, <2>5, <1>1, <1>2 DEF DueAll, Due
    <1> QED BY <1>4, <1>5

(* What a save behind the loop's back hands over is on its way. *)
LEMMA DueAsync ==
    ASSUME OwnTypeOK, OwnTypeOK', Fresh, Arrives, NEW w, NEW ms, NEW b, Async(w, ms, b),
           NEW u, NEW c, InChat(u, c)', c \in handed'
    PROVE  DueAll(u, c)'
PROOF
    <1>1. UNCHANGED <<exec, messages>> /\ ChatStep(w, ms) /\ FileStep(w) /\ w[1] = mem.next /\ mem.next \in Nat
        BY ChatElements DEF Async, Pipes, threadVars
    <1>2. PICK n, l : Shape(n, l, ms, b)
        BY SendsShape
    <1>3. \A i \in DOMAIN ms : Sent(ms[i].uid, ms[i].body, Len(chan))'
        <2>1. \A i \in DOMAIN ms : FileOp(<<File(ms[i])>>, ms[i].uid, ms[i].body)
            <3> SUFFICES ASSUME NEW i \in DOMAIN ms PROVE FileOp(<<File(ms[i])>>, ms[i].uid, ms[i].body)
                OBVIOUS
            <3>1. 1 \in DOMAIN <<File(ms[i])>> /\ <<File(ms[i])>>[1] = File(ms[i])
                OBVIOUS
            <3>2. File(ms[i]).kind = "message" /\ File(ms[i]).uid = ms[i].uid /\ File(ms[i]).val = ms[i].body
                BY DEF File
            <3> QED BY <3>1, <3>2 DEF FileOp
        <2> SUFFICES ASSUME NEW j \in DOMAIN ms PROVE Sent(ms[j].uid, ms[j].body, Len(chan))'
            OBVIOUS
        <2>2. PICK i \in 1 .. l : chan'[i].kind = "message" /\ chan'[i].ops = <<File(ms[j])>>
            BY <1>2 DEF Shape
        <2>3. i \in DOMAIN chan' /\ i <= Len(chan')
            BY <1>2 DEF Shape
        <2>4. FileOp(chan'[i].ops, ms[j].uid, ms[j].body)
            BY <2>1, <2>2
        <2> QED BY <2>2, <2>3, <2>4 DEF Sent
    <1>4. ASSUME InChat(u, c), Due(u, c, Len(chan)) PROVE DueAll(u, c)'
        <2>1. Stored(u, c) => Stored(u, c)'
            <3>1. u[1] # mem.next
                BY <1>4, KnowsTyped, <1>1 DEF Fresh, Knows
            <3> QED BY <3>1, <1>1, <1>4 DEF FileStep, Stored, Fresh
        <2>2. Sent(u, c, Len(chan)) => Sent(u, c, Len(chan))'
            BY <1>2 DEF Sent, Shape
        <2> QED BY <2>1, <2>2, <1>1, <1>4 DEF DueAll, Due
    <1>5. CASE InChat(u, c) /\ c \in handed
        BY <1>4, <1>5 DEF Arrives, InChat
    <1>6. CASE Stored(u, c)'
        BY <1>6 DEF DueAll, Due
    <1>7. CASE \E i \in DOMAIN ms : ms[i].uid = u /\ ms[i].body = c
        BY <1>7, <1>3 DEF DueAll, Due
    <1> QED BY <1>1, <1>5, <1>6, <1>7 DEF ChatStep

LEMMA BootFresh ==
    ASSUME OwnTypeOK, Boot, DiskCovered, Distinct(disk.chat),
           \A u, v, c : Stored(u, c) /\ Stored(v, c) => u = v
    PROVE  Fresh' /\ Arrives'
PROOF
    <1>1. /\ \A u, c : Knows(u, c)' => Stored(u, c)
          /\ \A u, c : Stored(u, c)' <=> Stored(u, c)
          /\ StateOK(mem') /\ mem'.next = disk.config.next
          /\ mem'.chat = LoadMessages(disk, disk.chat)
          /\ DOMAIN mem'.history = {p \in disk.worker : disk.panel[p] # NoPanel}
          /\ \A p \in DOMAIN mem'.history :
                 /\ p \in Numbers /\ disk.panel[p][1] \in Seq(ListedMessages)
                 /\ mem'.history[p] = LoadMessages(disk, disk.panel[p][1])
          /\ mainOps' = BuildSaveBatch(mem', built + 1, handed)
          /\ exec' = <<>> /\ batch' = <<>> /\ messages' = <<>> /\ chan' = <<>>
          /\ disk' = disk
        BY BootKnows
    <1>2. disk \in Disks /\ disk.chat \in Seq(ListedMessages) /\ built + 1 \in Nat
        BY ChatElements, DiskFacts
    <1>3. \A u, c : InChat(u, c)' => u[1] < mem'.next
        BY <1>1, <1>2, LoadFacts DEF InChat, DiskCovered
    <1>4. ASSUME NEW u, NEW c, InHistory(u, c)' PROVE u[1] < mem'.next
        <2>0. PICK p \in DOMAIN mem'.history : \E i \in DOMAIN mem'.history[p] :
                  mem'.history[p][i].uid = u /\ mem'.history[p][i].body = c
            BY <1>4 DEF InHistory
        <2>1. PICK i \in DOMAIN mem'.history[p] : mem'.history[p][i].uid = u /\ mem'.history[p][i].body = c
            BY <2>0
        <2>2. p \in Numbers /\ disk.panel[p] # <<>> /\ disk.panel[p][1] \in Seq(ListedMessages)
              /\ mem'.history[p] = LoadMessages(disk, disk.panel[p][1])
            BY <1>1 DEF NoPanel
        <2>3. \E j \in DOMAIN disk.panel[p][1] : disk.panel[p][1][j].uid = u
            <3>1. ASSUME NEW list \in Seq(ListedMessages), NEW ms, ms = LoadMessages(disk, list),
                         NEW k \in DOMAIN ms
                  PROVE  \E j \in DOMAIN list : list[j].uid = ms[k].uid
                BY <3>1, <1>2, LoadFacts
            <3> QED BY <3>1, <2>1, <2>2
        <2> QED BY <2>2, <2>3, <1>1 DEF DiskCovered
    <1>5. ASSUME NEW u, NEW c, Queued(u, c)' PROVE InHistory(u, c)'
        <2>1. ~FileOp(<<>>, u, c)
            BY DEF FileOp
        <2>2. FileOp(mainOps', u, c)
            BY <2>1, <1>1, <1>5 DEF Queued
        <2>3. InPanels(mem', u, c)
            BY <2>2, <1>1, <1>2, BatchFiles
        <2> QED BY <2>3 DEF InPanels, InHistory
    <1>6. \A u, b, c : Knows(u, b)' /\ Knows(u, c)' => b = c
        BY <1>1 DEF Stored
    <1>7. \A u, c : Knows(u, c)' => u[1] < mem'.next
        BY <1>3, <1>4, <1>5 DEF Knows
    <1>8. Distinct(mem'.chat)
        BY <1>1, <1>2, LoadFacts
    <1>9. Arrives'
        <2>1. \A u, c : InChat(u, c)' => Due(u, c, Len(chan))'
            BY <1>1 DEF Knows, Due
        <2> QED BY <2>1 DEF Arrives, InChat
    <1> QED BY <1>6, <1>7, <1>8, <1>9 DEF Fresh

(* A step in the same life, that does not kill it. *)
Lasts == exit' # "killed" /\ ~Boot

LEMMA LastsFacts ==
    ASSUME OwnTypeOK, Bound, Phases, [Step]_ownVars, Lasts
    PROVE  /\ stale' = stale /\ exit # "killed"
           /\ \/ \E w, ms, b : Async(w, ms, b)
              \/ SyncSave \/ FinalSave \/ SyncOp \/ WriteFile
              \/ Quiet \/ TakeBatch \/ TakeMessage \/ TakePending
PROOF
    <1>1. ~Kill
        BY DEF Kill, Lasts
    <1>2. \/ \E w, ms, b : Async(w, ms, b)
          \/ SyncSave \/ FinalSave \/ SyncOp \/ WriteFile
          \/ Quiet \/ TakeBatch \/ TakeMessage \/ TakePending
        BY <1>1, Kinds DEF Lasts
    <1>3. ASSUME NEW w, NEW ms, NEW b, Async(w, ms, b) PROVE stale' = stale /\ exit' = exit
        BY <1>3 DEF Async, Pipes
    <1>4. CASE Quiet
        BY <1>4, <1>2 DEF Quiet, Lasts
    <1>5. CASE SyncSave \/ FinalSave \/ SyncOp \/ WriteFile \/ TakeBatch \/ TakeMessage \/ TakePending
        BY <1>5, <1>2 DEF SyncSave, FinalSave, SyncOp, WriteFile, TakeBatch, TakeMessage, TakePending, Aside,
                    mainVars, ghosts, Lasts
    <1> QED BY <1>2, <1>3, <1>4, <1>5 DEF Lasts

LEMMA FreshStep ==
    ASSUME OwnTypeOK, Bound, Phases, Life, Lives, [Step]_ownVars, ~stale', exit' # "killed"
    PROVE  Fresh' /\ Arrives'
PROOF
    <1>0. OwnTypeOK' /\ mem'.next \in Nat
        BY TypeStep DEF OwnTypeOK, MainTypeOK, StateOK
    <1>1. CASE Boot
        <2>1. ~overtaken
            BY <1>1 DEF Boot
        <2>2. DiskCovered /\ Distinct(disk.chat)
            BY <2>1 DEF Lives, Covers, Listings, Agrees
        <2>3. \A u, v, c : Stored(u, c) /\ Stored(v, c) => u = v
            BY DEF Bound
        <2> QED BY <1>1, <2>2, <2>3, BootFresh
    <1>2. CASE ~Boot
        <2>0. Lasts
            BY <1>2 DEF Lasts
        <2>1. /\ stale' = stale /\ exit # "killed"
              /\ \/ \E w, ms, b : Async(w, ms, b)
                 \/ SyncSave \/ FinalSave \/ SyncOp \/ WriteFile
                 \/ Quiet \/ TakeBatch \/ TakeMessage \/ TakePending
            BY <2>0, LastsFacts
        <2>2. Fresh /\ Arrives
            BY <2>1 DEF Life
        <2>3. PICK w : Within(w)
            BY <2>1, WithinLife
        <2>4. ASSUME NEW v, NEW ms, NEW b, Async(v, ms, b) PROVE Distinct(mem'.chat)
            BY <2>4, <2>2 DEF Async, ChatStep, Fresh, Knows
        <2>5. ASSUME ~\E v, ms, b : Async(v, ms, b) PROVE mem' = mem /\ handed' = handed
            BY <2>5, <2>1 DEF SyncSave, FinalSave, StartSyncSave, SyncOp, WriteFile, Quiet, TakeBatch, TakeMessage,
                    TakePending, Aside, mainVars, ghosts
        <2>6. Fresh'
            BY <2>2, <2>3, <2>4, <2>5, <1>0, FreshWithin
        <2>7. ASSUME NEW u, NEW c, InChat(u, c)', c \in handed' PROVE DueAll(u, c)'
            <3>1. ASSUME NEW v, NEW ms, NEW b, Async(v, ms, b) PROVE DueAll(u, c)'
                BY <3>1, <2>7, <2>2, <1>0, DueAsync
            <3>2. CASE ~\E v, ms, b : Async(v, ms, b)
                <4>1. InChat(u, c) /\ c \in handed
                    BY <3>2, <2>5, <2>7 DEF InChat
                <4>2. DueAll(u, c)
                    BY <4>1, <2>2 DEF Arrives, InChat, DueAll
                <4> QED BY <4>1, <4>2, <3>2, <2>1, <2>2, <1>0, DueThread, DueApplied
            <3> QED BY <3>1, <3>2
        <2>8. Arrives'
            BY <2>7 DEF Arrives, InChat, DueAll
        <2> QED BY <2>6, <2>8
    <1> QED BY <1>1, <1>2

-----------------------------------------------------------------------------
(* The newest state on its way is the one in memory *)

LEMMA BatchComplete ==
    ASSUME NEW m, StateOK(m), NEW v \in Nat, NEW h, disk \in Disks, NEW b, b = BuildSaveBatch(m, v, h)
    PROVE  Complete(m, FALSE, b)
PROOF
    <1>1. /\ b \in Seq(Ops) /\ Len(b) >= 3
          /\ b[1] = ConfigOp(m, v) /\ b[2] = Worker(DOMAIN m.history) /\ b[3] = Chat(Listed(m.chat, h))
          /\ \A k \in DOMAIN b : k > 3 => b[k] \in Rest(m, h)
          /\ \A op \in Rest(m, h) : \E k \in DOMAIN b : b[k] = op
        BY ONLY BatchFacts, StateOK(m), v \in Nat, disk \in Disks, b = BuildSaveBatch(m, v, h)
    <1>2. 1 \in DOMAIN b /\ 2 \in DOMAIN b /\ 3 \in DOMAIN b /\ \A k \in DOMAIN b : k \in {1, 2, 3} \/ k > 3
        BY <1>1
    <1>3. m.chat \in Seq(Messages) /\ \A u \in DOMAIN m.history : m.history[u] \in Seq(Messages)
        BY StateFacts
    <1>4. ASSUME NEW ms \in Seq(Messages) PROVE Same(Listed(ms, h), ms)
        BY <1>4, ListedFacts DEF Same
    <1>5. /\ b[1].kind = "config" /\ b[1].uid = 0 /\ b[1].val.next = m.next /\ b[1].val.reload = FALSE
          /\ b[2].kind = "worker" /\ b[2].uid = 0 /\ b[2].val = DOMAIN m.history
          /\ b[3].kind = "chat" /\ b[3].uid = 0 /\ b[3].val = Listed(m.chat, h)
        BY <1>1 DEF ConfigOp, Config, Worker, Chat
    <1>6. RightOp(m, FALSE, b[1]) /\ RightOp(m, FALSE, b[2]) /\ RightOp(m, FALSE, b[3])
        BY <1>3, <1>4, <1>5 DEF RightOp, RightConfig
    <1>7. ASSUME NEW u \in DOMAIN m.history
          PROVE  /\ RightOp(m, FALSE, Panel(u, <<Listed(m.history[u], h)>>))
                 /\ Panel(u, <<Listed(m.history[u], h)>>).kind = "panel"
                 /\ Panel(u, <<Listed(m.history[u], h)>>).uid = u
        <2> DEFINE list == Listed(m.history[u], h)
        <2>1. Same(list, m.history[u])
            BY <1>3, <1>4
        <2> HIDE DEF list
        <2>2. <<list>> # <<>> /\ <<list>>[1] = list
            OBVIOUS
        <2>3. RightPanel(m, u, <<list>>)
            BY <2>1, <2>2 DEF RightPanel
        <2>4. Panel(u, <<list>>).kind = "panel" /\ Panel(u, <<list>>).uid = u /\ Panel(u, <<list>>).val = <<list>>
            BY DEF Panel
        <2>5. RightOp(m, FALSE, Panel(u, <<list>>))
            BY <2>3, <2>4 DEF RightOp
        <2> QED BY <2>4, <2>5 DEF list
    <1>8. ASSUME NEW op \in Rest(m, h) PROVE RightOp(m, FALSE, op)
        <2>1. CASE op \in PanelWrites(m, h)
            BY <2>1, <1>7 DEF PanelWrites
        <2>2. CASE op \in HistoryMessages(m)
            <3>1. op.kind = "message"
                BY <2>2 DEF HistoryMessages, File
            <3> QED BY <3>1 DEF RightOp
        <2>3. CASE op \in OrphanDeletes(m)
            <3>1. op.kind = "panel" /\ op.uid \notin DOMAIN m.history
                BY <2>3 DEF OrphanDeletes, Panel
            <3> QED BY <3>1 DEF RightOp
        <2> QED BY <2>1, <2>2, <2>3 DEF Rest
    <1>9. RightOps(m, FALSE, b)
        BY <1>1, <1>2, <1>6, <1>8 DEF RightOps
    <1>10. Has(b, "config", 0) /\ Has(b, "worker", 0) /\ Has(b, "chat", 0)
        BY <1>2, <1>5 DEF Has
    <1>11. ASSUME NEW p \in DOMAIN m.history PROVE Has(b, "panel", p)
        <2>1. Panel(p, <<Listed(m.history[p], h)>>) \in Rest(m, h)
            BY DEF Rest, PanelWrites
        <2>2. PICK k \in DOMAIN b : b[k] = Panel(p, <<Listed(m.history[p], h)>>)
            BY <2>1, <1>1
        <2>3. b[k].kind = "panel" /\ b[k].uid = p
            BY <2>2, <1>7
        <2> QED BY <2>3 DEF Has
    <1>12. ASSUME NEW p \in DOMAIN m.history, NEW i \in DOMAIN m.history[p]
           PROVE  Has(b, "message", m.history[p][i].uid)
        <2>1. InPanels(m, m.history[p][i].uid, m.history[p][i].body)
            BY DEF InPanels
        <2>2. FileOp(b, m.history[p][i].uid, m.history[p][i].body)
            BY <2>1, BatchFiles
        <2> QED BY <2>2 DEF FileOp, Has
    <1> QED BY <1>9, <1>10, <1>11, <1>12 DEF Complete, HasAll

(* One operation that says what memory says. *)
LEMMA AppliedRight ==
    ASSUME OwnTypeOK, Fresh, NEW r, NEW op \in Ops, RightOp(mem, r, op), disk' = Apply(disk, op),
           op.kind = "message" => Knows(op.uid, op.val)
    PROVE  /\ RightConfig(mem, r, disk.config) \/ op.kind = "config" => RightConfig(mem, r, disk'.config)
           /\ disk.worker = DOMAIN mem.history \/ op.kind = "worker" => disk'.worker = DOMAIN mem.history
           /\ Same(disk.chat, mem.chat) \/ op.kind = "chat" => Same(disk'.chat, mem.chat)
           /\ \A p \in DOMAIN mem.history :
                  /\ RightPanel(mem, p, disk.panel[p]) \/ (op.kind = "panel" /\ op.uid = p) =>
                         RightPanel(mem, p, disk'.panel[p])
                  /\ \A i \in DOMAIN mem.history[p] : \A u, c :
                         u = mem.history[p][i].uid /\ c = mem.history[p][i].body
                         /\ (Stored(u, c) \/ (op.kind = "message" /\ op.uid = u)) => Stored(u, c)'
PROOF
    <1>1. /\ disk'.config = IF op.kind = "config" THEN op.val ELSE disk.config
          /\ disk'.worker = IF op.kind = "worker" THEN op.val ELSE disk.worker
          /\ disk'.chat = IF op.kind = "chat" THEN op.val ELSE disk.chat
          /\ \A p \in Numbers : disk'.panel[p] = IF op.kind = "panel" /\ op.uid = p THEN op.val ELSE disk.panel[p]
          /\ \A u \in Uids : disk'.message[u] =
                 IF op.kind = "message" /\ op.uid = u THEN op.val ELSE disk.message[u]
        BY MessagesOps, ApplyFacts
    <1>2. DOMAIN mem.history \subseteq Numbers
        BY ChatElements
    <1>3. /\ RightConfig(mem, r, disk.config) \/ op.kind = "config" => RightConfig(mem, r, disk'.config)
          /\ disk.worker = DOMAIN mem.history \/ op.kind = "worker" => disk'.worker = DOMAIN mem.history
          /\ Same(disk.chat, mem.chat) \/ op.kind = "chat" => Same(disk'.chat, mem.chat)
        BY <1>1 DEF RightOp
    <1>4. \A p \in DOMAIN mem.history :
              RightPanel(mem, p, disk.panel[p]) \/ (op.kind = "panel" /\ op.uid = p) => RightPanel(mem, p, disk'.panel[p])
        BY <1>1, <1>2 DEF RightOp
    <1>5. ASSUME NEW p \in DOMAIN mem.history, NEW i \in DOMAIN mem.history[p], NEW u, NEW c,
                 u = mem.history[p][i].uid, c = mem.history[p][i].body,
                 Stored(u, c) \/ (op.kind = "message" /\ op.uid = u)
          PROVE  Stored(u, c)'
        <2>1. Knows(u, c)
            BY <1>5 DEF Knows, InHistory
        <2>2. u \in Uids /\ c \in Bodies
            BY <2>1, KnowsTyped
        <2>3. op.kind = "message" /\ op.uid = u => op.val = c
            BY <2>1 DEF Fresh
        <2> QED BY <2>2, <2>3, <1>1, <1>5 DEF Stored
    <1> QED BY <1>3, <1>4, <1>5

LEMMA EmptyFacts ==
    /\ \A m, r : RightOps(m, r, <<>>)
    /\ \A k, u : ~Has(<<>>, k, u)
PROOF BY DEF RightOps, Has

(* The operations of a save settle everything. *)
LEMMA CompleteSettles ==
    ASSUME RightOps(mem, ReloadDue, exec), HasAll(mem, exec) \/ HasAll(mem, mainOps)
    PROVE  Settles
PROOF BY DEF Settles, Coming, HasAll

(* One operation of either thread is done. *)
LEMMA SettlesApplied ==
    ASSUME OwnTypeOK, Fresh, Settles, RightOps(mem, ReloadDue, mainOps), SyncOp \/ WriteFile,
           ReloadDue' = ReloadDue
    PROVE  Settles'
PROOF
    <1>0. mem' = mem
        BY DEF SyncOp, WriteFile, mainVars
    <1>1. ASSUME NEW s \in Seq(Ops), NEW t, s # <<>>, t = Tail(s), NEW r, RightOps(mem, r, s)
          PROVE  /\ s[1] = Head(s) /\ s[1] \in Ops /\ 1 \in DOMAIN s /\ RightOp(mem, r, s[1]) /\ RightOps(mem, r, t)
                 /\ \A k, u : Has(s, k, u) => Has(t, k, u) \/ (s[1].kind = k /\ s[1].uid = u)
        <2>1. /\ 1 \in DOMAIN s /\ s[1] = Head(s) /\ s[1] \in Ops
              /\ \A i \in DOMAIN t : i + 1 \in DOMAIN s /\ t[i] = s[i + 1]
              /\ \A j \in DOMAIN s : j # 1 => j - 1 \in DOMAIN t /\ t[j - 1] = s[j]
            BY <1>1, PopShape
        <2>2. RightOp(mem, r, s[1]) /\ RightOps(mem, r, t)
            BY <2>1, <1>1 DEF RightOps
        <2>3. \A k, u : Has(s, k, u) => Has(t, k, u) \/ (s[1].kind = k /\ s[1].uid = u)
            BY <2>1 DEF Has
        <2> QED BY <2>1, <2>2, <2>3
    <1>2. ASSUME NEW op \in Ops, RightOp(mem, ReloadDue, op), disk' = Apply(disk, op),
                 op.kind = "message" => Knows(op.uid, op.val),
                 RightOps(mem, ReloadDue, exec'),
                 \A k, u : Coming(k, u) => Coming(k, u)' \/ (op.kind = k /\ op.uid = u)
          PROVE  Settles'
        <2>1. /\ RightConfig(mem, ReloadDue, disk.config) \/ op.kind = "config" =>
                     RightConfig(mem, ReloadDue, disk'.config)
              /\ disk.worker = DOMAIN mem.history \/ op.kind = "worker" => disk'.worker = DOMAIN mem.history
              /\ Same(disk.chat, mem.chat) \/ op.kind = "chat" => Same(disk'.chat, mem.chat)
              /\ \A p \in DOMAIN mem.history :
                     /\ RightPanel(mem, p, disk.panel[p]) \/ (op.kind = "panel" /\ op.uid = p) =>
                            RightPanel(mem, p, disk'.panel[p])
                     /\ \A i \in DOMAIN mem.history[p] : \A u, c :
                            u = mem.history[p][i].uid /\ c = mem.history[p][i].body
                            /\ (Stored(u, c) \/ (op.kind = "message" /\ op.uid = u)) => Stored(u, c)'
            BY <1>2, AppliedRight
        <2>2. /\ RightConfig(mem, ReloadDue, disk'.config) \/ Coming("config", 0)'
              /\ disk'.worker = DOMAIN mem.history \/ Coming("worker", 0)'
              /\ Same(disk'.chat, mem.chat) \/ Coming("chat", 0)'
            BY <2>1, <1>2 DEF Settles
        <2>3. \A p \in DOMAIN mem.history : RightPanel(mem, p, disk'.panel[p]) \/ Coming("panel", p)'
            BY <2>1, <1>2 DEF Settles
        <2>4. \A p \in DOMAIN mem.history : \A i \in DOMAIN mem.history[p] : \A u, c :
                  u = mem.history[p][i].uid /\ c = mem.history[p][i].body =>
                      Stored(u, c)' \/ Coming("message", u)'
            BY <2>1, <1>2 DEF Settles
        <2> QED BY <2>2, <2>3, <2>4, <1>0, <1>2 DEF Settles
    <1>3. CASE SyncOp
        <2>1. mainOps # <<>> /\ mainOps' = Tail(mainOps) /\ exec' = exec /\ disk' = Apply(disk, Head(mainOps))
            BY <1>3 DEF SyncOp, threadVars
        <2>2. /\ mainOps[1] = Head(mainOps) /\ mainOps[1] \in Ops /\ 1 \in DOMAIN mainOps
              /\ RightOp(mem, ReloadDue, mainOps[1])
              /\ \A k, u : Has(mainOps, k, u) => Has(mainOps', k, u) \/ (mainOps[1].kind = k /\ mainOps[1].uid = u)
            BY <2>1, <1>1, MessagesOps
        <2>3. mainOps[1].kind = "message" => Knows(mainOps[1].uid, mainOps[1].val)
            BY <2>2 DEF Knows, Queued, FileOp
        <2>4. \A k, u : Coming(k, u) => Coming(k, u)' \/ (mainOps[1].kind = k /\ mainOps[1].uid = u)
            BY <2>1, <2>2 DEF Coming
        <2>5. RightOps(mem, ReloadDue, exec')
            BY <2>1 DEF Settles
        <2> QED BY <2>1, <2>2, <2>3, <2>4, <2>5, <1>2
    <1>4. CASE WriteFile
        <2>1. exec # <<>> /\ exec' = Tail(exec) /\ mainOps' = mainOps /\ disk' = Apply(disk, Head(exec))
            BY <1>4 DEF WriteFile, mainVars
        <2>2. /\ exec[1] = Head(exec) /\ exec[1] \in Ops /\ 1 \in DOMAIN exec
              /\ RightOp(mem, ReloadDue, exec[1]) /\ RightOps(mem, ReloadDue, exec')
              /\ \A k, u : Has(exec, k, u) => Has(exec', k, u) \/ (exec[1].kind = k /\ exec[1].uid = u)
            BY <2>1, <1>1, MessagesOps DEF Settles
        <2>3. exec[1].kind = "message" => Knows(exec[1].uid, exec[1].val)
            BY <2>2 DEF Knows, Queued, FileOp
        <2>4. \A k, u : Coming(k, u) => Coming(k, u)' \/ (exec[1].kind = k /\ exec[1].uid = u)
            BY <2>1, <2>2 DEF Coming
        <2> QED BY <2>1, <2>2, <2>3, <2>4, <1>2
    <1> QED BY <1>3, <1>4

(* The channel keeps its last batch when something else is added or taken. *)
LEMMA NewestMoves ==
    ASSUME OwnTypeOK, Newest, mem' = mem, mainOps' = mainOps, ReloadDue' = ReloadDue,
           \/ chan' = chan
           \/ \E x \in WriterMsgs : ~IsWork(x) /\ chan' = Append(chan, x)
           \/ chan # <<>> /\ chan' = Tail(chan) /\ Head(chan).kind # "batch"
    PROVE  /\ SomeBatch' <=> SomeBatch
           /\ RightOps(mem, ReloadDue, mainOps)'
           /\ \A i \in DOMAIN chan' : LastBatch(i)' => Complete(mem', ReloadDue', chan'[i].ops)
PROOF
    <1>1. RightOps(mem, ReloadDue, mainOps)'
        BY DEF Newest
    <1>2. CASE chan' = chan
        <2>1. SomeBatch' <=> SomeBatch
            BY <1>2 DEF SomeBatch
        <2>2. \A i : LastBatch(i)' <=> LastBatch(i)
            BY <1>2 DEF LastBatch
        <2> QED BY <1>1, <1>2, <2>1, <2>2 DEF Newest
    <1>3. ASSUME NEW x \in WriterMsgs, ~IsWork(x), chan' = Append(chan, x)
          PROVE  /\ SomeBatch' <=> SomeBatch
                 /\ \A i \in DOMAIN chan' : LastBatch(i)' => Complete(mem', ReloadDue', chan'[i].ops)
        <2>1. /\ \A i \in DOMAIN chan : i \in DOMAIN chan' /\ chan'[i] = chan[i]
              /\ \A i \in DOMAIN chan' : i \in DOMAIN chan \/ chan'[i] = x
            BY <1>3, PushShape, MessagesOps
        <2>2. x.kind # "batch"
            BY <1>3 DEF IsWork
        <2>3. SomeBatch' <=> SomeBatch
            BY <2>1, <2>2 DEF SomeBatch
        <2>4. \A i : LastBatch(i)' => LastBatch(i) /\ chan'[i] = chan[i]
            BY <2>1, <2>2 DEF LastBatch
        <2> QED BY <2>3, <2>4 DEF Newest, LastBatch
    <1>4. ASSUME chan # <<>>, chan' = Tail(chan), Head(chan).kind # "batch"
          PROVE  /\ SomeBatch' <=> SomeBatch
                 /\ \A i \in DOMAIN chan' : LastBatch(i)' => Complete(mem', ReloadDue', chan'[i].ops)
        <2>1. /\ 1 \in DOMAIN chan /\ chan[1] = Head(chan)
              /\ \A i \in DOMAIN chan' : i \in Nat /\ i >= 1 /\ i + 1 \in DOMAIN chan /\ chan'[i] = chan[i + 1]
              /\ \A j \in DOMAIN chan : j \in Nat /\ (j # 1 => j - 1 \in DOMAIN chan' /\ chan'[j - 1] = chan[j])
            BY <1>4, PopChan
        <2>2. SomeBatch' <=> SomeBatch
            <3>1. ASSUME SomeBatch PROVE SomeBatch'
                <4>1. PICK j \in DOMAIN chan : chan[j].kind = "batch"
                    BY <3>1 DEF SomeBatch
                <4>2. j # 1
                    BY <4>1, <2>1, <1>4
                <4>3. j - 1 \in DOMAIN chan' /\ chan'[j - 1].kind = "batch"
                    BY <4>1, <4>2, <2>1
                <4> QED BY <4>3 DEF SomeBatch
            <3>2. ASSUME SomeBatch' PROVE SomeBatch
                <4>1. PICK i \in DOMAIN chan' : chan'[i].kind = "batch"
                    BY <3>2 DEF SomeBatch
                <4> QED BY <4>1, <2>1 DEF SomeBatch
            <3> QED BY <3>1, <3>2
        <2>3. \A i \in DOMAIN chan' : LastBatch(i)' => LastBatch(i + 1)
            <3> SUFFICES ASSUME NEW i \in DOMAIN chan', LastBatch(i)', NEW j \in DOMAIN chan, j > i + 1
                         PROVE  chan[j].kind # "batch"
                BY <2>1 DEF LastBatch
            <3>1. j # 1 /\ j - 1 > i
                BY <2>1
            <3> QED BY <3>1, <2>1 DEF LastBatch
        <2> QED BY <2>1, <2>2, <2>3 DEF Newest, LastBatch
    <1> QED BY <1>1, <1>2, <1>3, <1>4

LEMMA SettlesSame ==
    ASSUME Settles, mem' = mem, mainOps' = mainOps, exec' = exec, ReloadDue' = ReloadDue,
           disk'.chat = disk.chat, disk'.worker = disk.worker, disk'.panel = disk.panel,
           disk'.message = disk.message, disk'.config.next = disk.config.next,
           disk'.config.reload = disk.config.reload
    PROVE  Settles'
PROOF
    <1>1. \A k, u : Coming(k, u)' <=> Coming(k, u)
        BY DEF Coming
    <1>2. \A u, c : Stored(u, c)' <=> Stored(u, c)
        BY DEF Stored
    <1>3. RightConfig(mem, ReloadDue, disk.config) => RightConfig(mem, ReloadDue, disk.config)'
        BY DEF RightConfig
    <1> QED BY <1>1, <1>2, <1>3 DEF Settles

LEMMA QuietReload ==
    ASSUME OwnTypeOK, Phases,
           Quit \/ Disowned \/ DropWriter \/ Join \/ Written \/ Seize \/ UNCHANGED ownVars
    PROVE  ReloadDue' = ReloadDue /\ disk'.config.reload = disk.config.reload
PROOF
    <1>0. disk \in Disks /\ disk.config \in Configs
        BY DiskFacts DEF OwnTypeOK
    <1>1. CASE Quit \/ Disowned
        BY <1>1 DEF Quit, Disowned, Leave, ReloadDue
    <1>2. CASE DropWriter \/ Join
        BY <1>2 DEF DropWriter, Join, ReloadDue
    <1>3. CASE Written
        BY <1>3 DEF Written, mainVars, ReloadDue
    <1>4. CASE Seize
        <2>1. disk'.config.reload = disk.config.reload
            BY <1>4, <1>0 DEF Seize, Disks, Configs
        <2> QED BY <1>4, <2>1 DEF Seize, mainVars, ReloadDue
    <1>5. CASE UNCHANGED ownVars
        BY <1>5 DEF ownVars, mainVars, ReloadDue
    <1> QED BY <1>1, <1>2, <1>3, <1>4, <1>5

(* write_reload_flag comes when nothing else is to be written. *)
LEMMA LeaveMainNewest ==
    ASSUME OwnTypeOK, Phases, Newest, LeaveMain, ~timedOut
    PROVE  Newest'
PROOF
    <1>1. /\ main = "lastSave" /\ mainOps = <<>> /\ exit \in {"quit", "reload", "exec"} /\ main' \in {"drop", "down"}
          /\ disk' = (IF exit = "quit" THEN disk ELSE [disk EXCEPT !.config.reload = TRUE])
          /\ UNCHANGED <<exit, mem, mainOps, batch, messages, exec>>
          /\ chan' = chan \/ chan' = Append(chan, SendFlush(2))
        BY DEF LeaveMain, Phases, Exits, threadVars
    <1>2. Calm
        BY <1>1 DEF Phases, Over, Exits
    <1>3. exec = <<>> /\ batch = <<>> /\ \A i \in DOMAIN chan : chan[i].kind # "batch"
        BY <1>2 DEF Calm, IsWork
    <1>4. SendFlush(2) \in WriterMsgs /\ SendFlush(2).kind # "batch"
        BY DEF SendFlush, WriterMsgs
    <1>5. \A i \in DOMAIN chan' : chan'[i].kind # "batch"
        <2>1. CASE chan' = Append(chan, SendFlush(2))
            <3>1. \A i \in DOMAIN chan' : (i \in DOMAIN chan /\ chan'[i] = chan[i]) \/ chan'[i] = SendFlush(2)
                BY <2>1, <1>4, MessagesOps, PushShape
            <3> QED BY <3>1, <1>3, <1>4
        <2> QED BY <2>1, <1>1, <1>3
    <1>6. Settles
        BY <1>3 DEF Newest, SomeBatch
    <1>7. \A k, u : ~Coming(k, u) /\ ~Coming(k, u)'
        BY <1>1, <1>3, EmptyFacts DEF Coming
    <1>8. ReloadDue = FALSE /\ ReloadDue' = (exit # "quit")
        BY <1>1 DEF ReloadDue
    <1>9. disk.config.next = mem.next /\ disk.config.reload = FALSE
        BY <1>6, <1>7, <1>8 DEF Settles, RightConfig
    <1>10. /\ disk'.chat = disk.chat /\ disk'.worker = disk.worker /\ disk'.panel = disk.panel
           /\ disk'.message = disk.message /\ disk'.config.next = disk.config.next
           /\ disk'.config.reload = (exit # "quit")
        <2>1. disk \in Disks /\ disk.config \in Configs
            BY DiskFacts DEF OwnTypeOK
        <2> DEFINE d == [disk EXCEPT !.config.reload = TRUE]
        <2>2. /\ d.chat = disk.chat /\ d.worker = disk.worker /\ d.panel = disk.panel /\ d.message = disk.message
              /\ d.config.next = disk.config.next /\ d.config.reload = TRUE
            BY <2>1 DEF Disks, Configs
        <2>3. disk' = IF exit = "quit" THEN disk ELSE d
            BY <1>1
        <2> HIDE DEF d
        <2> QED BY <2>2, <2>3, <1>9
    <1>11. RightConfig(mem, ReloadDue, disk.config)'
        BY <1>1, <1>8, <1>9, <1>10 DEF RightConfig
    <1>12. \A u, c : Stored(u, c) => Stored(u, c)'
        BY <1>10 DEF Stored
    <1>13. RightOps(mem, ReloadDue, exec)' /\ RightOps(mem, ReloadDue, mainOps)'
        BY <1>1, <1>3, EmptyFacts
    <1>14. Settles'
        BY <1>6, <1>7, <1>1, <1>10, <1>11, <1>12, <1>13 DEF Settles
    <1> QED BY <1>5, <1>13, <1>14, <1>1, <1>3 DEF Newest, LastBatch

LEMMA WaitsStep ==
    ASSUME OwnTypeOK, Bound, Phases, [Step]_ownVars, Lasts, Waits'
    PROVE  Waits
PROOF
    <1>0. timedOut \in BOOLEAN /\ timedOut' \in BOOLEAN
        BY TypeStep DEF OwnTypeOK, CountersTypeOK
    <1>1. ASSUME NEW w, NEW ms, NEW b, Async(w, ms, b) PROVE Waits
        BY <1>1 DEF Async, Pipes, Waits
    <1>2. CASE SyncSave \/ FinalSave \/ Quit \/ Disowned
        BY <1>2 DEF SyncSave, FinalSave, Quit, Disowned, Leave, Waits
    <1>3. CASE SyncOp \/ LeaveMain \/ DropWriter \/ Join
        BY <1>3, <1>0 DEF SyncOp, LeaveMain, DropWriter, Join, FlushDone, FlushTimeout, ghosts, Waits
    <1>4. CASE WriteFile \/ Written \/ TakeBatch \/ TakeMessage \/ TakePending \/ Seize \/ UNCHANGED ownVars
        <2>1. UNCHANGED <<main, timedOut>>
            BY <1>4 DEF WriteFile, Written, TakeBatch, TakeMessage, TakePending, Seize, Aside, ownVars,
                        mainVars, ghosts
        <2> QED BY <2>1 DEF Waits
    <1>5. ~Kill /\ ~Boot
        BY DEF Lasts, Kill
    <1> QED BY <1>1, <1>2, <1>3, <1>4, <1>5,
               UserMessageStep, BeginAssistantStep, FinishAssistantStep, ClearConversationStep, DetachStep,
               ClosePanelStep, TakeSteps
            DEF Step, OwnNext, MainNext, ThreadNext

LEMMA NewestStep ==
    ASSUME OwnTypeOK, Bound, Behind, Phases, Fresh, Newest, [Step]_ownVars, Lasts, Waits'
    PROVE  Newest'
PROOF
    <1>0. timedOut \in BOOLEAN /\ timedOut' \in BOOLEAN
        BY TypeStep DEF OwnTypeOK, CountersTypeOK
    <1>1. ASSUME NEW w, NEW ms, NEW b, Async(w, ms, b) PROVE Newest'
        <2>1. main = "run" /\ main' = "run" /\ mainOps' = <<>> /\ StateOK(mem') /\ b = BuildSaveBatch(mem', built + 1, handed')
            BY <1>1 DEF Async, Pipes, Phases
        <2>2. Complete(mem', FALSE, b)
            BY <2>1, ChatElements, BatchComplete
        <2>3. ReloadDue' = FALSE
            BY <2>1 DEF ReloadDue
        <2>4. PICK n, l : Shape(n, l, ms, b)
            BY <1>1, SendsShape
        <2>5. \A i \in DOMAIN chan' : LastBatch(i)' => i = l
            BY <2>4 DEF Shape, LastBatch
        <2>6. SomeBatch' /\ chan'[l].ops = b
            BY <2>4 DEF Shape, SomeBatch
        <2>7. RightOps(mem, ReloadDue, mainOps)'
            BY <2>1, EmptyFacts
        <2> QED BY <2>2, <2>3, <2>5, <2>6, <2>7 DEF Newest
    <1>2. CASE SyncSave \/ FinalSave
        <2>1. /\ UNCHANGED <<mem, chan, batch, exec, disk>> /\ mainOps' = BuildSaveBatch(mem, built + 1, handed)
              /\ main \in {"run", "flush"} /\ main' \in {"saving", "lastSave"}
            BY <1>2 DEF SyncSave, FinalSave, StartSyncSave, threadVars
        <2>2. ReloadDue = FALSE /\ ReloadDue' = FALSE
            BY <2>1 DEF ReloadDue
        <2>3. RightOps(mem, FALSE, mainOps') /\ HasAll(mem, mainOps')
            BY <2>1, ChatElements, BatchComplete DEF Complete
        <2>4. /\ SomeBatch' <=> SomeBatch
              /\ \A i : LastBatch(i)' <=> LastBatch(i)
            BY <2>1 DEF SomeBatch, LastBatch
        <2>5. Settles => Settles'
            <3>1. ASSUME Settles PROVE RightOps(mem, ReloadDue, exec)' /\ HasAll(mem, mainOps)'
                BY <3>1, <2>1, <2>2, <2>3 DEF Settles
            <3> QED BY <3>1 DEF Settles, Coming, HasAll
        <2> QED BY <2>1, <2>2, <2>3, <2>4, <2>5 DEF Newest
    <1>3. CASE SyncOp \/ WriteFile
        <2>1. UNCHANGED <<mem, chan, batch>>
            BY <1>3 DEF SyncOp, WriteFile, mainVars, threadVars
        <2>2. ReloadDue' = ReloadDue
            BY <1>3 DEF SyncOp, WriteFile, ReloadDue, mainVars
        <2>3. RightOps(mem, ReloadDue, mainOps)'
            <3>1. mainOps' = mainOps \/ (mainOps # <<>> /\ mainOps' = Tail(mainOps))
                BY <1>3 DEF SyncOp, WriteFile, mainVars
            <3>2. ASSUME mainOps # <<>>, mainOps' = Tail(mainOps)
                  PROVE  \A i \in DOMAIN mainOps' : i + 1 \in DOMAIN mainOps /\ mainOps'[i] = mainOps[i + 1]
                BY <3>2, MessagesOps, PopShape
            <3> QED BY <3>1, <3>2, <2>1, <2>2 DEF Newest, RightOps
        <2>4. /\ SomeBatch' <=> SomeBatch
              /\ \A i : LastBatch(i)' <=> LastBatch(i)
            BY <2>1 DEF SomeBatch, LastBatch
        <2>5. Settles => Settles'
            BY <1>3, <2>2, SettlesApplied DEF Newest
        <2> QED BY <2>1, <2>2, <2>3, <2>4, <2>5 DEF Newest
    <1>4. CASE LeaveMain
        <2>1. timedOut' = timedOut /\ main' \in {"drop", "down"}
            BY <1>4 DEF LeaveMain, ghosts
        <2> QED BY <2>1, <1>4, LeaveMainNewest DEF Waits
    <1>5. CASE Quit \/ Disowned \/ DropWriter \/ Join \/ Written \/ Seize \/ UNCHANGED ownVars
        <2>1. Quiet
            BY <1>5, QuietSteps
        <2>2. ReloadDue' = ReloadDue /\ disk'.config.reload = disk.config.reload
            BY <1>5, QuietReload
        <2>3. /\ UNCHANGED <<mem, mainOps, batch, exec>>
              /\ disk'.chat = disk.chat /\ disk'.worker = disk.worker /\ disk'.panel = disk.panel
              /\ disk'.message = disk.message /\ disk'.config.next = disk.config.next
              /\ chan' = chan \/ \E x \in WriterMsgs : ~IsWork(x) /\ chan' = Append(chan, x)
            BY <2>1 DEF Quiet
        <2>4. /\ SomeBatch' <=> SomeBatch
              /\ RightOps(mem, ReloadDue, mainOps)'
              /\ \A i \in DOMAIN chan' : LastBatch(i)' => Complete(mem', ReloadDue', chan'[i].ops)
            BY <2>2, <2>3, NewestMoves
        <2>5. Settles => Settles'
            BY <2>2, <2>3, SettlesSame
        <2> QED BY <2>2, <2>3, <2>4, <2>5 DEF Newest
    <1>6. ASSUME Aside PROVE UNCHANGED <<mem, mainOps, disk>> /\ ReloadDue' = ReloadDue
        BY <1>6 DEF Aside, mainVars, ReloadDue
    <1>7. CASE TakeBatch
        <2>0. /\ chan # <<>> /\ chan' = Tail(chan) /\ Head(chan).kind = "batch" /\ batch' = Head(chan).ops /\ Aside
            BY <1>7 DEF TakeBatch
        <2>1. /\ 1 \in DOMAIN chan /\ chan[1] = Head(chan)
              /\ \A i \in DOMAIN chan' : i \in Nat /\ i >= 1 /\ i + 1 \in DOMAIN chan /\ chan'[i] = chan[i + 1]
              /\ \A j \in DOMAIN chan : j \in Nat /\ (j # 1 => j - 1 \in DOMAIN chan' /\ chan'[j - 1] = chan[j])
            BY <2>0, PopChan
        <2>2. batch' # <<>>
            BY <2>0, <2>1 DEF Behind
        <2>3. \A i \in DOMAIN chan' : LastBatch(i)' => LastBatch(i + 1)
            <3> SUFFICES ASSUME NEW i \in DOMAIN chan', LastBatch(i)', NEW j \in DOMAIN chan, j > i + 1
                         PROVE  chan[j].kind # "batch"
                BY <2>1 DEF LastBatch
            <3>1. j # 1 /\ j - 1 > i
                BY <2>1
            <3> QED BY <3>1, <2>1 DEF LastBatch
        <2>4. ~SomeBatch' => LastBatch(1)
            BY <2>0, <2>1 DEF SomeBatch, LastBatch
        <2>5. \A i \in DOMAIN chan' : LastBatch(i)' => Complete(mem', ReloadDue', chan'[i].ops)
            BY <2>0, <2>1, <2>3, <1>6 DEF Newest
        <2>6. ~SomeBatch' => Complete(mem', ReloadDue', batch')
            BY <2>0, <2>1, <2>4, <1>6 DEF Newest
        <2>7. RightOps(mem, ReloadDue, mainOps)'
            BY <2>0, <1>6 DEF Newest
        <2> QED BY <2>2, <2>5, <2>6, <2>7 DEF Newest
    <1>8. CASE TakeMessage
        <2>1. /\ chan # <<>> /\ chan' = Tail(chan) /\ Head(chan).kind # "batch" /\ UNCHANGED <<batch, exec>> /\ Aside
            BY <1>8 DEF TakeMessage
        <2>2. /\ SomeBatch' <=> SomeBatch
              /\ RightOps(mem, ReloadDue, mainOps)'
              /\ \A i \in DOMAIN chan' : LastBatch(i)' => Complete(mem', ReloadDue', chan'[i].ops)
            BY <2>1, <1>6, NewestMoves
        <2>3. Settles => Settles'
            BY <2>1, <1>6, SettlesSame
        <2> QED BY <2>1, <2>2, <2>3, <1>6 DEF Newest
    <1>9. CASE TakePending
        <2>1. /\ exec = <<>> /\ exec' = messages \o batch /\ batch' = <<>> /\ Aside
              /\ chan' = chan \/ (chan # <<>> /\ chan' = Tail(chan) /\ Head(chan).kind # "batch")
            BY <1>9 DEF TakePending, Idle
        <2>2. /\ SomeBatch' <=> SomeBatch
              /\ RightOps(mem, ReloadDue, mainOps)'
              /\ \A i \in DOMAIN chan' : LastBatch(i)' => Complete(mem', ReloadDue', chan'[i].ops)
            BY <2>1, <1>6, NewestMoves
        <2>3. ASSUME ~SomeBatch, batch = <<>> PROVE Settles'
            <3>1. messages = <<>>
                BY <2>3 DEF Behind
            <3>2. exec' = exec
                BY <3>1, <2>1, <2>3
            <3> QED BY <3>2, <2>1, <2>3, <1>6, SettlesSame DEF Newest
        <2>4. ASSUME ~SomeBatch, batch # <<>> PROVE Settles'
            <3>1. Complete(mem, ReloadDue, batch)
                BY <2>4 DEF Newest
            <3>2. \A x : InSeq(x, exec') <=> InSeq(x, messages) \/ InSeq(x, batch)
                BY <2>1, MessagesOps, ConcatElements
            <3>3. \A k, u : Has(batch, k, u) => Has(exec', k, u)
                BY <3>2 DEF Has, InSeq
            <3>4. HasAll(mem, exec')
                BY <3>1, <3>3 DEF Complete, HasAll
            <3>5. \A k \in DOMAIN messages : RightOp(mem, ReloadDue, messages[k])
                BY DEF Behind, RightOp
            <3>6. RightOps(mem, ReloadDue, exec')
                BY <3>1, <3>2, <3>5 DEF InSeq, RightOps, Complete
            <3>7. RightOps(mem, ReloadDue, exec)' /\ HasAll(mem, exec)'
                BY <3>4, <3>6, <2>1, <1>6
            <3> QED BY <3>7 DEF Settles, Coming, HasAll
        <2> QED BY <2>1, <2>2, <2>3, <2>4 DEF Newest
    <1>10. ~Kill /\ ~Boot
        BY DEF Lasts, Kill
    <1> QED BY <1>1, <1>2, <1>3, <1>4, <1>5, <1>7, <1>8, <1>9, <1>10,
               UserMessageStep, BeginAssistantStep, FinishAssistantStep, ClearConversationStep, DetachStep,
               ClosePanelStep, TakeSteps
            DEF Step, OwnNext, MainNext, ThreadNext

LEMMA LifeStep ==
    ASSUME OwnTypeOK, Bound, Behind, Phases, Life, Lives, [Step]_ownVars
    PROVE  Life'
PROOF
    <1> SUFFICES ASSUME ~stale', exit' # "killed"
                 PROVE  Fresh' /\ Arrives' /\ (Waits' => Newest')
        BY DEF Life
    <1>1. Fresh' /\ Arrives'
        BY FreshStep
    <1>2. CASE Boot
        <2>1. /\ mem' = LoadState(disk) /\ StateOK(mem')
              /\ mainOps' = BuildSaveBatch(mem', built + 1, handed)
              /\ exec' = <<>> /\ batch' = <<>> /\ chan' = <<>> /\ main' = "saving"
            BY <1>2, BootKnows
        <2>2. ReloadDue' = FALSE
            BY <2>1 DEF ReloadDue
        <2>3. RightOps(mem', FALSE, mainOps') /\ HasAll(mem', mainOps')
            BY <2>1, ChatElements, BatchComplete DEF Complete
        <2>4. RightOps(mem', FALSE, exec')
            BY <2>1, EmptyFacts
        <2>5. Settles'
            BY <2>2, <2>3, <2>4 DEF Settles, Coming, HasAll
        <2>6. DOMAIN chan' = {}
            BY <2>1
        <2> QED BY <1>1, <2>1, <2>2, <2>3, <2>5, <2>6 DEF Newest, SomeBatch
    <1>3. CASE ~Boot
        <2>0. Lasts
            BY <1>3 DEF Lasts
        <2>1. stale' = stale /\ exit # "killed"
            BY <2>0, LastsFacts
        <2>2. Waits' => Waits
            BY <2>0, WaitsStep
        <2> QED BY <1>1, <2>0, <2>1, <2>2, NewestStep DEF Life
    <1> QED BY <1>2, <1>3

-----------------------------------------------------------------------------
(* All lives: what a step does to the operations on their way *)

FilesOnly(s) == \A k \in DOMAIN s : s[k].kind = "message"
NewBatch(s) == StateOK(mem') /\ s = BuildSaveBatch(mem', built + 1, handed') /\ built' = built + 1
Derived(s) ==
    \/ Lane(s) \/ FilesOnly(s) \/ NewBatch(s)
    \/ \E t : Lane(t) /\ t # <<>> /\ s = Tail(t) /\ disk' = Apply(disk, Head(t))
    \/ s = messages \o batch

LEMMA LaneTyped ==
    ASSUME OwnTypeOK, NEW s, Lane(s)
    PROVE  s \in Seq(Ops)
PROOF BY MessagesOps DEF Lane

LEMMA LaneStep ==
    ASSUME OwnTypeOK, Bound, Phases, [Step]_ownVars, NEW s, Lane(s)'
    PROVE  Derived(s)
PROOF
    <1>0. FilesOnly(<<>>)
        BY DEF FilesOnly
    <1>1. ASSUME NEW w, NEW ms, NEW b, Async(w, ms, b) PROVE Derived(s)
        <2>1. UNCHANGED <<mainOps, exec, batch>> /\ NewBatch(b)
            BY <1>1 DEF Async, Pipes, threadVars, NewBatch
        <2>2. PICK n, l : Shape(n, l, ms, b)
            BY <1>1, SendsShape
        <2>3. \A j \in DOMAIN ms : FilesOnly(<<File(ms[j])>>)
            BY DEF FilesOnly, File
        <2>4. \A i \in DOMAIN chan' :
                  \/ i \in DOMAIN chan /\ chan'[i] = chan[i]
                  \/ chan'[i].ops = b
                  \/ \E j \in DOMAIN ms : chan'[i].ops = <<File(ms[j])>>
            BY <2>2 DEF Shape
        <2> QED BY <2>1, <2>3, <2>4 DEF Lane, Derived
    <1>2. CASE SyncSave \/ FinalSave
        <2>1. /\ UNCHANGED <<mem, exec, batch, chan, handed>> /\ mainOps' = BuildSaveBatch(mem, built + 1, handed)
              /\ built' = built + 1
            BY <1>2 DEF SyncSave, FinalSave, StartSyncSave, threadVars
        <2>2. NewBatch(mainOps')
            BY <2>1, ChatElements DEF NewBatch
        <2> QED BY <2>1, <2>2 DEF Lane, Derived
    <1>3. CASE SyncOp
        <2>1. /\ UNCHANGED <<exec, batch, chan>> /\ mainOps # <<>> /\ mainOps' = Tail(mainOps)
              /\ disk' = Apply(disk, Head(mainOps))
            BY <1>3 DEF SyncOp, threadVars
        <2> QED BY <2>1 DEF Lane, Derived
    <1>4. CASE WriteFile
        <2>1. /\ UNCHANGED <<mainOps, batch, chan>> /\ exec # <<>> /\ exec' = Tail(exec)
              /\ disk' = Apply(disk, Head(exec))
            BY <1>4 DEF WriteFile, mainVars
        <2> QED BY <2>1 DEF Lane, Derived
    <1>5. CASE Quiet
        <2>1. UNCHANGED <<mainOps, batch, exec>>
            BY <1>5 DEF Quiet
        <2>2. ASSUME NEW x \in WriterMsgs, x.ops = <<>>, chan' = Append(chan, x)
              PROVE  \A i \in DOMAIN chan' : (i \in DOMAIN chan /\ chan'[i] = chan[i]) \/ chan'[i].ops = <<>>
            BY <2>2, MessagesOps, PushShape
        <2>3. \A i \in DOMAIN chan' : (i \in DOMAIN chan /\ chan'[i] = chan[i]) \/ chan'[i].ops = <<>>
            BY <2>2, <1>5 DEF Quiet
        <2> QED BY <2>1, <2>3, <1>0 DEF Lane, Derived
    <1>6. ASSUME chan # <<>>, chan' = Tail(chan)
          PROVE  /\ 1 \in DOMAIN chan /\ chan[1] = Head(chan)
                 /\ \A i \in DOMAIN chan' : \E j \in DOMAIN chan : chan'[i] = chan[j]
        BY <1>6, PopChan
    <1>7. CASE TakeBatch \/ TakeMessage
        <2>1. /\ UNCHANGED <<mainOps, exec>> /\ chan # <<>> /\ chan' = Tail(chan)
              /\ batch' = batch \/ batch' = Head(chan).ops
            BY <1>7 DEF TakeBatch, TakeMessage, Aside, mainVars
        <2> QED BY <2>1, <1>6 DEF Lane, Derived
    <1>8. CASE TakePending
        <2>1. /\ UNCHANGED <<mainOps>> /\ exec' = messages \o batch /\ batch' = <<>>
              /\ chan' = chan \/ (chan # <<>> /\ chan' = Tail(chan))
            BY <1>8 DEF TakePending, Aside, mainVars
        <2> QED BY <2>1, <1>0, <1>6 DEF Lane, Derived
    <1>9. CASE Kill
        <2>1. exec' = <<>> /\ batch' = <<>> /\ mainOps' = <<>> /\ DOMAIN chan' = {}
            BY <1>9 DEF Kill, NewWriter
        <2> QED BY <2>1, <1>0 DEF Lane, Derived
    <1>10. CASE Boot
        <2>1. /\ exec' = <<>> /\ batch' = <<>> /\ DOMAIN chan' = {} /\ StateOK(mem') /\ built' = built + 1
              /\ mainOps' = BuildSaveBatch(mem', built + 1, handed) /\ handed' = handed
            BY <1>10, BootKnows
        <2> QED BY <2>1, <1>0 DEF Lane, Derived, NewBatch
    <1> QED BY <1>1, <1>2, <1>3, <1>4, <1>5, <1>7, <1>8, <1>9, <1>10, Kinds

(* An operation on its way was on its way, or is of a new batch, or is a   *)
(* message file.                                                            *)
LEMMA WayStep ==
    ASSUME OwnTypeOK, Bound, Behind, Phases, [Step]_ownVars, NEW x, Way(x)', x.kind # "message"
    PROVE  Way(x) \/ \E b : NewBatch(b) /\ InSeq(x, b)
PROOF
    <1>1. PICK s : Lane(s)' /\ InSeq(x, s)
        BY DEF Way
    <1>2. Derived(s)
        BY <1>1, LaneStep
    <1>3. CASE Lane(s)
        BY <1>1, <1>3 DEF Way
    <1>4. CASE FilesOnly(s)
        BY <1>1, <1>4 DEF FilesOnly, InSeq
    <1>5. CASE NewBatch(s)
        BY <1>1, <1>5
    <1>6. ASSUME NEW t, Lane(t), t # <<>>, s = Tail(t) PROVE Way(x)
        <2>1. t \in Seq(Ops)
            BY <1>6, LaneTyped
        <2>2. \A i \in DOMAIN s : i + 1 \in DOMAIN t /\ s[i] = t[i + 1]
            BY <2>1, <1>6, PopShape
        <2> QED BY <2>2, <1>1, <1>6 DEF Way, InSeq
    <1>7. CASE s = messages \o batch
        <2>1. InSeq(x, messages) \/ InSeq(x, batch)
            BY <1>1, <1>7, MessagesOps, ConcatElements
        <2>2. ~InSeq(x, messages)
            BY DEF Behind, InSeq
        <2> QED BY <2>1, <2>2 DEF Way, Lane
    <1> QED BY <1>2, <1>3, <1>4, <1>5, <1>6, <1>7 DEF Derived

(* The configuration and the conversation of a new batch. *)
LEMMA NewBatchFacts ==
    ASSUME OwnTypeOK, NEW b, NewBatch(b)
    PROVE  /\ b \in Seq(Ops) /\ 1 \in DOMAIN b /\ DOMAIN b \subseteq Nat \ {0}
           /\ IsConfig(b[1]) /\ b[1].val.ver = built' /\ b[1].val.next = mem'.next
           /\ \A k \in DOMAIN b : /\ IsConfig(b[k]) => k = 1
                                  /\ b[k].kind = "chat" => b[k].val = Listed(mem'.chat, handed')
                                  /\ \A u : Lists(b[k], u) => \E c : InChat(u, c)' \/ InHistory(u, c)'
PROOF
    <1>0. disk \in Disks /\ built + 1 \in Nat /\ StateOK(mem') /\ b = BuildSaveBatch(mem', built + 1, handed')
          /\ built' = built + 1
        BY ChatElements DEF NewBatch
    <1>1. /\ b \in Seq(Ops) /\ Len(b) >= 3
          /\ b[1] = ConfigOp(mem', built + 1) /\ b[2] = Worker(DOMAIN mem'.history)
          /\ b[3] = Chat(Listed(mem'.chat, handed'))
          /\ \A k \in DOMAIN b : k > 3 => b[k] \in Rest(mem', handed')
        BY <1>0, BatchFacts
    <1>2. 1 \in DOMAIN b /\ DOMAIN b \subseteq Nat \ {0} /\ \A k \in DOMAIN b : k \in {1, 2, 3} \/ k > 3
        BY <1>1
    <1>3. /\ b[1].kind = "config" /\ b[1].val.next = mem'.next /\ b[1].val.ver = built + 1
          /\ b[2].kind = "worker"
          /\ b[3].kind = "chat" /\ b[3].val = Listed(mem'.chat, handed')
        BY <1>1 DEF ConfigOp, Config, Worker, Chat
    <1>4. mem'.chat \in Seq(Messages) /\ \A p \in DOMAIN mem'.history : mem'.history[p] \in Seq(Messages)
        BY <1>0, StateFacts
    <1>5. ASSUME NEW u, Lists(b[3], u) PROVE \E c : InChat(u, c)'
        <2>1. /\ DOMAIN Listed(mem'.chat, handed') = DOMAIN mem'.chat
              /\ \A i \in DOMAIN mem'.chat : Listed(mem'.chat, handed')[i].uid = mem'.chat[i].uid
            BY <1>4, ListedFacts
        <2>2. PICK i \in DOMAIN mem'.chat : mem'.chat[i].uid = u
            BY <1>3, <1>5, <2>1 DEF Lists
        <2> QED BY <2>2 DEF InChat
    <1>6. ASSUME NEW op \in Rest(mem', handed')
          PROVE  /\ op.kind \in {"panel", "message"}
                 /\ \A u : Lists(op, u) => \E c : InHistory(u, c)'
        <2>1. CASE op \in PanelWrites(mem', handed')
            <3>1. PICK p \in DOMAIN mem'.history : op = Panel(p, <<Listed(mem'.history[p], handed')>>)
                BY <2>1 DEF PanelWrites
            <3>2. op.kind = "panel" /\ op.val = <<Listed(mem'.history[p], handed')>>
                BY <3>1 DEF Panel
            <3>3. op.val[1] = Listed(mem'.history[p], handed')
                BY <3>2
            <3>4. \A i \in DOMAIN op.val[1] : i \in DOMAIN mem'.history[p] /\ op.val[1][i].uid = mem'.history[p][i].uid
                BY <3>3, <1>4, ListedFacts
            <3> QED BY <3>2, <3>4 DEF Lists, InHistory
        <2>2. CASE op \in HistoryMessages(mem')
            <3>1. op.kind = "message"
                BY <2>2 DEF HistoryMessages, File
            <3> QED BY <3>1 DEF Lists
        <2>3. CASE op \in OrphanDeletes(mem')
            <3>1. op.kind = "panel" /\ op.val = <<>>
                BY <2>3 DEF OrphanDeletes, Panel, NoPanel
            <3> QED BY <3>1 DEF Lists
        <2> QED BY <2>1, <2>2, <2>3 DEF Rest
    <1>7. ASSUME NEW k \in DOMAIN b
          PROVE  /\ IsConfig(b[k]) => k = 1
                 /\ b[k].kind = "chat" => b[k].val = Listed(mem'.chat, handed')
                 /\ \A u : Lists(b[k], u) => \E c : InChat(u, c)' \/ InHistory(u, c)'
        <2>1. CASE k = 1 \/ k = 2
            BY <2>1, <1>3 DEF IsConfig, Lists
        <2>2. CASE k = 3
            BY <2>2, <1>3, <1>5 DEF IsConfig
        <2>3. CASE k > 3
            BY <2>3, <1>1, <1>6 DEF IsConfig
        <2> QED BY <2>1, <2>2, <2>3, <1>2
    <1> QED BY <1>0, <1>1, <1>2, <1>3, <1>7 DEF IsConfig

-----------------------------------------------------------------------------
(* A synchronous save that overtakes nothing runs alone *)

LEMMA OvertakenStays ==
    ASSUME OwnTypeOK, Bound, Phases, [Step]_ownVars
    PROVE  overtaken => overtaken'
PROOF
    <1>0. overtaken \in BOOLEAN /\ overtaken' \in BOOLEAN
        BY TypeStep DEF OwnTypeOK, CountersTypeOK
    <1>1. ASSUME NEW w, NEW ms, NEW b, Async(w, ms, b) PROVE overtaken' = overtaken
        BY <1>1 DEF Async, Pipes
    <1>2. CASE SyncSave \/ FinalSave
        BY <1>2, <1>0 DEF SyncSave, FinalSave, StartSyncSave
    <1>3. CASE SyncOp \/ WriteFile \/ Quiet \/ TakeBatch \/ TakeMessage \/ TakePending \/ Kill \/ Boot
        BY <1>3 DEF SyncOp, WriteFile, Quiet, TakeBatch, TakeMessage, TakePending, Kill, Boot, Aside, ghosts
    <1> QED BY <1>1, <1>2, <1>3, Kinds

LEMMA OvertakenStep ==
    ASSUME OwnTypeOK, Bound, Behind, Phases, Life, Lives, [Step]_ownVars
    PROVE  /\ stale' => overtaken'
           /\ ~overtaken' =>
                  /\ ~overtaken /\ ~stale /\ ~stale'
                  /\ exit # "killed" => Fresh /\ Arrives
                  /\ exit' # "killed" => Fresh' /\ Arrives'
PROOF
    <1>0. overtaken \in BOOLEAN /\ stale \in BOOLEAN /\ overtaken' \in BOOLEAN /\ stale' \in BOOLEAN
        BY TypeStep DEF OwnTypeOK, CountersTypeOK
    <1>1. overtaken => overtaken'
        BY OvertakenStays
    <1>2. stale' = stale \/ (Boot /\ stale' = overtaken)
        <2>1. ASSUME NEW w, NEW ms, NEW b, Async(w, ms, b) PROVE stale' = stale
            BY <2>1 DEF Async, Pipes
        <2>2. CASE SyncSave \/ FinalSave
            BY <2>2 DEF SyncSave, FinalSave
        <2>3. CASE SyncOp \/ WriteFile \/ Quiet \/ TakeBatch \/ TakeMessage \/ TakePending \/ Kill \/ Boot
            BY <2>3 DEF SyncOp, WriteFile, Quiet, TakeBatch, TakeMessage, TakePending, Kill, Boot, Aside, ghosts
        <2> QED BY <2>1, <2>2, <2>3, Kinds
    <1>3. stale => overtaken
        BY DEF Lives
    <1>4. Life'
        BY LifeStep
    <1> QED BY <1>0, <1>1, <1>2, <1>3, <1>4 DEF Life

LEMMA CalmKeeps ==
    ASSUME OwnTypeOK, Phases, Calm, Quiet \/ WriteFile \/ TakeBatch \/ TakeMessage \/ TakePending
    PROVE  Calm'
PROOF
    <1>1. ~TakeBatch /\ ~TakeMessage /\ ~WriteFile
        BY PopChan DEF TakeBatch, TakeMessage, WriteFile, Calm, IsWork
    <1>2. CASE Quiet
        <2>1. UNCHANGED <<batch, messages, exec>>
            BY <1>2 DEF Quiet
        <2>2. ASSUME NEW x \in WriterMsgs, ~IsWork(x), chan' = Append(chan, x)
              PROVE  \A i \in DOMAIN chan' : ~IsWork(chan'[i])
            <3>1. \A i \in DOMAIN chan' : (i \in DOMAIN chan /\ chan'[i] = chan[i]) \/ chan'[i] = x
                BY <2>2, MessagesOps, PushShape
            <3> QED BY <3>1, <2>2 DEF Calm, IsWork
        <2>3. \A i \in DOMAIN chan' : ~IsWork(chan'[i])
            BY <2>2, <1>2 DEF Quiet, Calm
        <2> QED BY <2>1, <2>3 DEF Calm
    <1>3. CASE TakePending
        <2>1. exec' = <<>> /\ messages' = <<>> /\ batch' = <<>>
            BY <1>3 DEF TakePending, Calm
        <2>2. chan' = chan \/ (chan # <<>> /\ chan' = Tail(chan))
            BY <1>3 DEF TakePending
        <2>3. \A i \in DOMAIN chan' : ~IsWork(chan'[i])
            BY <2>2, PopChan DEF Calm, IsWork
        <2> QED BY <2>1, <2>3 DEF Calm
    <1> QED BY <1>1, <1>2, <1>3

LEMMA QuietIsCalm ==
    ASSUME OwnTypeOK, Behind, ~BatchQueued
    PROVE  Calm
PROOF
    <1>1. batch = <<>> /\ exec = <<>> /\ \A i \in DOMAIN chan : chan[i].kind # "batch"
        BY DEF BatchQueued
    <1>2. messages = <<>>
        BY <1>1 DEF Behind, SomeBatch
    <1>3. \A i \in DOMAIN chan : chan[i].kind # "message"
        BY <1>1 DEF Behind
    <1> QED BY <1>1, <1>2, <1>3 DEF Calm, IsWork

LEMMA AloneStep ==
    ASSUME OwnTypeOK, Bound, Behind, Phases, Alone, ~overtaken', [Step]_ownVars
    PROVE  Alone'
PROOF
    <1>1. ASSUME NEW w, NEW ms, NEW b, Async(w, ms, b) PROVE Alone'
        BY <1>1 DEF Async, Pipes, Phases, Alone
    <1>2. CASE SyncSave \/ FinalSave
        <2>1. UNCHANGED <<exec, batch, messages, chan>> /\ ~BatchQueued
            BY <1>2 DEF SyncSave, FinalSave, StartSyncSave, threadVars
        <2>2. Calm
            BY <2>1, QuietIsCalm
        <2> QED BY <2>1, <2>2 DEF Calm, Alone
    <1>3. CASE SyncOp
        <2>1. UNCHANGED <<exec, batch, messages, chan>> /\ mainOps # <<>>
            BY <1>3 DEF SyncOp, threadVars
        <2> QED BY <2>1 DEF Calm, Alone
    <1>4. CASE Quiet \/ WriteFile \/ TakeBatch \/ TakeMessage \/ TakePending
        <2>1. mainOps' = mainOps
            BY <1>4 DEF Quiet, WriteFile, TakeBatch, TakeMessage, TakePending, Aside, mainVars
        <2> QED BY <2>1, <1>4, CalmKeeps DEF Alone
    <1>5. CASE Kill
        BY <1>5 DEF Kill, Alone
    <1>6. CASE Boot
        BY <1>6 DEF Boot, NewWriter, Calm, Alone
    <1> QED BY <1>1, <1>2, <1>3, <1>4, <1>5, <1>6, Kinds

-----------------------------------------------------------------------------
(* config.json only moves forward *)

LEMMA ConfigTyped ==
    ASSUME OwnTypeOK
    PROVE  /\ disk.config.ver \in Nat /\ disk.config.next \in Nat /\ built \in Nat /\ mem.next \in Nat
           /\ \A x : Way(x) => x \in Ops
           /\ \A x \in Ops : IsConfig(x) => x.val.ver \in Nat /\ x.val.next \in Nat
PROOF
    <1>1. disk.config \in Configs
        BY MessagesOps, DiskFacts
    <1>2. \A x \in Ops : IsConfig(x) => x.val \in Configs
        BY OpFacts DEF IsConfig
    <1>3. \A x : Way(x) => x \in Ops
        BY LaneTyped DEF Way, InSeq
    <1>4. built \in Nat /\ mem.next \in Nat
        BY ChatElements DEF OwnTypeOK, CountersTypeOK
    <1> QED BY <1>1, <1>2, <1>3, <1>4 DEF Configs

(* One operation of either thread: the other thread has nothing to do, or  *)
(* comes later.                                                             *)
LEMMA ConfigMoves ==
    ASSUME OwnTypeOK, Alone, Forwards, SyncOp \/ WriteFile
    PROVE  /\ CfgLe(disk.config, disk'.config)
           /\ disk'.config = disk.config \/ Under(disk'.config)
           /\ \A x : Way(x)' /\ IsConfig(x) => CfgLe(disk'.config, x.val)
           /\ \A x : Way(x)' => Way(x)
PROOF
    <1>0. disk \in Disks
        BY MessagesOps
    <1>1. ASSUME NEW s \in Seq(Ops), s # <<>>, NEW t, t = Tail(s), Lane(s), disk' = Apply(disk, Head(s)),
                 \A r : Lane(r)' => r = t \/ r = <<>> \/ (Lane(r) /\ Before(s, r))
          PROVE  /\ CfgLe(disk.config, disk'.config)
                 /\ disk'.config = disk.config \/ Under(disk'.config)
                 /\ \A x : Way(x)' /\ IsConfig(x) => CfgLe(disk'.config, x.val)
                 /\ \A x : Way(x)' => Way(x)
        <2>1. /\ 1 \in DOMAIN s /\ s[1] = Head(s) /\ s[1] \in Ops
              /\ \A i \in DOMAIN t : i \in Nat /\ i >= 1 /\ i + 1 \in DOMAIN s /\ t[i] = s[i + 1]
            BY <1>1, PopShape
        <2>2. disk'.config = IF IsConfig(s[1]) THEN s[1].val ELSE disk.config
            BY <1>0, <1>1, <2>1, ApplyFacts DEF IsConfig
        <2>3. Way(s[1])
            BY <2>1, <1>1 DEF Way, InSeq
        <2>4. ASSUME NEW x, Way(x)'
              PROVE  Way(x) /\ (IsConfig(s[1]) /\ IsConfig(x) => CfgLe(s[1].val, x.val))
            <3>1. PICK r : Lane(r)' /\ InSeq(x, r)
                BY <2>4 DEF Way
            <3>2. CASE r = t
                <4>1. PICK i \in DOMAIN t : t[i] = x
                    BY <3>1, <3>2 DEF InSeq
                <4>2. i + 1 \in DOMAIN s /\ s[i + 1] = x /\ 1 < i + 1
                    BY <4>1, <2>1
                <4>3. Way(x)
                    BY <4>2, <1>1 DEF Way, InSeq
                <4>4. Inner(s)
                    BY <1>1 DEF Forwards
                <4> QED BY <4>2, <4>3, <4>4, <2>1 DEF Inner
            <3>3. CASE r = <<>>
                BY <3>1, <3>3 DEF InSeq
            <3>4. CASE Lane(r) /\ Before(s, r)
                <4>1. Way(x)
                    BY <3>1, <3>4 DEF Way
                <4>2. PICK k \in DOMAIN r : r[k] = x
                    BY <3>1 DEF InSeq
                <4> QED BY <4>1, <4>2, <3>4, <2>1 DEF Before
            <3> QED BY <3>1, <3>2, <3>3, <3>4, <1>1
        <2>5. CfgLe(disk.config, disk.config)
            BY ConfigTyped DEF CfgLe
        <2> QED BY <2>2, <2>3, <2>4, <2>5 DEF Forwards
    <1>2. CASE SyncOp
        <2>1. /\ mainOps # <<>> /\ mainOps' = Tail(mainOps) /\ disk' = Apply(disk, Head(mainOps))
              /\ UNCHANGED <<exec, batch, chan>>
            BY <1>2 DEF SyncOp, threadVars
        <2>2. Calm
            BY <2>1 DEF Alone
        <2>3. \A i \in DOMAIN chan : chan[i].ops = <<>>
            <3>1. \A x \in WriterMsgs : ~IsWork(x) => x.ops = <<>>
                BY DEF WriterMsgs, IsWork
            <3> QED BY <3>1, <2>2, MessagesOps DEF Calm
        <2>4. \A r : Lane(r)' => r = mainOps' \/ r = <<>>
            BY <2>1, <2>2, <2>3 DEF Lane, Calm
        <2>5. Lane(mainOps)
            BY DEF Lane
        <2> QED BY <2>1, <2>4, <2>5, <1>1, MessagesOps
    <1>3. CASE WriteFile
        <2>1. /\ exec # <<>> /\ exec' = Tail(exec) /\ disk' = Apply(disk, Head(exec))
              /\ UNCHANGED <<mainOps, batch, chan>>
            BY <1>3 DEF WriteFile, mainVars
        <2>2. mainOps = <<>>
            BY <2>1 DEF Alone, Calm
        <2>3. \A r : Lane(r)' => r = exec' \/ r = <<>> \/ (Lane(r) /\ Before(exec, r))
            BY <2>1, <2>2 DEF Lane, Forwards, Ordered
        <2>4. Lane(exec)
            BY DEF Lane
        <2> QED BY <2>1, <2>3, <2>4, <1>1, MessagesOps
    <1> QED BY <1>2, <1>3

LEMMA BeforeFacts ==
    ASSUME NEW s, NEW t
    PROVE  /\ FilesOnly(s) \/ FilesOnly(t) => Before(s, t)
           /\ Before(<<>>, t) /\ Before(s, <<>>)
PROOF BY DEF Before, FilesOnly, IsConfig

LEMMA OrderedStep ==
    ASSUME OwnTypeOK, Bound, Behind, Phases, Forwards, [Step]_ownVars
    PROVE  Ordered'
PROOF
    <1>0. Ordered
        BY DEF Forwards
    <1>1. ASSUME NEW w, NEW ms, NEW b, Async(w, ms, b) PROVE Ordered'
        <2>1. UNCHANGED <<exec, batch>> /\ NewBatch(b) /\ exit # "killed" /\ mem.next <= mem'.next
            BY <1>1 DEF Async, Pipes, threadVars, NewBatch, Phases, Forward
        <2>2. PICK n, l : Shape(n, l, ms, b)
            BY <1>1, SendsShape
        <2>3. \A j \in DOMAIN ms : FilesOnly(<<File(ms[j])>>)
            BY DEF FilesOnly, File
        <2>4. ASSUME NEW s, Lane(s) PROVE Before(s, b)
            <3>1. /\ b[1].val.ver = built' /\ b[1].val.next = mem'.next
                  /\ \A k \in DOMAIN b : IsConfig(b[k]) => k = 1
                BY <2>1, NewBatchFacts
            <3>2. mem'.next \in Nat /\ built' = built + 1 /\ built \in Nat /\ mem.next \in Nat
                BY <2>1, ConfigTyped DEF NewBatch, StateOK
            <3>3. ASSUME NEW j \in DOMAIN s, IsConfig(s[j]) PROVE CfgLe(s[j].val, b[1].val)
                <4>1. Way(s[j])
                    BY <2>4 DEF Way, InSeq
                <4>2. s[j].val.ver <= built /\ s[j].val.next <= mem.next
                    BY <4>1, <3>3, <2>1 DEF Forwards, Under
                <4>3. s[j].val.ver \in Nat /\ s[j].val.next \in Nat
                    BY <4>1, <3>3, ConfigTyped
                <4> QED BY <4>2, <4>3, <3>1, <3>2, <2>1 DEF CfgLe
            <3> QED BY <3>1, <3>3 DEF Before
        <2>5. Lane(exec) /\ Lane(batch) /\ \A i \in DOMAIN chan : Lane(chan[i].ops)
            BY DEF Lane
        <2>6. \A i \in 1 .. l :
                  \/ i \in 1 .. n /\ i \in DOMAIN chan /\ chan'[i] = chan[i]
                  \/ i = l /\ chan'[i].ops = b
                  \/ i \notin 1 .. n /\ FilesOnly(chan'[i].ops)
            BY <2>2, <2>3 DEF Shape
        <2>7. ASSUME NEW i \in DOMAIN chan' PROVE Before(exec, chan'[i].ops) /\ Before(batch, chan'[i].ops)
            <3>1. i \in 1 .. l
                BY <2>2 DEF Shape
            <3>2. CASE i \in DOMAIN chan /\ chan'[i] = chan[i]
                BY <3>2, <1>0 DEF Ordered
            <3>3. CASE chan'[i].ops = b
                BY <3>3, <2>4, <2>5
            <3>4. CASE FilesOnly(chan'[i].ops)
                BY <3>4, BeforeFacts
            <3> QED BY <3>1, <3>2, <3>3, <3>4, <2>6
        <2>8. ASSUME NEW i \in DOMAIN chan', NEW j \in DOMAIN chan', i < j PROVE Before(chan'[i].ops, chan'[j].ops)
            <3>1. i \in 1 .. l /\ j \in 1 .. l /\ n \in Nat /\ l \in Nat /\ n < l
                BY <2>2 DEF Shape
            <3>2. CASE FilesOnly(chan'[i].ops) \/ FilesOnly(chan'[j].ops)
                BY <3>2, BeforeFacts
            <3>3. CASE i = l
                BY <3>1, <3>3, <2>8
            <3>4. CASE i \in DOMAIN chan /\ chan'[i] = chan[i] /\ j = l /\ chan'[j].ops = b
                BY <3>4, <2>4, <2>5
            <3>5. CASE i \in DOMAIN chan /\ chan'[i] = chan[i] /\ j \in DOMAIN chan /\ chan'[j] = chan[j]
                BY <3>5, <2>8, <1>0 DEF Ordered
            <3> QED BY <3>1, <3>2, <3>3, <3>4, <3>5, <2>6
        <2>9. Before(exec, batch)
            BY <1>0 DEF Ordered
        <2> QED BY <2>1, <2>7, <2>8, <2>9 DEF Ordered
    <1>2. CASE SyncSave \/ FinalSave \/ SyncOp
        <2>1. UNCHANGED <<exec, batch, chan>>
            BY <1>2 DEF SyncSave, FinalSave, StartSyncSave, SyncOp, threadVars
        <2> QED BY <2>1, <1>0 DEF Ordered
    <1>3. CASE WriteFile
        <2>1. exec # <<>> /\ exec' = Tail(exec) /\ UNCHANGED <<batch, chan>>
            BY <1>3 DEF WriteFile
        <2>2. \A i \in DOMAIN exec' : i + 1 \in DOMAIN exec /\ exec'[i] = exec[i + 1]
            BY <2>1, MessagesOps, PopShape
        <2>3. \A t : Before(exec, t) => Before(exec', t)
            BY <2>2 DEF Before
        <2> QED BY <2>1, <2>3, <1>0 DEF Ordered
    <1>4. CASE Quiet
        <2>1. UNCHANGED <<exec, batch>>
            BY <1>4 DEF Quiet
        <2>2. CASE chan' = chan
            BY <2>1, <2>2, <1>0 DEF Ordered
        <2>3. ASSUME NEW x \in WriterMsgs, x.ops = <<>>, chan' = Append(chan, x) PROVE Ordered'
            <3>1. \A i \in DOMAIN chan' : (i \in DOMAIN chan /\ chan'[i] = chan[i]) \/ chan'[i].ops = <<>>
                BY <2>3, MessagesOps, PushShape
            <3>2. \A i \in DOMAIN chan' : Before(exec, chan'[i].ops) /\ Before(batch, chan'[i].ops)
                BY <3>1, <1>0, BeforeFacts DEF Ordered
            <3>3. \A i, j \in DOMAIN chan' : i < j => Before(chan'[i].ops, chan'[j].ops)
                BY <3>1, <1>0, BeforeFacts DEF Ordered
            <3> QED BY <2>1, <3>2, <3>3, <1>0 DEF Ordered
        <2> QED BY <1>4, <2>2, <2>3 DEF Quiet
    <1>5. ASSUME chan # <<>>, chan' = Tail(chan)
          PROVE  /\ 1 \in DOMAIN chan /\ chan[1] = Head(chan)
                 /\ \A i \in DOMAIN chan' : i \in Nat /\ i >= 1 /\ i + 1 \in DOMAIN chan /\ chan'[i] = chan[i + 1]
                 /\ \A i, j \in DOMAIN chan' : i < j => Before(chan'[i].ops, chan'[j].ops)
                 /\ \A i \in DOMAIN chan' : /\ Before(exec, chan'[i].ops) /\ Before(batch, chan'[i].ops)
                                            /\ Before(chan[1].ops, chan'[i].ops)
        <2>1. /\ 1 \in DOMAIN chan /\ chan[1] = Head(chan)
              /\ \A i \in DOMAIN chan' : i \in Nat /\ i >= 1 /\ i + 1 \in DOMAIN chan /\ chan'[i] = chan[i + 1]
            BY <1>5, PopChan
        <2>2. ASSUME NEW i \in DOMAIN chan', NEW j \in DOMAIN chan', i < j PROVE Before(chan'[i].ops, chan'[j].ops)
            <3>1. i + 1 < j + 1
                BY <2>1, <2>2
            <3> QED BY <3>1, <2>1, <1>0 DEF Ordered
        <2>3. ASSUME NEW i \in DOMAIN chan'
              PROVE  /\ Before(exec, chan'[i].ops) /\ Before(batch, chan'[i].ops)
                     /\ Before(chan[1].ops, chan'[i].ops)
            <3>1. 1 < i + 1
                BY <2>1
            <3> QED BY <3>1, <2>1, <1>0 DEF Ordered
        <2> QED BY <2>1, <2>2, <2>3
    <1>6. CASE TakeBatch
        <2>1. chan # <<>> /\ chan' = Tail(chan) /\ batch' = Head(chan).ops /\ exec' = exec
            BY <1>6 DEF TakeBatch
        <2>2. Before(exec, chan[1].ops)
            BY <2>1, <1>5, <1>0 DEF Ordered
        <2> QED BY <2>1, <2>2, <1>5 DEF Ordered
    <1>7. CASE TakeMessage
        <2>1. chan # <<>> /\ chan' = Tail(chan) /\ batch' = batch /\ exec' = exec
            BY <1>7 DEF TakeMessage
        <2> QED BY <2>1, <1>5, <1>0 DEF Ordered
    <1>8. CASE TakePending
        <2>1. /\ exec' = messages \o batch /\ batch' = <<>>
              /\ chan' = chan \/ (chan # <<>> /\ chan' = Tail(chan))
            BY <1>8 DEF TakePending
        <2>2. \A x : InSeq(x, exec') <=> InSeq(x, messages) \/ InSeq(x, batch)
            BY <2>1, MessagesOps, ConcatElements
        <2>3. FilesOnly(messages)
            BY DEF Behind, FilesOnly
        <2>4. ASSUME NEW t, Before(batch, t) PROVE Before(exec', t)
            <3> SUFFICES ASSUME NEW j \in DOMAIN exec', NEW k \in DOMAIN t, IsConfig(exec'[j]), IsConfig(t[k])
                         PROVE  CfgLe(exec'[j].val, t[k].val)
                BY DEF Before
            <3>1. InSeq(exec'[j], batch)
                BY <2>2, <2>3 DEF InSeq, FilesOnly, IsConfig
            <3> QED BY <3>1, <2>4 DEF InSeq, Before
        <2>5. \A i \in DOMAIN chan' : Before(batch, chan'[i].ops)
            BY <2>1, <1>5, <1>0 DEF Ordered
        <2>6. \A i, j \in DOMAIN chan' : i < j => Before(chan'[i].ops, chan'[j].ops)
            BY <2>1, <1>5, <1>0 DEF Ordered
        <2> QED BY <2>1, <2>4, <2>5, <2>6, BeforeFacts DEF Ordered
    <1>9. CASE Kill \/ Boot
        <2>1. exec' = <<>> /\ batch' = <<>> /\ DOMAIN chan' = {}
            BY <1>9 DEF Kill, Boot, NewWriter
        <2> QED BY <2>1, BeforeFacts DEF Ordered
    <1> QED BY <1>1, <1>2, <1>3, <1>4, <1>6, <1>7, <1>8, <1>9, Kinds

LEMMA InnerStep ==
    ASSUME OwnTypeOK, Bound, Behind, Phases, Forwards, [Step]_ownVars, NEW s, Lane(s)'
    PROVE  Inner(s)
PROOF
    <1>0. \A t : Lane(t) => Inner(t)
        BY DEF Forwards
    <1>1. CASE Lane(s)
        BY <1>0, <1>1
    <1>2. CASE FilesOnly(s)
        BY <1>2 DEF FilesOnly, Inner, IsConfig
    <1>3. CASE NewBatch(s)
        <2>1. DOMAIN s \subseteq Nat \ {0} /\ \A k \in DOMAIN s : IsConfig(s[k]) => k = 1
            BY <1>3, NewBatchFacts
        <2> QED BY <2>1 DEF Inner
    <1>4. ASSUME NEW t, Lane(t), t # <<>>, s = Tail(t) PROVE Inner(s)
        <2>1. t \in Seq(Ops)
            BY <1>4, LaneTyped
        <2>2. \A i \in DOMAIN s : i \in Nat /\ i + 1 \in DOMAIN t /\ s[i] = t[i + 1]
            BY <2>1, <1>4, PopShape
        <2> SUFFICES ASSUME NEW j \in DOMAIN s, NEW k \in DOMAIN s, j < k, IsConfig(s[j]), IsConfig(s[k])
                     PROVE  CfgLe(s[j].val, s[k].val)
            BY DEF Inner
        <2>3. j + 1 < k + 1
            BY <2>2
        <2> QED BY <2>2, <2>3, <1>0, <1>4 DEF Inner
    <1>5. CASE s = messages \o batch
        <2>1. messages \in Seq(Ops) /\ batch \in Seq(Ops)
            BY MessagesOps
        <2>2. /\ Len(messages) \in Nat /\ DOMAIN messages = 1 .. Len(messages)
              /\ Len(batch) \in Nat /\ DOMAIN batch = 1 .. Len(batch)
              /\ DOMAIN s = 1 .. Len(messages) + Len(batch)
            BY <2>1, <1>5
        <2>3. /\ \A i \in 1 .. Len(messages) : s[i] = messages[i]
              /\ \A i \in 1 .. Len(batch) : s[Len(messages) + i] = batch[i]
            BY ONLY <2>1, <1>5, ConcatFacts
        <2>4. ASSUME NEW i \in DOMAIN s, IsConfig(s[i])
              PROVE  i \in Nat /\ i - Len(messages) \in DOMAIN batch /\ s[i] = batch[i - Len(messages)]
            <3>1. i \notin 1 .. Len(messages)
                BY <2>2, <2>3, <2>4 DEF Behind, IsConfig
            <3>2. i \in Nat /\ i - Len(messages) \in 1 .. Len(batch) /\ i = Len(messages) + (i - Len(messages))
                BY <3>1, <2>2
            <3> QED BY <3>2, <2>2, <2>3
        <2>5. Inner(batch)
            BY <1>0 DEF Lane
        <2> SUFFICES ASSUME NEW j \in DOMAIN s, NEW k \in DOMAIN s, j < k, IsConfig(s[j]), IsConfig(s[k])
                     PROVE  CfgLe(s[j].val, s[k].val)
            BY DEF Inner
        <2>6. j - Len(messages) < k - Len(messages)
            BY <2>2, <2>4
        <2> QED BY <2>4, <2>5, <2>6 DEF Inner
    <1> QED BY <1>1, <1>2, <1>3, <1>4, <1>5, LaneStep DEF Derived

(* A counter never falls while the process lives. *)
LEMMA CountersStep ==
    ASSUME OwnTypeOK, Bound, Phases, [Step]_ownVars
    PROVE  /\ built <= built' /\ built \in Nat /\ built' \in Nat
           /\ ~Boot => mem.next <= mem'.next /\ (exit' # "killed" => exit # "killed")
PROOF
    <1>0. built \in Nat /\ built' \in Nat
        BY TypeStep DEF OwnTypeOK, CountersTypeOK
    <1>1. built <= built'
        <2>1. ASSUME NEW w, NEW ms, NEW b, Async(w, ms, b) PROVE built' = built + 1
            BY <2>1 DEF Async, Pipes
        <2>2. CASE SyncSave \/ FinalSave \/ Boot
            BY <2>2, <1>0 DEF SyncSave, FinalSave, StartSyncSave, Boot
        <2>3. CASE SyncOp \/ WriteFile \/ Quiet \/ TakeBatch \/ TakeMessage \/ TakePending \/ Kill
            BY <2>3, <1>0 DEF SyncOp, WriteFile, Quiet, TakeBatch, TakeMessage, TakePending, Kill, Aside, ghosts
        <2> QED BY <2>1, <2>2, <2>3, <1>0, Kinds
    <1>2. ~Boot => mem.next <= mem'.next
        BY Kinds, WithinLife DEF Within
    <1>3. ~Boot /\ exit' # "killed" => exit # "killed"
        BY LastsFacts DEF Lasts
    <1> QED BY <1>0, <1>1, <1>2, <1>3

(* After a kill nothing happens until the next boot. *)
LEMMA StillKilled ==
    ASSUME OwnTypeOK, Bound, Phases, [Step]_ownVars, exit' = "killed", ~Kill
    PROVE  /\ UNCHANGED <<mainVars, chan, threadVars, ghosts>>
           /\ disk'.chat = disk.chat /\ disk'.message = disk.message
PROOF
    <1>1. exit = "killed" /\ main = "down"
        <2>1. ASSUME NEW w, NEW ms, NEW b, Async(w, ms, b) PROVE exit' = exit
            BY <2>1 DEF Async, Pipes
        <2>2. ~Boot
            BY DEF Boot
        <2>3. exit = "killed"
            BY <2>1, <2>2, Kinds
               DEF SyncSave, FinalSave, SyncOp, WriteFile, Quiet, TakeBatch, TakeMessage, TakePending, Aside, mainVars
        <2> QED BY <2>3 DEF Phases
    <1>2. UNCHANGED ownVars \/ Seize
        BY <1>1 DEF Step, OwnNext, MainNext, ThreadNext, UserMessage, BeginAssistant, FinishAssistant, ClearConversation,
                Detach, ClosePanel, SyncSave, SyncOp, Quit, Disowned, Leave, FinalSave, LeaveMain, DropWriter, Join,
                Receive, DebounceExpired, WriteFile, Written, Idle, Boot
    <1>3. Quiet
        BY <1>2, QuietSteps
    <1> QED BY <1>2, <1>3 DEF ownVars, Seize, Quiet

LEMMA BootWay ==
    ASSUME OwnTypeOK, Boot, NEW x, Way(x)'
    PROVE  \E b : NewBatch(b) /\ InSeq(x, b) /\ b = mainOps'
PROOF
    <1>1. /\ exec' = <<>> /\ batch' = <<>> /\ DOMAIN chan' = {} /\ StateOK(mem') /\ built' = built + 1
          /\ mainOps' = BuildSaveBatch(mem', built + 1, handed) /\ handed' = handed
        BY BootKnows
    <1>2. ~InSeq(x, <<>>)
        BY DEF InSeq
    <1>3. InSeq(x, mainOps')
        BY <1>1, <1>2 DEF Way, Lane
    <1> QED BY <1>1, <1>3 DEF NewBatch

LEMMA ForwardsStep ==
    ASSUME OwnTypeOK, Bound, Behind, Phases, Alone, Forwards, [Step]_ownVars
    PROVE  /\ Forwards'
           /\ CfgLe(disk.config, disk'.config)
PROOF
    <1>0. OwnTypeOK'
        BY TypeStep
    <1>t. /\ disk.config.ver \in Nat /\ disk.config.next \in Nat /\ mem.next \in Nat /\ mem'.next \in Nat
          /\ \A x : Way(x) /\ IsConfig(x) => x.val.ver \in Nat /\ x.val.next \in Nat
        <2>1. mem'.next \in Nat
            BY <1>0 DEF OwnTypeOK, MainTypeOK, StateOK
        <2> QED BY <2>1, ConfigTyped
    <1>1. /\ built <= built' /\ built \in Nat /\ built' \in Nat
          /\ ~Boot => mem.next <= mem'.next /\ (exit' # "killed" => exit # "killed")
        BY CountersStep
    <1>2. ASSUME NEW v, v.ver \in Nat, v.next \in Nat, Under(v), ~Boot PROVE Under(v)'
        BY <1>1, <1>2, <1>t DEF Under
    <1>3. CfgLe(disk.config, disk'.config) /\ (SyncOp \/ WriteFile \/ (disk'.config.ver = disk.config.ver /\ disk'.config.next = disk.config.next))
        <2>1. ASSUME NEW w, NEW ms, NEW b, Async(w, ms, b) PROVE disk'.config = disk.config
            BY <2>1 DEF Async, Forward
        <2>2. CASE SyncOp \/ WriteFile
            BY <2>2, ConfigMoves
        <2>3. CASE SyncSave \/ FinalSave \/ Quiet \/ TakeBatch \/ TakeMessage \/ TakePending \/ Kill \/ Boot
            <3>1. disk'.config.ver = disk.config.ver /\ disk'.config.next = disk.config.next
                BY <2>3 DEF SyncSave, FinalSave, Quiet, TakeBatch, TakeMessage, TakePending, Kill, Boot, Aside
            <3> QED BY <3>1, <1>t DEF CfgLe
        <2> QED BY <2>1, <2>2, <2>3, <1>t, Kinds DEF CfgLe
    <1>4. Under(disk.config)'
        <2>1. CASE Boot
            <3>1. mem'.next = disk.config.next /\ disk' = disk
                BY <2>1, BootKnows
            <3>2. disk.config.ver <= built
                BY DEF Forwards, Under
            <3> QED BY <3>1, <3>2, <1>1, <1>t DEF Under
        <2>2. CASE ~Boot /\ (SyncOp \/ WriteFile)
            <3>1. disk'.config = disk.config \/ Under(disk'.config)
                BY <2>2, ConfigMoves
            <3>2. Under(disk'.config) /\ disk'.config.ver \in Nat /\ disk'.config.next \in Nat
                <4>1. disk'.config.ver \in Nat /\ disk'.config.next \in Nat
                    BY <1>0, DiskFacts DEF OwnTypeOK, Configs
                <4> QED BY <4>1, <3>1 DEF Forwards
            <3>3. built' = built /\ mem' = mem /\ exit' = exit
                BY <2>2 DEF SyncOp, WriteFile, mainVars, ghosts
            <3> QED BY <3>2, <3>3 DEF Under
        <2>3. CASE ~Boot /\ disk'.config.ver = disk.config.ver /\ disk'.config.next = disk.config.next
            BY <2>3, <1>1, <1>t DEF Under, Forwards
        <2> QED BY <2>1, <2>2, <2>3, <1>3
    <1>5. ASSUME NEW b, NewBatch(b), NEW x, InSeq(x, b), IsConfig(x)
          PROVE  CfgLe(disk'.config, x.val) /\ Under(x.val)'
        <2>1. x.val.ver = built' /\ x.val.next = mem'.next
            BY <1>5, NewBatchFacts DEF InSeq
        <2>2. disk'.config.ver <= built' /\ disk'.config.ver \in Nat /\ disk'.config.next \in Nat
            <3>1. disk'.config.ver \in Nat /\ disk'.config.next \in Nat
                BY <1>0, DiskFacts DEF OwnTypeOK, Configs
            <3> QED BY <3>1, <1>4 DEF Under
        <2>3. exit' # "killed"
            <3>1. ~Kill
                BY <1>5, <1>1 DEF Kill, NewBatch
            <3>2. built' # built
                BY <1>5, <1>1 DEF NewBatch
            <3> QED BY <3>1, <3>2, StillKilled DEF ghosts
        <2> QED BY <2>1, <2>2, <2>3, <1>4, <1>1, <1>t DEF CfgLe, Under
    <1>6. ASSUME NEW x, Way(x)', IsConfig(x) PROVE CfgLe(disk'.config, x.val) /\ Under(x.val)'
        <2>1. x.kind # "message"
            BY <1>6 DEF IsConfig
        <2>2. Way(x) \/ \E b : NewBatch(b) /\ InSeq(x, b)
            BY <2>1, <1>6, WayStep
        <2>3. CASE \E b : NewBatch(b) /\ InSeq(x, b)
            BY <2>3, <1>5, <1>6
        <2>4. CASE Boot
            <3>1. \E b : NewBatch(b) /\ InSeq(x, b)
                BY <2>4, <1>6, BootWay
            <3> QED BY <3>1, <1>5, <1>6
        <2>5. CASE Way(x) /\ ~Boot
            <3>1. Under(x.val)'
                BY <2>5, <1>2, <1>6, <1>t DEF Forwards
            <3>2. CASE SyncOp \/ WriteFile
                BY <3>1, <3>2, <1>6, ConfigMoves
            <3>3. CASE disk'.config.ver = disk.config.ver /\ disk'.config.next = disk.config.next
                BY <3>1, <3>3, <2>5, <1>6 DEF Forwards, CfgLe
            <3> QED BY <3>2, <3>3, <1>3
        <2> QED BY <2>2, <2>3, <2>4, <2>5
    <1> QED BY <1>3, <1>4, <1>6, OrderedStep, InnerStep DEF Forwards

-----------------------------------------------------------------------------
(* The counter covers the lists *)

LEMMA EntryTyped ==
    ASSUME NEW list \in Seq(ListedMessages), NEW i \in DOMAIN list
    PROVE  /\ list[i] \in ListedMessages /\ list[i].uid \in Uids /\ list[i].uid[1] \in Nat
           /\ list[i].body \in Bodies
PROOF
    <1>1. list[i] \in ListedMessages
        OBVIOUS
    <1> QED BY <1>1 DEF ListedMessages, Uids, Numbers

LEMMA ListsTyped ==
    ASSUME NEW op \in Ops, NEW u, Lists(op, u)
    PROVE  u \in Uids /\ u[1] \in Nat /\ op.kind \in {"chat", "panel"}
PROOF
    <1>1. \A list \in Seq(ListedMessages) : \A i \in DOMAIN list : list[i].uid \in Uids
        BY EntryTyped
    <1>2. CASE op.kind = "chat"
        BY <1>1, <1>2, OpFacts DEF Lists, Uids, Numbers
    <1>3. CASE op.kind = "panel"
        <2>1. op.val \in Seq(Seq(ListedMessages)) /\ op.val # <<>>
            BY <1>3, OpFacts DEF Lists
        <2>2. op.val[1] \in Seq(ListedMessages)
            BY <2>1
        <2> QED BY <2>2, <1>1, <1>3 DEF Lists, Uids, Numbers
    <1> QED BY <1>2, <1>3 DEF Lists

(* Pending messages come in front of the batch. *)
LEMMA PendingShape ==
    ASSUME OwnTypeOK, NEW s, s = messages \o batch
    PROVE  /\ Len(messages) \in Nat /\ DOMAIN batch \subseteq Nat
           /\ \A i \in DOMAIN s : \/ i \in DOMAIN messages /\ s[i] = messages[i]
                                  \/ \E k \in DOMAIN batch : i = Len(messages) + k /\ s[i] = batch[k]
           /\ \A k \in DOMAIN batch : Len(messages) + k \in DOMAIN s /\ s[Len(messages) + k] = batch[k]
           /\ \A i \in DOMAIN messages : i \in Nat /\ i <= Len(messages) /\ i \in DOMAIN s /\ s[i] = messages[i]
           /\ \A k \in DOMAIN batch : k > 0
PROOF
    <1>1. messages \in Seq(Ops) /\ batch \in Seq(Ops)
        BY MessagesOps
    <1>2. /\ Len(messages) \in Nat /\ DOMAIN messages = 1 .. Len(messages)
          /\ Len(batch) \in Nat /\ DOMAIN batch = 1 .. Len(batch)
          /\ DOMAIN s = 1 .. Len(messages) + Len(batch)
        BY <1>1
    <1>3. /\ \A i \in 1 .. Len(messages) : s[i] = messages[i]
          /\ \A i \in 1 .. Len(batch) : s[Len(messages) + i] = batch[i]
        BY ONLY <1>1, s = messages \o batch, ConcatFacts
    <1>4. ASSUME NEW i \in DOMAIN s, i \notin DOMAIN messages
          PROVE  i - Len(messages) \in 1 .. Len(batch) /\ i = Len(messages) + (i - Len(messages))
        BY <1>2, <1>4
    <1>5. ASSUME NEW k \in DOMAIN batch PROVE Len(messages) + k \in DOMAIN s /\ k > 0
        BY <1>2
    <1>6. ASSUME NEW i \in DOMAIN messages PROVE i \in DOMAIN s /\ i \in Nat /\ i <= Len(messages)
        BY <1>2
    <1>7. \A i \in DOMAIN s : \/ i \in DOMAIN messages /\ s[i] = messages[i]
                              \/ \E k \in DOMAIN batch : i = Len(messages) + k /\ s[i] = batch[k]
        <2> SUFFICES ASSUME NEW i \in DOMAIN s, i \notin DOMAIN messages
                     PROVE  \E k \in DOMAIN batch : i = Len(messages) + k /\ s[i] = batch[k]
            BY <1>2, <1>3
        <2>1. i - Len(messages) \in 1 .. Len(batch) /\ i = Len(messages) + (i - Len(messages))
            BY <1>4
        <2>2. s[i] = batch[i - Len(messages)]
            BY <2>1, <1>3
        <2> QED BY <2>1, <2>2, <1>2
    <1> QED BY <1>2, <1>3, <1>5, <1>6, <1>7

LEMMA CoveredStep ==
    ASSUME OwnTypeOK, Bound, Behind, Phases, Alone, Forwards, Covers, [Step]_ownVars,
           exit' # "killed" => Fresh', NEW s, Lane(s)'
    PROVE  Covered(s, disk'.config.next)
PROOF
    <1> DEFINE n == disk.config.next  m == disk'.config.next
    <1>1. n \in Nat /\ m \in Nat /\ n <= m
        <2>1. m \in Nat
            BY TypeStep, DiskFacts DEF OwnTypeOK, Configs
        <2> QED BY <2>1, ConfigTyped, ForwardsStep DEF CfgLe
    <1>2. \A t : Lane(t) => Covered(t, n) /\ t \in Seq(Ops)
        BY LaneTyped DEF Covers
    <1> HIDE DEF n, m
    <1>3. CASE Lane(s)
        <2> SUFFICES ASSUME NEW k \in DOMAIN s, NEW u, Lists(s[k], u),
                            ~\E j \in DOMAIN s : j < k /\ IsConfig(s[j]) /\ u[1] < s[j].val.next
                     PROVE  u[1] < m
            BY DEF Covered, m
        <2>1. u[1] < n
            BY <1>2, <1>3 DEF Covered
        <2>2. u[1] \in Nat
            <3>1. s[k] \in Ops
                BY <1>2, <1>3
            <3> QED BY <3>1, ListsTyped
        <2> QED BY <2>1, <2>2, <1>1
    <1>4. CASE FilesOnly(s)
        BY <1>4 DEF FilesOnly, Covered, Lists
    <1>5. CASE NewBatch(s)
        <2>1. /\ 1 \in DOMAIN s /\ DOMAIN s \subseteq Nat \ {0} /\ IsConfig(s[1]) /\ s[1].val.next = mem'.next
              /\ \A k \in DOMAIN s : \A u : Lists(s[k], u) => \E c : InChat(u, c)' \/ InHistory(u, c)'
            BY <1>5, NewBatchFacts
        <2>2. exit' # "killed"
            <3>1. built' # built
                BY <1>5, CountersStep DEF NewBatch
            <3> QED BY <3>1, StillKilled DEF ghosts, Kill
        <2>3. \A k \in DOMAIN s : \A u : Lists(s[k], u) => u[1] < mem'.next /\ k # 1
            BY <2>1, <2>2 DEF Fresh, Knows, Lists, IsConfig
        <2> QED BY <2>1, <2>3 DEF Covered
    <1>6. ASSUME NEW t, Lane(t), t # <<>>, s = Tail(t), disk' = Apply(disk, Head(t)) PROVE Covered(s, m)
        <2>1. t \in Seq(Ops) /\ Covered(t, n)
            BY <1>6, <1>2
        <2>2. /\ 1 \in DOMAIN t /\ t[1] = Head(t) /\ t[1] \in Ops
              /\ \A i \in DOMAIN s : i \in Nat /\ i + 1 \in DOMAIN t /\ s[i] = t[i + 1]
              /\ \A j \in DOMAIN t : j \in Nat /\ (j # 1 => j - 1 \in DOMAIN s /\ s[j - 1] = t[j])
            BY <2>1, <1>6, PopShape
        <2>3. IsConfig(t[1]) => m = t[1].val.next
            BY <2>2, <1>6, MessagesOps, ApplyFacts DEF IsConfig, m
        <2> SUFFICES ASSUME NEW k \in DOMAIN s, NEW u, Lists(s[k], u)
                     PROVE  u[1] < m \/ \E j \in DOMAIN s : j < k /\ IsConfig(s[j]) /\ u[1] < s[j].val.next
            BY DEF Covered
        <2>4. u[1] \in Nat
            <3>1. s[k] \in Ops
                BY <2>1, <2>2
            <3> QED BY <3>1, ListsTyped
        <2>5. u[1] < n \/ \E j \in DOMAIN t : j < k + 1 /\ IsConfig(t[j]) /\ u[1] < t[j].val.next
            BY <2>1, <2>2 DEF Covered
        <2>6. CASE u[1] < n
            BY <2>6, <2>4, <1>1
        <2>7. ASSUME NEW j \in DOMAIN t, j < k + 1, IsConfig(t[j]), u[1] < t[j].val.next
              PROVE  u[1] < m \/ \E i \in DOMAIN s : i < k /\ IsConfig(s[i]) /\ u[1] < s[i].val.next
            <3>1. CASE j = 1
                BY <3>1, <2>3, <2>7
            <3>2. CASE j # 1
                <4>1. j - 1 \in DOMAIN s /\ s[j - 1] = t[j] /\ j - 1 < k
                    BY <3>2, <2>2, <2>7
                <4> QED BY <4>1, <2>7
            <3> QED BY <3>1, <3>2
        <2> QED BY <2>5, <2>6, <2>7
    <1>7. CASE s = messages \o batch
        <2>1. Covered(batch, n) /\ batch \in Seq(Ops)
            BY <1>2 DEF Lane
        <2>2. /\ Len(messages) \in Nat /\ DOMAIN batch \subseteq Nat
              /\ \A i \in DOMAIN s : \/ i \in DOMAIN messages /\ s[i] = messages[i]
                                     \/ \E k \in DOMAIN batch : i = Len(messages) + k /\ s[i] = batch[k]
              /\ \A k \in DOMAIN batch : Len(messages) + k \in DOMAIN s /\ s[Len(messages) + k] = batch[k]
            BY <1>7, PendingShape
        <2> SUFFICES ASSUME NEW i \in DOMAIN s, NEW u, Lists(s[i], u)
                     PROVE  u[1] < m \/ \E j \in DOMAIN s : j < i /\ IsConfig(s[j]) /\ u[1] < s[j].val.next
            BY DEF Covered, m
        <2>3. PICK k \in DOMAIN batch : i = Len(messages) + k /\ s[i] = batch[k]
            BY <2>2 DEF Lists, Behind
        <2>4. u[1] \in Nat
            <3>1. batch[k] \in Ops
                BY <2>1
            <3> QED BY <3>1, <2>3, ListsTyped
        <2>5. CASE u[1] < n
            BY <2>5, <2>4, <1>1
        <2>6. ASSUME NEW j \in DOMAIN batch, j < k, IsConfig(batch[j]), u[1] < batch[j].val.next
              PROVE  \E h \in DOMAIN s : h < i /\ IsConfig(s[h]) /\ u[1] < s[h].val.next
            <3>1. Len(messages) + j < i
                BY <2>2, <2>3, <2>6
            <3> QED BY <3>1, <2>2, <2>6
        <2> QED BY <2>1, <2>3, <2>5, <2>6 DEF Covered
    <1> QED BY <1>3, <1>4, <1>5, <1>6, <1>7, LaneStep DEF Derived, m

(* The operation that a thread writes is the first of one of its lanes. *)
LEMMA WritesFirst ==
    ASSUME OwnTypeOK, SyncOp \/ WriteFile
    PROVE  \E s : /\ Lane(s) /\ s \in Seq(Ops) /\ s # <<>> /\ 1 \in DOMAIN s /\ s[1] \in Ops /\ Way(s[1])
                  /\ disk' = Apply(disk, s[1])
                  /\ (SyncOp /\ s = mainOps) \/ (WriteFile /\ s = exec)
PROOF
    <1>1. ASSUME NEW s, Lane(s), s # <<>>, disk' = Apply(disk, Head(s))
          PROVE  /\ s \in Seq(Ops) /\ 1 \in DOMAIN s /\ s[1] \in Ops /\ Way(s[1]) /\ disk' = Apply(disk, s[1])
        <2>1. s \in Seq(Ops)
            BY <1>1, LaneTyped
        <2>2. 1 \in DOMAIN s /\ s[1] = Head(s) /\ s[1] \in Ops
            BY <2>1, <1>1, PopShape
        <2> QED BY <2>1, <2>2, <1>1 DEF Way, InSeq
    <1>2. CASE SyncOp
        BY <1>1, <1>2 DEF SyncOp, Lane
    <1>3. CASE WriteFile
        BY <1>1, <1>3 DEF WriteFile, Lane
    <1> QED BY <1>2, <1>3

LEMMA SameLists ==
    ASSUME OwnTypeOK, Bound, Phases, [Step]_ownVars, ~SyncOp, ~WriteFile
    PROVE  disk'.chat = disk.chat /\ disk'.panel = disk.panel
PROOF
    <1>1. ASSUME NEW w, NEW ms, NEW b, Async(w, ms, b) PROVE disk'.chat = disk.chat /\ disk'.panel = disk.panel
        BY <1>1 DEF Async, Forward
    <1> QED BY <1>1, Kinds
            DEF SyncSave, FinalSave, Quiet, TakeBatch, TakeMessage, TakePending, Kill, Boot, Aside

LEMMA CoversStep ==
    ASSUME OwnTypeOK, Bound, Behind, Phases, Alone, Forwards, Covers, [Step]_ownVars, exit' # "killed" => Fresh'
    PROVE  Covers'
PROOF
    <1> DEFINE n == disk.config.next  m == disk'.config.next
    <1>1. n \in Nat /\ m \in Nat /\ n <= m
        <2>1. m \in Nat
            BY TypeStep, DiskFacts DEF OwnTypeOK, Configs
        <2> QED BY <2>1, ConfigTyped, ForwardsStep DEF CfgLe
    <1>2. \A s : Lane(s)' => Covered(s, m)
        BY CoveredStep
    <1> HIDE DEF n, m
    <1>3. \A list \in Seq(ListedMessages) : \A i \in DOMAIN list : list[i].uid[1] \in Nat
        BY EntryTyped
    <1>4. disk.chat \in Seq(ListedMessages) /\ \A p \in Numbers : disk.panel[p] \in Seq(Seq(ListedMessages))
        BY MessagesOps, DiskFacts
    <1>5. /\ \A i \in DOMAIN disk.chat : disk.chat[i].uid[1] < m
          /\ \A p \in Numbers : disk.panel[p] # <<>> =>
                 \A i \in DOMAIN disk.panel[p][1] : disk.panel[p][1][i].uid[1] < m
        <2>1. \A i \in DOMAIN disk.chat : disk.chat[i].uid[1] < n /\ disk.chat[i].uid[1] \in Nat
            BY <1>3, <1>4 DEF Covers, DiskCovered, n
        <2>2. ASSUME NEW p \in Numbers, disk.panel[p] # <<>>, NEW i \in DOMAIN disk.panel[p][1]
              PROVE  disk.panel[p][1][i].uid[1] < n /\ disk.panel[p][1][i].uid[1] \in Nat
            <3>1. disk.panel[p][1] \in Seq(ListedMessages)
                BY <2>2, <1>4
            <3> QED BY <3>1, <2>2, <1>3 DEF Covers, DiskCovered, n
        <2> QED BY <2>1, <2>2, <1>1
    <1>6. CASE ~SyncOp /\ ~WriteFile
        BY <1>2, <1>5, <1>6, SameLists DEF Covers, DiskCovered, m
    <1>7. CASE SyncOp \/ WriteFile
        <2>1. PICK s : /\ Lane(s) /\ s \in Seq(Ops) /\ 1 \in DOMAIN s /\ s[1] \in Ops /\ disk' = Apply(disk, s[1])
            BY <1>7, WritesFirst
        <2>2. \A u : Lists(s[1], u) => u[1] < m /\ s[1].kind \in {"chat", "panel"}
            <3> SUFFICES ASSUME NEW u, Lists(s[1], u) PROVE u[1] < m /\ s[1].kind \in {"chat", "panel"}
                OBVIOUS
            <3>1. u[1] \in Nat /\ s[1].kind \in {"chat", "panel"}
                BY <2>1, ListsTyped
            <3>2. DOMAIN s \subseteq Nat \ {0}
                BY <2>1
            <3>3. u[1] < n
                BY <2>1, <3>2 DEF Covers, Covered, n
            <3> QED BY <3>1, <3>3, <1>1
        <2>3. /\ disk'.chat = IF s[1].kind = "chat" THEN s[1].val ELSE disk.chat
              /\ \A p \in Numbers : disk'.panel[p] =
                     IF s[1].kind = "panel" /\ s[1].uid = p THEN s[1].val ELSE disk.panel[p]
            BY <2>1, MessagesOps, ApplyFacts
        <2>4. \A i \in DOMAIN disk'.chat : disk'.chat[i].uid[1] < m
            BY <2>2, <2>3, <1>5 DEF Lists
        <2>5. \A p \in Numbers : disk'.panel[p] # <<>> =>
                  \A i \in DOMAIN disk'.panel[p][1] : disk'.panel[p][1][i].uid[1] < m
            BY <2>2, <2>3, <1>5 DEF Lists
        <2> QED BY <2>4, <2>5, <1>2 DEF Covers, DiskCovered, m
    <1> QED BY <1>6, <1>7

-----------------------------------------------------------------------------
(* What a list names as handed over keeps its uid *)

LEMMA HoldsKeeps ==
    ASSUME OwnTypeOK, OwnTypeOK', NEW w, Within(w), NEW u, NEW b, u[1] \in Nat, Holds(u, b)
    PROVE  Holds(u, b)'
PROOF
    <1>1. mem.next \in Nat /\ mem'.next \in Nat
        BY DEF OwnTypeOK, MainTypeOK, StateOK
    <1>2. u[1] < mem'.next
        BY <1>1 DEF Within, Holds
    <1>3. \A c : ~New(w, u, c)
        BY <1>1 DEF Within, New, Holds
    <1> QED BY <1>2, <1>3 DEF Within, Learns, Holds

LEMMA AgreesKeeps ==
    ASSUME OwnTypeOK, Bound, Phases, [Step]_ownVars, ~Boot, NEW list \in Seq(ListedMessages), Agrees(list)
    PROVE  Agrees(list)'
PROOF
    <1> SUFFICES ASSUME exit' # "killed", NEW i \in DOMAIN list, Wanted(list[i])'
                 PROVE  Holds(list[i].uid, list[i].body)'
        BY DEF Agrees
    <1>1. exit # "killed"
        BY CountersStep
    <1>2. PICK w : Within(w)
        BY Kinds, WithinLife
    <1>3. Wanted(list[i])
        BY <1>2 DEF Within, Wanted
    <1> QED BY <1>1, <1>2, <1>3, HoldsKeeps, EntryTyped, TypeStep DEF Agrees

(* The list of a new batch. *)
LEMMA AgreesNew ==
    ASSUME OwnTypeOK', Fresh', NEW list, list = Listed(mem'.chat, handed')
    PROVE  /\ Agrees(list)'
           /\ \A i \in DOMAIN list : /\ InChat(list[i].uid, list[i].body)'
                                     /\ list[i].handed => list[i].body \in handed'
PROOF
    <1>1. mem'.chat \in Seq(Messages)
        BY DEF OwnTypeOK, MainTypeOK, StateOK
    <1>2. /\ DOMAIN list = DOMAIN mem'.chat
          /\ \A i \in DOMAIN mem'.chat : /\ list[i].uid = mem'.chat[i].uid /\ list[i].body = mem'.chat[i].body
                                         /\ list[i].handed = (mem'.chat[i].body \in handed')
        BY <1>1, ListedFacts
    <1>3. \A i \in DOMAIN list : InChat(list[i].uid, list[i].body)'
        BY <1>2 DEF InChat
    <1>4. \A i \in DOMAIN list : Knows(list[i].uid, list[i].body)'
        BY <1>3 DEF Knows
    <1>5. Distinct(list)
        BY <1>2 DEF Fresh, Distinct
    <1>6. \A i \in DOMAIN list : Holds(list[i].uid, list[i].body)'
        BY <1>4 DEF Fresh, Holds
    <1> QED BY <1>2, <1>3, <1>5, <1>6 DEF Agrees

LEMMA ListingsStep ==
    ASSUME OwnTypeOK, Bound, Behind, Phases, Covers, Listings, InTime, [Step]_ownVars, exit' # "killed" => Fresh'
    PROVE  Listings'
PROOF
    <1>0. OwnTypeOK' /\ disk.chat \in Seq(ListedMessages) /\ \A x \in Ops : x.kind = "chat" => x.val \in Seq(ListedMessages)
        BY TypeStep, MessagesOps, DiskFacts, OpFacts
    <1>1. ASSUME NEW b, NewBatch(b), NEW x, InSeq(x, b), x.kind = "chat" PROVE Agrees(x.val)'
        <2>1. exit' # "killed"
            <3>1. built' # built
                BY <1>1, CountersStep DEF NewBatch
            <3> QED BY <3>1, StillKilled DEF ghosts, Kill
        <2>2. x.val = Listed(mem'.chat, handed')
            BY <1>1, NewBatchFacts DEF InSeq
        <2> QED BY <2>1, <2>2, <1>0, AgreesNew
    <1>2. CASE Boot
        <2>1. /\ \A u, c : Knows(u, c)' => Stored(u, c)
              /\ mem'.next = disk.config.next /\ disk' = disk /\ removed' = removed
            BY <1>2, BootKnows
        <2>2. ASSUME NEW i \in DOMAIN disk.chat, Wanted(disk.chat[i])
              PROVE  Holds(disk.chat[i].uid, disk.chat[i].body)'
            <3>1. Stored(disk.chat[i].uid, disk.chat[i].body)
                BY <2>2 DEF InTime, Names
            <3>2. disk.chat[i].uid[1] < mem'.next
                BY <2>1 DEF Covers, DiskCovered
            <3>3. disk'.chat[i] = disk.chat[i]
                BY <2>1
            <3>4. \A u, c : Knows(u, c)' /\ u = disk.chat[i].uid => c = disk.chat[i].body
                BY <3>1, <2>1 DEF Stored
            <3> QED BY <3>2, <3>3, <3>4 DEF Holds
        <2>3. Agrees(disk.chat)'
            <3>1. Distinct(disk'.chat)
                BY <2>1 DEF Listings, Agrees
            <3>2. ASSUME NEW i \in DOMAIN disk.chat, Wanted(disk.chat[i])' PROVE Holds(disk.chat[i].uid, disk.chat[i].body)'
                <4>1. Wanted(disk.chat[i])
                    BY <3>2, <2>1 DEF Wanted
                <4> QED BY <4>1, <2>2
            <3> QED BY <3>1, <3>2, <2>1 DEF Agrees
        <2>4. ASSUME NEW x, Way(x)', x.kind = "chat" PROVE Agrees(x.val)'
            BY <2>4, <1>1, <1>2, BootWay
        <2> QED BY <2>3, <2>4 DEF Listings
    <1>3. CASE ~Boot
        <2>1. ASSUME NEW x, Way(x), x.kind = "chat" PROVE Agrees(x.val)'
            <3>1. x.val \in Seq(ListedMessages)
                BY <2>1, <1>0, ConfigTyped
            <3> QED BY <3>1, <2>1, <1>3, AgreesKeeps DEF Listings
        <2>2. \A x : Way(x)' /\ x.kind = "chat" => Agrees(x.val)'
            BY <2>1, <1>1, WayStep
        <2>3. \A list : list = disk.chat => Agrees(list)'
            BY <1>0, <1>3, AgreesKeeps DEF Listings
        <2>4. \A list : list = disk'.chat => Agrees(list)'
            <3>1. CASE SyncOp \/ WriteFile
                <4>1. PICK s : /\ s[1] \in Ops /\ Way(s[1]) /\ disk' = Apply(disk, s[1])
                    BY <3>1, WritesFirst
                <4>2. disk'.chat = IF s[1].kind = "chat" THEN s[1].val ELSE disk.chat
                    BY <4>1, MessagesOps, ApplyFacts
                <4> QED BY <4>1, <4>2, <2>1, <2>3
            <3>2. CASE ~SyncOp /\ ~WriteFile
                BY <3>2, <2>3, SameLists
            <3> QED BY <3>1, <3>2
        <2>5. Agrees(disk.chat)'
            BY <2>4 DEF Agrees
        <2> QED BY <2>2, <2>5 DEF Listings
    <1> QED BY <1>2, <1>3

-----------------------------------------------------------------------------
(* The messages a list names arrive before it *)

LEMMA StoredKeeps ==
    ASSUME OwnTypeOK, Bound, Phases, [Step]_ownVars, Lasts, NEW u, NEW b,
           Holds(u, b), u[1] \in Nat, Stored(u, b), b \notin removed'
    PROVE  Stored(u, b)'
PROOF
    <1>1. ASSUME NEW w, NEW ms, NEW q, Async(w, ms, q) PROVE Stored(u, b)'
        <2>1. FileStep(w) /\ w[1] = mem.next /\ mem.next \in Nat /\ u \in Uids
            BY <1>1, ChatElements DEF Async, Stored
        <2>2. u # w
            BY <2>1 DEF Holds
        <2>3. \A c : InChat(u, c) => c = b
            BY DEF Holds, Knows
        <2>4. disk'.message[u] = disk.message[u]
            BY <2>1, <2>2, <2>3 DEF FileStep
        <2> QED BY <2>4 DEF Stored
    <1>2. CASE SyncOp \/ WriteFile
        <2>1. PICK s : /\ 1 \in DOMAIN s /\ s[1] \in Ops /\ disk' = Apply(disk, s[1]) /\ (s = mainOps \/ s = exec)
            BY <1>2, WritesFirst
        <2>2. s[1].kind = "message" /\ s[1].uid = u => s[1].val = b
            BY <2>1 DEF Holds, Knows, Queued, FileOp
        <2>3. disk'.message[u] = IF s[1].kind = "message" /\ s[1].uid = u THEN s[1].val ELSE disk.message[u]
            BY <2>1, MessagesOps, ApplyFacts DEF Stored
        <2> QED BY <2>2, <2>3 DEF Stored
    <1>3. CASE SyncSave \/ FinalSave \/ Quiet \/ TakeBatch \/ TakeMessage \/ TakePending
        <2>1. disk'.message = disk.message
            BY <1>3 DEF SyncSave, FinalSave, Quiet, TakeBatch, TakeMessage, TakePending, Aside
        <2> QED BY <2>1 DEF Stored
    <1> QED BY <1>1, <1>2, <1>3, LastsFacts

LEMMA ListedKeeps ==
    ASSUME OwnTypeOK, Bound, Phases, Listings, [Step]_ownVars, Lasts, NEW list,
           list = disk.chat \/ \E x : Way(x) /\ x.kind = "chat" /\ list = x.val,
           NEW i \in DOMAIN list, Wanted(list[i])'
    PROVE  /\ Wanted(list[i])
           /\ Stored(list[i].uid, list[i].body) => Stored(list[i].uid, list[i].body)'
PROOF
    <1>1. list \in Seq(ListedMessages)
        BY MessagesOps, DiskFacts, OpFacts, ConfigTyped
    <1>2. Agrees(list)
        BY DEF Listings
    <1>3. exit # "killed"
        BY LastsFacts
    <1>4. PICK w : Within(w)
        BY LastsFacts, WithinLife
    <1>5. Wanted(list[i]) /\ list[i].body \notin removed'
        BY <1>4 DEF Within, Wanted
    <1>6. Holds(list[i].uid, list[i].body)
        BY <1>2, <1>3, <1>5 DEF Agrees
    <1> QED BY <1>1, <1>5, <1>6, StoredKeeps, EntryTyped

LEMMA WrittenFirst ==
    ASSUME OwnTypeOK, WriteFile, NEW u, NEW b
    PROVE  /\ FileOp(exec, u, b) => FileOp(exec', u, b) \/ Stored(u, b)'
           /\ \A k \in DOMAIN exec' :
                  /\ k \in Nat /\ k + 1 \in DOMAIN exec /\ exec'[k] = exec[k + 1]
                  /\ Early(exec, k + 1, u, b) => Early(exec', k, u, b) \/ Stored(u, b)'
PROOF
    <1>1. exec # <<>> /\ exec' = Tail(exec) /\ disk' = Apply(disk, Head(exec))
        BY DEF WriteFile
    <1>2. /\ Head(exec) = exec[1] /\ exec[1] \in Ops /\ 1 \in DOMAIN exec
          /\ \A i \in DOMAIN exec' : i \in Nat /\ i + 1 \in DOMAIN exec /\ exec'[i] = exec[i + 1]
          /\ \A j \in DOMAIN exec : j \in Nat /\ (j # 1 => j - 1 \in DOMAIN exec' /\ exec'[j - 1] = exec[j])
        <2>1. exec \in Seq(Ops)
            BY MessagesOps
        <2> QED BY ONLY <2>1, <1>1, PopShape
    <1>3. ASSUME exec[1].kind = "message", exec[1].uid = u, exec[1].val = b PROVE Stored(u, b)'
        BY <1>3, <1>1, <1>2, OpFacts, MessagesOps, ApplyFacts DEF Stored
    <1>4. FileOp(exec, u, b) => FileOp(exec', u, b) \/ Stored(u, b)'
        BY <1>3, <1>2 DEF FileOp
    <1>5. ASSUME NEW k \in DOMAIN exec', Early(exec, k + 1, u, b) PROVE Early(exec', k, u, b) \/ Stored(u, b)'
        <2>1. PICK j \in DOMAIN exec : j < k + 1 /\ exec[j].kind = "message" /\ exec[j].uid = u /\ exec[j].val = b
            BY <1>5 DEF Early
        <2>2. CASE j = 1
            BY <2>1, <2>2, <1>3
        <2>3. CASE j # 1
            <3>1. j - 1 \in DOMAIN exec' /\ exec'[j - 1] = exec[j] /\ j - 1 < k
                BY <2>1, <2>3, <1>2
            <3> QED BY <3>1, <2>1 DEF Early
        <2> QED BY <2>2, <2>3
    <1> QED BY <1>2, <1>4, <1>5

(* Work is added behind, or the first file is written. *)
LEMMA DueStays ==
    ASSUME OwnTypeOK, NEW u, NEW b, NEW n, Stored(u, b) => Stored(u, b)', Due(u, b, n),
           \/ \E w, ms, q : Async(w, ms, q)
           \/ SyncSave \/ FinalSave \/ SyncOp \/ WriteFile \/ Quiet
    PROVE  Due(u, b, n)'
PROOF
    <1>1. \A i \in DOMAIN chan : i \in DOMAIN chan' /\ chan'[i] = chan[i]
        <2>1. ASSUME NEW w, NEW ms, NEW q, Async(w, ms, q)
              PROVE  \A i \in DOMAIN chan : i \in DOMAIN chan' /\ chan'[i] = chan[i]
            <3>1. PICK k, l : Shape(k, l, ms, q)
                BY <2>1, SendsShape
            <3> QED BY <3>1 DEF Shape
        <2>2. CASE SyncSave \/ FinalSave \/ SyncOp \/ WriteFile
            BY <2>2 DEF SyncSave, FinalSave, SyncOp, WriteFile
        <2>3. CASE Quiet
            <3>1. ASSUME NEW x \in WriterMsgs, chan' = Append(chan, x)
                  PROVE  \A i \in DOMAIN chan : i \in DOMAIN chan' /\ chan'[i] = chan[i]
                BY <3>1, MessagesOps, PushShape
            <3> QED BY <3>1, <2>3 DEF Quiet
        <2> QED BY <2>1, <2>2, <2>3
    <1>2. Sent(u, b, n) => Sent(u, b, n)'
        BY <1>1 DEF Sent
    <1>3. messages' = messages
        <2>1. ASSUME NEW w, NEW ms, NEW q, Async(w, ms, q) PROVE messages' = messages
            BY <2>1 DEF Async, Pipes, threadVars
        <2> QED BY <2>1 DEF SyncSave, FinalSave, SyncOp, WriteFile, Quiet, threadVars
    <1>4. FileOp(exec, u, b) => FileOp(exec', u, b) \/ Stored(u, b)'
        <2>1. ASSUME NEW w, NEW ms, NEW q, Async(w, ms, q) PROVE exec' = exec
            BY <2>1 DEF Async, Pipes, threadVars
        <2>2. CASE SyncSave \/ FinalSave \/ SyncOp \/ Quiet
            BY <2>2 DEF SyncSave, FinalSave, SyncOp, Quiet, threadVars
        <2>3. CASE WriteFile
            BY <2>3, WrittenFirst
        <2> QED BY <2>1, <2>2, <2>3
    <1> QED BY <1>2, <1>3, <1>4 DEF Due

(* The thread takes the first item. *)
LEMMA DuePops ==
    ASSUME OwnTypeOK, NEW u, NEW b, NEW n \in Nat, Due(u, b, n + 1), chan # <<>>, chan' = Tail(chan),
           TakeBatch \/ TakeMessage \/ TakePending
    PROVE  Due(u, b, n)'
PROOF
    <1>1. /\ 1 \in DOMAIN chan /\ chan[1] = Head(chan)
          /\ \A j \in DOMAIN chan : j \in Nat /\ (j # 1 => j - 1 \in DOMAIN chan' /\ chan'[j - 1] = chan[j])
        BY PopChan
    <1>2. Sent(u, b, n + 1) => Sent(u, b, n)' \/ (Head(chan).kind = "message" /\ FileOp(Head(chan).ops, u, b))
        <2> SUFFICES ASSUME NEW j \in DOMAIN chan, j <= n + 1, chan[j].kind = "message", FileOp(chan[j].ops, u, b),
                            j # 1
                     PROVE  Sent(u, b, n)'
            BY <1>1 DEF Sent
        <2>1. j - 1 \in DOMAIN chan' /\ chan'[j - 1] = chan[j] /\ j - 1 <= n
            BY <1>1
        <2> QED BY <2>1 DEF Sent
    <1>3. Stored(u, b) => Stored(u, b)'
        <2>1. disk' = disk
            BY DEF TakeBatch, TakeMessage, TakePending, Aside
        <2> QED BY <2>1 DEF Stored
    <1>4. CASE TakeBatch
        <2>1. Head(chan).kind = "batch" /\ UNCHANGED <<exec, messages>>
            BY <1>4 DEF TakeBatch
        <2> QED BY <2>1, <1>2, <1>3 DEF Due
    <1>5. CASE TakeMessage
        <2>1. messages' = messages \o Head(chan).ops /\ exec' = exec
            BY <1>5 DEF TakeMessage
        <2>2. FileOp(messages', u, b) <=> FileOp(messages, u, b) \/ FileOp(Head(chan).ops, u, b)
            <3>1. Head(chan).ops \in Seq(Ops) /\ messages \in Seq(Ops)
                BY <1>1, MessagesOps
            <3> QED BY <3>1, <2>1, FileOps
        <2> QED BY <2>1, <2>2, <1>2, <1>3 DEF Due
    <1>6. CASE TakePending
        <2>1. exec = <<>> /\ exec' = messages \o batch /\ Head(chan).kind # "message"
            <3>1. chan' # chan \/ chan # <<>>
                OBVIOUS
            <3> QED BY <1>6 DEF TakePending, Idle
        <2>2. FileOp(messages, u, b) \/ FileOp(exec, u, b) => FileOp(exec', u, b)
            BY <2>1, MessagesOps, FileOps
        <2> QED BY <2>1, <2>2, <1>2, <1>3 DEF Due
    <1> QED BY <1>4, <1>5, <1>6

LEMMA NamesKeeps ==
    ASSUME OwnTypeOK, Bound, Phases, Listings, [Step]_ownVars, Lasts, NEW list,
           list = disk.chat \/ \E x : Way(x) /\ x.kind = "chat" /\ list = x.val,
           NEW u, NEW b, Names(list, u, b)'
    PROVE  Names(list, u, b) /\ (Stored(u, b) => Stored(u, b)')
PROOF
    <1>1. PICK i \in DOMAIN list : Wanted(list[i])' /\ list[i].uid = u /\ list[i].body = b
        BY DEF Names
    <1>2. Wanted(list[i]) /\ (Stored(list[i].uid, list[i].body) => Stored(list[i].uid, list[i].body)')
        BY <1>1, ListedKeeps
    <1> QED BY <1>1, <1>2 DEF Names

LEMMA AsksKeeps ==
    ASSUME OwnTypeOK, Bound, Phases, Listings, [Step]_ownVars, Lasts, NEW x, Way(x), NEW u, NEW b, Asks(x, u, b)'
    PROVE  Asks(x, u, b) /\ (Stored(u, b) => Stored(u, b)')
PROOF
    <1>1. x.kind = "chat" /\ Names(x.val, u, b)'
        BY DEF Asks
    <1>2. Names(x.val, u, b) /\ (Stored(u, b) => Stored(u, b)')
        BY <1>1, NamesKeeps
    <1> QED BY <1>1, <1>2 DEF Asks

LEMMA LaneWays ==
    /\ \A x : InSeq(x, exec) \/ InSeq(x, batch) \/ InSeq(x, mainOps) => Way(x)
    /\ \A n \in DOMAIN chan : \A x : InSeq(x, chan[n].ops) => Way(x)
PROOF BY DEF Way, Lane

(* The list of a new batch names messages that are on their way. *)
LEMMA AsksNew ==
    ASSUME OwnTypeOK, OwnTypeOK', Fresh', Arrives', NEW s, NewBatch(s), NEW x, InSeq(x, s),
           NEW u, NEW b, Asks(x, u, b)'
    PROVE  InChat(u, b)' /\ Due(u, b, Len(chan))'
PROOF
    <1>1. x.kind = "chat" /\ Names(x.val, u, b)'
        BY DEF Asks
    <1>2. x.val = Listed(mem'.chat, handed')
        BY <1>1, NewBatchFacts DEF InSeq
    <1>3. PICK i \in DOMAIN x.val : Wanted(x.val[i])' /\ x.val[i].uid = u /\ x.val[i].body = b
        BY <1>1 DEF Names
    <1>4. InChat(u, b)' /\ b \in handed'
        <2>1. x.val[i].handed
            BY <1>3 DEF Wanted
        <2> QED BY <2>1, <1>2, <1>3, AgreesNew
    <1>5. PICK j \in DOMAIN mem'.chat : mem'.chat[j].uid = u /\ mem'.chat[j].body = b
        BY <1>4 DEF InChat
    <1>6. Due(mem.chat[j].uid, mem.chat[j].body, Len(chan))'
        BY <1>4, <1>5 DEF Arrives
    <1>7. Due(u, b, Len(chan))'
        BY <1>5, <1>6
    <1> QED BY <1>4, <1>7

LEMMA InTimeMainStep ==
    ASSUME OwnTypeOK, Bound, Behind, Phases, Listings, InTime, [Step]_ownVars, Lasts, Alone', Fresh', Arrives',
           NEW x, InSeq(x, mainOps'), NEW u, NEW b, Asks(x, u, b)'
    PROVE  Stored(u, b)'
PROOF
    <1>0. OwnTypeOK'
        BY TypeStep
    <1>1. ASSUME InSeq(x, mainOps) PROVE Stored(u, b)'
        <2>1. Asks(x, u, b) /\ (Stored(u, b) => Stored(u, b)')
            BY <1>1, LaneWays, AsksKeeps
        <2> QED BY <2>1, <1>1 DEF InTime
    <1>2. CASE SyncSave \/ FinalSave
        <2>1. NewBatch(mainOps')
            BY <1>2, <1>0 DEF NewBatch, SyncSave, FinalSave, StartSyncSave, OwnTypeOK, MainTypeOK
        <2>2. Due(u, b, Len(chan))'
            BY <2>1, <1>0, AsksNew
        <2>3. Calm'
            <3>1. mainOps' # <<>>
                BY DEF InSeq
            <3> QED BY <3>1 DEF Alone
        <2>4. ~FileOp(exec, u, b)' /\ ~FileOp(messages, u, b)' /\ ~Sent(u, b, Len(chan))'
            BY <2>3 DEF Calm, FileOp, Sent, IsWork
        <2> QED BY <2>2, <2>4 DEF Due
    <1>3. CASE SyncOp
        <2>1. mainOps \in Seq(Ops) /\ mainOps # <<>> /\ mainOps' = Tail(mainOps)
            BY <1>3, MessagesOps DEF SyncOp
        <2>2. \A i \in DOMAIN mainOps' : i + 1 \in DOMAIN mainOps /\ mainOps'[i] = mainOps[i + 1]
            BY <2>1, PopShape
        <2> QED BY <2>2, <1>1 DEF InSeq
    <1>4. ASSUME mainOps' = mainOps PROVE Stored(u, b)'
        BY <1>4, <1>1
    <1>5. ASSUME NEW w, NEW ms, NEW q, Async(w, ms, q) PROVE mainOps' = mainOps
        BY <1>5 DEF Async, Pipes
    <1> QED BY <1>2, <1>3, <1>4, <1>5, LastsFacts
            DEF WriteFile, Quiet, TakeBatch, TakeMessage, TakePending, Aside, mainVars

LEMMA InTimeDiskStep ==
    ASSUME OwnTypeOK, Bound, Behind, Phases, Listings, InTime, [Step]_ownVars, Lasts,
           NEW list, list = disk'.chat, NEW u, NEW b, Names(list, u, b)'
    PROVE  Stored(u, b)'
PROOF
    <1>1. CASE list = disk.chat
        <2>1. Names(list, u, b) /\ (Stored(u, b) => Stored(u, b)')
            BY <1>1, NamesKeeps
        <2> QED BY <2>1, <1>1 DEF InTime
    <1>2. CASE list # disk.chat
        <2>1. SyncOp \/ WriteFile
            BY <1>2, SameLists
        <2>2. PICK s : /\ 1 \in DOMAIN s /\ s[1] \in Ops /\ Way(s[1]) /\ disk' = Apply(disk, s[1])
                       /\ (SyncOp /\ s = mainOps) \/ (WriteFile /\ s = exec)
            BY <2>1, WritesFirst
        <2>3. s[1].kind = "chat" /\ list = s[1].val
            BY <2>2, <1>2, MessagesOps, ApplyFacts
        <2>4. Asks(s[1], u, b)'
            BY <2>3 DEF Asks
        <2>5. Asks(s[1], u, b) /\ (Stored(u, b) => Stored(u, b)')
            BY <2>4, <2>2, AsksKeeps
        <2>6. CASE s = mainOps
            BY <2>5, <2>2, <2>6 DEF InTime, InSeq
        <2>7. CASE s = exec
            <3>1. Stored(u, b) \/ Early(s, 1, u, b)
                BY <2>5, <2>2, <2>7 DEF InTime
            <3>2. \A j \in DOMAIN s : j \in Nat /\ j >= 1
                BY <2>7, MessagesOps
            <3> QED BY <3>1, <3>2, <2>5 DEF Early
        <2> QED BY <2>2, <2>6, <2>7
    <1> QED BY <1>1, <1>2

LEMMA InTimeExecStep ==
    ASSUME OwnTypeOK, Bound, Behind, Phases, Listings, InTime, [Step]_ownVars, Lasts,
           NEW k \in DOMAIN exec', NEW x, x = exec'[k], NEW u, NEW b, Asks(x, u, b)'
    PROVE  Stored(u, b)' \/ Early(exec', k, u, b)
PROOF
    <1>1. ASSUME exec' = exec PROVE Stored(u, b)' \/ Early(exec', k, u, b)
        <2>1. Way(x)
            BY <1>1, LaneWays DEF InSeq
        <2>2. Asks(x, u, b) /\ (Stored(u, b) => Stored(u, b)')
            BY <2>1, AsksKeeps
        <2> QED BY <2>2, <1>1 DEF InTime
    <1>2. CASE WriteFile
        <2>1. k + 1 \in DOMAIN exec /\ x = exec[k + 1] /\ (Early(exec, k + 1, u, b) => Early(exec', k, u, b) \/ Stored(u, b)')
            BY <1>2, WrittenFirst
        <2>2. Way(x)
            BY <2>1, LaneWays DEF InSeq
        <2>3. Asks(x, u, b) /\ (Stored(u, b) => Stored(u, b)')
            BY <2>2, AsksKeeps
        <2>4. Stored(u, b) \/ Early(exec, k + 1, u, b)
            BY <2>1, <2>3 DEF InTime
        <2> QED BY <2>1, <2>3, <2>4
    <1>3. CASE TakePending
        <2>1. exec = <<>> /\ exec' = messages \o batch
            BY <1>3 DEF TakePending, Idle
        <2>2. /\ Len(messages) \in Nat /\ DOMAIN batch \subseteq Nat
              /\ \A i \in DOMAIN exec' : \/ i \in DOMAIN messages /\ exec'[i] = messages[i]
                                         \/ \E j \in DOMAIN batch : i = Len(messages) + j /\ exec'[i] = batch[j]
              /\ \A i \in DOMAIN messages : i \in Nat /\ i <= Len(messages) /\ i \in DOMAIN exec' /\ exec'[i] = messages[i]
              /\ \A j \in DOMAIN batch : j > 0
            BY <2>1, PendingShape
        <2>3. ASSUME k \in DOMAIN messages, x = messages[k] PROVE FALSE
            BY <2>3 DEF Behind, Asks
        <2>4. PICK j \in DOMAIN batch : k = Len(messages) + j /\ x = batch[j]
            BY <2>2, <2>3
        <2>5. InSeq(x, batch) /\ Way(x)
            BY <2>4, LaneWays DEF InSeq
        <2>6. Asks(x, u, b) /\ (Stored(u, b) => Stored(u, b)')
            BY <2>5, AsksKeeps
        <2>7. Due(u, b, 0)
            BY <2>5, <2>6 DEF InTime
        <2>8. ~Sent(u, b, 0) /\ ~FileOp(exec, u, b)
            <3>1. \A i \in DOMAIN chan : i \in Nat /\ i >= 1
                BY MessagesOps
            <3> QED BY <3>1, <2>1 DEF Sent, FileOp
        <2>9. ASSUME FileOp(messages, u, b) PROVE Early(exec', k, u, b)
            <3>1. PICK i \in DOMAIN messages : messages[i].kind = "message" /\ messages[i].uid = u /\ messages[i].val = b
                BY <2>9 DEF FileOp
            <3>2. i \in DOMAIN exec' /\ exec'[i] = messages[i] /\ i < k
                BY <2>2, <2>4
            <3> QED BY <3>1, <3>2 DEF Early
        <2> QED BY <2>6, <2>7, <2>8, <2>9 DEF Due
    <1>4. ASSUME NEW w, NEW ms, NEW q, Async(w, ms, q) PROVE exec' = exec
        BY <1>4 DEF Async, Pipes, threadVars
    <1> QED BY <1>1, <1>2, <1>3, <1>4, LastsFacts
            DEF SyncSave, FinalSave, SyncOp, Quiet, TakeBatch, TakeMessage, threadVars

(* Steps that leave the pending batch and its items where they are. *)
LEMMA InTimeBatchStep ==
    ASSUME OwnTypeOK, Bound, Behind, Phases, Listings, InTime, [Step]_ownVars, Lasts,
           NEW x, InSeq(x, batch'), NEW u, NEW b, Asks(x, u, b)'
    PROVE  Due(u, b, 0)'
PROOF
    <1>0. ASSUME InSeq(x, batch) PROVE Asks(x, u, b) /\ (Stored(u, b) => Stored(u, b)') /\ Due(u, b, 0)
        <2>1. Asks(x, u, b) /\ (Stored(u, b) => Stored(u, b)')
            BY <1>0, LaneWays, AsksKeeps
        <2> QED BY <2>1, <1>0 DEF InTime
    <1>1. ASSUME \/ \E w, ms, q : Async(w, ms, q)
                 \/ SyncSave \/ FinalSave \/ SyncOp \/ WriteFile \/ Quiet
          PROVE  Due(u, b, 0)'
        <2>1. ASSUME NEW w, NEW ms, NEW q, Async(w, ms, q) PROVE batch' = batch
            BY <2>1 DEF Async, Pipes, threadVars
        <2>2. batch' = batch
            BY <1>1, <2>1 DEF SyncSave, FinalSave, SyncOp, WriteFile, Quiet, threadVars
        <2> QED BY <2>2, <1>0, <1>1, DueStays
    <1>2. CASE TakeMessage
        <2>1. batch' = batch /\ chan # <<>> /\ chan' = Tail(chan)
            BY <1>2 DEF TakeMessage
        <2>2. Due(u, b, 0)
            BY <2>1, <1>0
        <2>3. Due(u, b, 0 + 1)
            <3>1. Sent(u, b, 0) => Sent(u, b, 0 + 1)
                <4>1. \A i \in DOMAIN chan : i \in Nat
                    BY MessagesOps
                <4> QED BY <4>1 DEF Sent
            <3> QED BY <3>1, <2>2 DEF Due
        <2> QED BY <2>1, <2>3, <1>2, DuePops
    <1>3. CASE TakeBatch
        <2>1. batch' = Head(chan).ops /\ chan # <<>> /\ chan' = Tail(chan) /\ Head(chan).kind = "batch"
            BY <1>3 DEF TakeBatch
        <2>2. 1 \in DOMAIN chan /\ chan[1] = Head(chan)
            BY <2>1, PopChan
        <2>3. InSeq(x, chan[1].ops)
            BY <2>1, <2>2
        <2>4. Asks(x, u, b)
            BY <2>2, <2>3, LaneWays, AsksKeeps
        <2>5. Due(u, b, 1 - 1)
            BY <2>2, <2>3, <2>4 DEF InTime
        <2>6. Due(u, b, 0 + 1)
            <3>1. Sent(u, b, 1 - 1) => Sent(u, b, 0 + 1)
                <4>1. \A i \in DOMAIN chan : i \in Nat
                    BY MessagesOps
                <4> QED BY <4>1 DEF Sent
            <3> QED BY <3>1, <2>5 DEF Due
        <2> QED BY <2>1, <2>6, <1>3, DuePops
    <1>4. CASE TakePending
        BY <1>4 DEF TakePending, InSeq
    <1> QED BY <1>1, <1>2, <1>3, <1>4, LastsFacts

LEMMA InTimeChanStep ==
    ASSUME OwnTypeOK, Bound, Behind, Phases, Listings, InTime, [Step]_ownVars, Lasts, Fresh', Arrives',
           NEW n \in DOMAIN chan', NEW x, InSeq(x, chan'[n].ops), NEW u, NEW b, Asks(x, u, b)'
    PROVE  Due(u, b, n - 1)'
PROOF
    <1>0. OwnTypeOK' /\ \A i \in DOMAIN chan : i \in Nat /\ i >= 1
        BY TypeStep, MessagesOps
    <1>1. ASSUME n \in DOMAIN chan, chan'[n] = chan[n]
          PROVE  (Stored(u, b) => Stored(u, b)') /\ Due(u, b, n - 1)
        <2>1. InSeq(x, chan[n].ops)
            BY <1>1
        <2>2. Asks(x, u, b) /\ (Stored(u, b) => Stored(u, b)')
            BY <2>1, <1>1, LaneWays, AsksKeeps
        <2> QED BY <2>1, <2>2, <1>1 DEF InTime
    <1>2. ASSUME n \in DOMAIN chan, chan'[n] = chan[n],
                 \/ \E w, ms, q : Async(w, ms, q)
                 \/ SyncSave \/ FinalSave \/ SyncOp \/ WriteFile \/ Quiet
          PROVE  Due(u, b, n - 1)'
        BY <1>1, <1>2, DueStays
    <1>3. ASSUME NEW w, NEW ms, NEW q, Async(w, ms, q) PROVE Due(u, b, n - 1)'
        <2>1. PICK k, l : Shape(k, l, ms, q)
            BY <1>3, SendsShape
        <2>2. NewBatch(q)
            BY <1>3 DEF Async, Pipes, NewBatch
        <2>3. \/ n \in DOMAIN chan /\ chan'[n] = chan[n]
              \/ n = l /\ l \in Nat /\ Len(chan') = l /\ chan'[l].kind = "batch" /\ chan'[l].ops = q
                 /\ DOMAIN chan' = 1 .. l
              \/ \E j \in DOMAIN ms : chan'[n].ops = <<File(ms[j])>>
            BY <2>1 DEF Shape
        <2>4. CASE n \in DOMAIN chan /\ chan'[n] = chan[n]
            BY <2>4, <1>3, <1>2
        <2>5. CASE n = l /\ l \in Nat /\ Len(chan') = l /\ chan'[l].kind = "batch" /\ chan'[l].ops = q
                   /\ DOMAIN chan' = 1 .. l
            <3>1. Due(u, b, Len(chan))'
                BY <2>5, <2>2, <1>0, AsksNew
            <3>2. Due(u, b, n)'
                BY <3>1, <2>5
            <3>3. Sent(u, b, n)' => Sent(u, b, n - 1)'
                <4> SUFFICES ASSUME NEW i \in DOMAIN chan', i <= n, chan'[i].kind = "message", FileOp(chan'[i].ops, u, b)
                             PROVE  Sent(u, b, n - 1)'
                    BY DEF Sent
                <4>1. i <= n - 1
                    BY <2>5
                <4> QED BY <4>1 DEF Sent
            <3> QED BY <3>2, <3>3 DEF Due
        <2>6. ASSUME NEW j \in DOMAIN ms, chan'[n].ops = <<File(ms[j])>> PROVE FALSE
            BY <2>6 DEF InSeq, File, Asks
        <2> QED BY <2>3, <2>4, <2>5, <2>6
    <1>4. CASE SyncSave \/ FinalSave \/ SyncOp \/ WriteFile
        <2>1. chan' = chan
            BY <1>4 DEF SyncSave, FinalSave, SyncOp, WriteFile
        <2> QED BY <2>1, <1>2, <1>4
    <1>5. CASE Quiet
        <2>1. CASE chan' = chan
            BY <2>1, <1>2, <1>5
        <2>2. ASSUME NEW y \in WriterMsgs, y.ops = <<>>, chan' = Append(chan, y) PROVE Due(u, b, n - 1)'
            <3>1. (n \in DOMAIN chan /\ chan'[n] = chan[n]) \/ chan'[n] = y
                <4>1. chan \in Seq(WriterMsgs)
                    BY MessagesOps
                <4> QED BY <4>1, <2>2, PushShape
            <3>2. chan'[n] # y
                BY <2>2 DEF InSeq
            <3> QED BY <3>1, <3>2, <1>2, <1>5
        <2> QED BY <2>1, <2>2, <1>5 DEF Quiet
    <1>6. ASSUME chan # <<>>, chan' = Tail(chan), TakeBatch \/ TakeMessage \/ TakePending PROVE Due(u, b, n - 1)'
        <2>1. n \in Nat /\ n >= 1 /\ n + 1 \in DOMAIN chan /\ chan'[n] = chan[n + 1]
            BY <1>6, PopChan
        <2>2. InSeq(x, chan[n + 1].ops)
            BY <2>1
        <2>3. Asks(x, u, b)
            BY <2>2, <2>1, LaneWays, AsksKeeps
        <2>4. Due(u, b, (n + 1) - 1)
            BY <2>1, <2>2, <2>3 DEF InTime
        <2>5. n - 1 \in Nat /\ (n + 1) - 1 = (n - 1) + 1
            BY <2>1
        <2>6. Due(u, b, (n - 1) + 1)
            BY <2>4, <2>5
        <2> QED BY <2>5, <2>6, <1>6, DuePops
    <1>7. CASE TakeBatch \/ TakeMessage \/ TakePending
        <2>1. chan' = Tail(chan) /\ chan # <<>>
            BY <1>7 DEF TakeBatch, TakeMessage, TakePending
        <2> QED BY <2>1, <1>6, <1>7
    <1> QED BY <1>3, <1>4, <1>5, <1>7, LastsFacts

LEMMA InTimeStep ==
    ASSUME OwnTypeOK, Bound, Behind, Phases, Listings, InTime, [Step]_ownVars, Alone',
           exit' # "killed" => Fresh' /\ Arrives'
    PROVE  InTime'
PROOF
    <1>1. CASE Lasts
        <2>1. Fresh' /\ Arrives'
            BY <1>1 DEF Lasts
        <2>2. \A k \in DOMAIN exec' : \A x, u, b : x = exec'[k] /\ Asks(x, u, b)' => Stored(u, b)' \/ Early(exec', k, u, b)
            BY <1>1, InTimeExecStep
        <2>3. \A x, u, b : InSeq(x, batch') /\ Asks(x, u, b)' => Due(u, b, 0)'
            BY <1>1, InTimeBatchStep
        <2>4. \A n \in DOMAIN chan' : \A x, u, b : InSeq(x, chan'[n].ops) /\ Asks(x, u, b)' => Due(u, b, n - 1)'
            BY <1>1, <2>1, InTimeChanStep
        <2>5. \A x, u, b : InSeq(x, mainOps') /\ Asks(x, u, b)' => Stored(u, b)'
            BY <1>1, <2>1, InTimeMainStep
        <2>6. \A list, u, b : list = disk'.chat /\ Names(list, u, b)' => Stored(u, b)'
            BY <1>1, InTimeDiskStep
        <2>7. \A k \in DOMAIN exec' : \A u, b : Asks(exec[k], u, b)' => Stored(u, b)' \/ Early(exec, k, u, b)'
            BY <2>2 DEF Asks, Names, Early, Wanted
        <2>8. \A u, b : Names(disk.chat, u, b)' => Stored(u, b)'
            BY <2>6 DEF Names, Wanted
        <2> QED BY <2>3, <2>4, <2>5, <2>7, <2>8 DEF InTime
    <1>2. CASE exit' = "killed"
        <2>1. CASE Kill
            <3>1. /\ exec' = <<>> /\ batch' = <<>> /\ chan' = <<>> /\ mainOps' = <<>>
                  /\ UNCHANGED <<disk, removed>>
                BY <2>1 DEF Kill, NewWriter
            <3>2. \A u, b : Names(disk.chat, u, b)' => Stored(u, b)'
                BY <3>1 DEF InTime, Names, Wanted, Stored
            <3>3. DOMAIN exec' = {} /\ DOMAIN chan' = {} /\ \A x : ~InSeq(x, batch') /\ ~InSeq(x, mainOps')
                BY <3>1 DEF InSeq
            <3> QED BY <3>2, <3>3 DEF InTime
        <2>2. CASE ~Kill
            <3>1. UNCHANGED <<mainVars, chan, threadVars, ghosts>> /\ disk'.chat = disk.chat /\ disk'.message = disk.message
                BY <2>2, <1>2, StillKilled
            <3>2. /\ UNCHANGED <<exec, batch, chan, mainOps, messages, removed>>
                  /\ disk'.chat = disk.chat /\ disk'.message = disk.message
                BY <3>1 DEF mainVars, threadVars, ghosts
            <3> QED BY <3>2 DEF InTime, Asks, Names, Wanted, Stored, Early, Due, Sent, FileOp, InSeq
        <2> QED BY <2>1, <2>2
    <1>3. CASE Boot
        <2>0. OwnTypeOK' /\ exit' # "killed"
            BY <1>3, TypeStep DEF Boot
        <2>1. /\ \A u, c : Knows(u, c)' => Stored(u, c)
              /\ \A u, c : Stored(u, c)' <=> Stored(u, c)
              /\ UNCHANGED <<disk, removed>> /\ exec' = <<>> /\ batch' = <<>> /\ chan' = <<>>
            BY <1>3, BootKnows DEF Boot, NewWriter
        <2>2. \A u, b : Names(disk.chat, u, b)' => Stored(u, b)'
            BY <2>1 DEF InTime, Names, Wanted, Stored
        <2>3. DOMAIN exec' = {} /\ DOMAIN chan' = {} /\ \A x : ~InSeq(x, batch')
            BY <2>1 DEF InSeq
        <2>4. ASSUME NEW x, InSeq(x, mainOps'), NEW u, NEW b, Asks(x, u, b)' PROVE Stored(u, b)'
            <3>1. NewBatch(mainOps')
                BY <1>3, BootKnows DEF NewBatch, Boot
            <3>2. InChat(u, b)'
                BY <3>1, <2>0, <2>4, AsksNew
            <3> QED BY <3>2, <2>1 DEF Knows
        <2> QED BY <2>2, <2>3, <2>4 DEF InTime
    <1> QED BY <1>1, <1>2, <1>3 DEF Lasts

-----------------------------------------------------------------------------
(* The invariant *)

LEMMA LivesStep ==
    ASSUME OwnInv, [Step]_ownVars
    PROVE  Lives'
PROOF
    <1> USE DEF OwnInv
    <1>1. /\ stale' => overtaken'
          /\ ~overtaken' =>
                 /\ ~overtaken /\ ~stale /\ ~stale'
                 /\ exit # "killed" => Fresh /\ Arrives
                 /\ exit' # "killed" => Fresh' /\ Arrives'
        BY OvertakenStep
    <1>2. ASSUME ~overtaken' PROVE Alone' /\ Forwards' /\ Covers' /\ Listings' /\ InTime'
        <2>1. Alone /\ Forwards /\ Covers /\ Listings /\ InTime
            BY <1>1, <1>2 DEF Lives
        <2>2. exit' # "killed" => Fresh' /\ Arrives'
            BY <1>1, <1>2
        <2>3. Alone'
            BY <2>1, <1>2, AloneStep
        <2>4. Forwards'
            BY <2>1, ForwardsStep
        <2>5. Covers'
            BY <2>1, <2>2, CoversStep
        <2>6. Listings'
            BY <2>1, <2>2, ListingsStep
        <2>7. InTime'
            BY <2>1, <2>2, <2>3, InTimeStep
        <2> QED BY <2>3, <2>4, <2>5, <2>6, <2>7
    <1> QED BY <1>1, <1>2 DEF Lives

LEMMA IInit == Init => OwnInv
PROOF
    <1> SUFFICES ASSUME Init PROVE OwnInv
        OBVIOUS
    <1>1. OwnTypeOK
        <2>1. <<>> \in Seq(Messages) /\ <<>> \in Seq(Ops) /\ <<>> \in Seq(WriterMsgs) /\ <<>> \in Seq(ListedMessages)
              /\ <<>> \in Seq(Seq(ListedMessages))
            OBVIOUS
        <2>2. [u \in {} |-> <<>>] \in [{} -> Seq(Messages)] /\ DOMAIN [u \in {} |-> <<>>] = {}
            OBVIOUS
        <2>3. StateOK(mem)
            BY <2>1, <2>2 DEF Init, Default, StateOK
        <2>4. EmptyDisk \in Disks
            BY <2>1 DEF EmptyDisk, Disks, Configs, NoPanel
        <2>5. MainTypeOK
            BY <2>1, <2>3 DEF Init, MainTypeOK
        <2>6. ThreadTypeOK
            BY <2>1 DEF Init, ThreadTypeOK
        <2>7. CountersTypeOK
            <3>1. made = 0 /\ built = 0 /\ crashes = 0 /\ handed = {} /\ removed = {}
                BY DEF Init
            <3>2. made \in 0 .. MaxMessages /\ built \in Nat /\ crashes \in Nat
                BY <3>1, BoundsAssumption
            <3>3. overtaken \in BOOLEAN /\ stale \in BOOLEAN /\ timedOut \in BOOLEAN
                BY Zenon DEF Init
            <3> QED BY <3>1, <3>2, <3>3 DEF CountersTypeOK
        <2> QED BY <2>4, <2>5, <2>6, <2>7 DEF Init, OwnTypeOK
    <1>2. /\ DOMAIN mem.chat = {} /\ mem.history = [u \in {} |-> <<>>] /\ DOMAIN mem.history = {} /\ mem.next = 1
          /\ DOMAIN exec = {} /\ DOMAIN batch = {} /\ DOMAIN messages = {} /\ DOMAIN mainOps = {} /\ DOMAIN chan = {}
        BY DEF Init, Default
    <1>3. /\ disk.config = [next |-> 1, ver |-> 0, owner |-> "self", reload |-> FALSE]
          /\ disk.worker = {} /\ disk.chat = <<>> /\ DOMAIN disk.chat = {}
          /\ \A p \in Numbers : disk.panel[p] = <<>>
          /\ \A u \in Uids : disk.message[u] = 0
        BY DEF Init, EmptyDisk, NoPanel, Absent
    <1>4. \A u, b : ~Knows(u, b)
        BY <1>2 DEF Knows, InChat, InHistory, Queued, FileOp
    <1>5. \A u, b : ~Stored(u, b)
        BY <1>3 DEF Stored, Bodies
    <1>6. Bound
        <2>1. \A u, b : ~Filed(u, b)
            BY <1>4, <1>5 DEF Filed, Knows
        <2>2. handed \cup removed \subseteq 1 .. made
            BY DEF Init
        <2> QED BY <2>1, <2>2, <1>4, <1>5 DEF Bound
    <1>7. Behind
        BY <1>2 DEF Behind, Init
    <1>8. Phases
        BY <1>2 DEF Phases, Init, Awaits, Over, Exits
    <1>9. ~ReloadDue /\ ReloadDue = FALSE
        BY DEF ReloadDue, Init
    <1>10. Life
        <2>1. Fresh /\ Arrives
            BY <1>2, <1>4 DEF Fresh, Arrives, Distinct
        <2>2. Settles
            <3>1. RightOps(mem, ReloadDue, exec)
                BY <1>2 DEF RightOps
            <3>2. RightConfig(mem, ReloadDue, disk.config)
                <4>1. disk.config.next = mem.next /\ disk.config.reload = FALSE
                    BY <1>2, <1>3
                <4> QED BY ONLY <4>1, <1>9, Zenon DEF RightConfig
            <3>3. Same(disk.chat, mem.chat)
                BY <1>2, <1>3 DEF Same
            <3>4. disk.worker = DOMAIN mem.history
                BY <1>2, <1>3
            <3> QED BY <3>1, <3>2, <3>3, <3>4, <1>2 DEF Settles
        <2>3. RightOps(mem, ReloadDue, mainOps)
            BY <1>2 DEF RightOps
        <2>4. batch = <<>>
            BY DEF Init
        <2> QED BY <2>1, <2>2, <2>3, <2>4, <1>2 DEF Life, Newest
    <1>11. Lives
        <2>1. \A s : Lane(s) => s = <<>>
            BY <1>2 DEF Lane, Init
        <2>2. \A x : ~Way(x)
            BY <2>1 DEF Way, InSeq
        <2>3. Forwards
            <3>1. Ordered
                BY <1>2 DEF Ordered, Before
            <3>2. \A s : Lane(s) => Inner(s)
                BY <2>1 DEF Inner
            <3>3. Under(disk.config)
                BY <1>2, <1>3 DEF Under, Init
            <3> QED BY <3>1, <3>2, <3>3, <2>2 DEF Forwards
        <2>4. Covers
            BY <2>1, <1>3 DEF Covers, DiskCovered, Covered
        <2>5. Listings
            BY <2>2, <1>3 DEF Listings, Agrees, Distinct
        <2>6. InTime
            BY <1>2, <1>3 DEF InTime, InSeq, Names
        <2>7. Alone /\ ~stale
            BY DEF Alone, Init
        <2> QED BY <2>3, <2>4, <2>5, <2>6, <2>7 DEF Lives
    <1> QED BY <1>1, <1>6, <1>7, <1>8, <1>10, <1>11 DEF OwnInv

-----------------------------------------------------------------------------
(* The other instance *)

LEMMA OtherOwner ==
    ASSUME NEW o \in [kind : {"config"}, uid : {0}, val : Configs], NEW q, q = [o EXCEPT !.val.owner = "other"]
    PROVE  /\ q \in Ops /\ q.kind = "config" /\ q.val.owner = "other"
           /\ q.val.ver = o.val.ver /\ q.val.next = o.val.next
PROOF
    <1>1. ASSUME NEW a \in Configs
          PROVE  LET b == [a EXCEPT !.owner = "other"]
                 IN  b \in Configs /\ b.owner = "other" /\ b.ver = a.ver /\ b.next = a.next
        BY DEF Configs
    <1>2. q.kind = "config" /\ q.val = [o.val EXCEPT !.owner = "other"]
        OBVIOUS
    <1>3. q.val \in Configs => q \in [kind : {"config"}, uid : {0}, val : Configs]
        OBVIOUS
    <1>4. o.val \in Configs
        OBVIOUS
    <1>5. q.val \in Configs /\ q.val.owner = "other" /\ q.val.ver = o.val.ver /\ q.val.next = o.val.next
        BY ONLY <1>1, <1>2, <1>4
    <1> QED BY <1>2, <1>3, <1>5 DEF Ops

(* Its batch is this instance's batch of its state, but for the owner. *)
LEMMA ClaimFacts ==
    ASSUME NEW m, StateOK(m), NEW v \in Nat, disk \in Disks
    PROVE  /\ ClaimBatch(m, v) \in Seq(Ops)
           /\ \A u, c : FileOp(ClaimBatch(m, v), u, c) => InPanels(m, u, c)
           /\ \A k \in DOMAIN ClaimBatch(m, v) : IsConfig(ClaimBatch(m, v)[k]) =>
                  /\ k = 1 /\ ClaimBatch(m, v)[k].val.owner = "other"
                  /\ ClaimBatch(m, v)[k].val.ver = v /\ ClaimBatch(m, v)[k].val.next = m.next
PROOF
    <1> DEFINE b == BuildSaveBatch(m, v, handed)
               op == [b[1] EXCEPT !.val.owner = "other"]
               c == [b EXCEPT ![1] = op]
    <1>1. /\ b \in Seq(Ops) /\ Len(b) >= 3
          /\ b[1] = ConfigOp(m, v) /\ b[2] = Worker(DOMAIN m.history) /\ b[3] = Chat(Listed(m.chat, handed))
          /\ \A k \in DOMAIN b : k > 3 => b[k] \in Rest(m, handed)
        BY ONLY BatchFacts, StateOK(m), v \in Nat, disk \in Disks
    <1>2. \A u, x : FileOp(b, u, x) => InPanels(m, u, x)
        BY BatchFiles
    <1>3. ClaimBatch(m, v) = c
        BY DEF ClaimBatch
    <1> HIDE DEF b
    <1>4. m.next \in Nat
        BY DEF StateOK
    <1>5. /\ op \in Ops /\ op.kind = "config" /\ op.val.owner = "other" /\ op.val.ver = v /\ op.val.next = m.next
        <2>1. /\ b[1] \in [kind : {"config"}, uid : {0}, val : Configs]
              /\ b[1].val.ver = v /\ b[1].val.next = m.next
            BY <1>1, <1>4 DEF ConfigOp, Config, Configs
        <2>2. op = [b[1] EXCEPT !.val.owner = "other"]
            OBVIOUS
        <2> HIDE DEF op
        <2> QED BY ONLY <2>1, <2>2, OtherOwner
    <1> HIDE DEF op
    <1>6. /\ DOMAIN b = 1 .. Len(b) /\ Len(b) \in Nat /\ 1 \in DOMAIN b
          /\ c \in Seq(Ops) /\ DOMAIN c = DOMAIN b /\ c[1] = op /\ \A k \in DOMAIN b : k # 1 => c[k] = b[k]
        BY <1>1, <1>5
    <1> HIDE DEF c
    <1>7. ASSUME NEW u, NEW x, FileOp(c, u, x) PROVE InPanels(m, u, x)
        <2>1. PICK k \in DOMAIN b : c[k].kind = "message" /\ c[k].uid = u /\ c[k].val = x
            BY <1>6, <1>7 DEF FileOp
        <2>2. c[k] = b[k]
            BY <2>1, <1>5, <1>6
        <2> QED BY <2>1, <2>2, <1>2 DEF FileOp
    <1>8. ASSUME NEW k \in DOMAIN c, IsConfig(c[k]) 
          PROVE k = 1 /\ c[k].val.owner = "other" /\ c[k].val.ver = v /\ c[k].val.next = m.next
        <2>1. ASSUME k # 1 PROVE FALSE
            <3>1. b[k].kind = "config" /\ k \in Nat /\ k >= 1
                BY <2>1, <1>6, <1>8 DEF IsConfig
            <3>2. k > 3
                BY <3>1, <2>1, <1>1 DEF Worker, Chat
            <3>3. b[k] \in Rest(m, handed)
                BY <3>2, <1>1, <1>6
            <3>4. \A x \in Rest(m, handed) : x.kind \in {"panel", "message"}
                BY DEF Rest, PanelWrites, HistoryMessages, OrphanDeletes, Panel, File
            <3> QED BY <3>1, <3>3, <3>4
        <2> QED BY <2>1, <1>5, <1>6
    <1> QED BY <1>3, <1>6, <1>7, <1>8

(* What a load reads of the history panels is on the disk. *)
LEMMA LoadedStored ==
    ASSUME disk \in Disks, NEW u, NEW b, InPanels(LoadState(disk), u, b)
    PROVE  Stored(u, b)
PROOF
    <1> DEFINE m == LoadState(disk)
    <1>1. \A p \in DOMAIN m.history :
              disk.panel[p][1] \in Seq(ListedMessages) /\ m.history[p] = LoadMessages(disk, disk.panel[p][1])
        BY LoadStateFacts
    <1>2. PICK p \in DOMAIN m.history : \E i \in DOMAIN m.history[p] :
              m.history[p][i].uid = u /\ m.history[p][i].body = b
        BY DEF InPanels
    <1> HIDE DEF m
    <1> QED BY <1>1, <1>2, LoadFacts DEF Stored

(* A step of this instance, or a claim that replaces nothing, keeps what   *)
(* is said of the other one.                                                *)
LEMMA GuestKept ==
    ASSUME OwnTypeOK, Bound, Behind, Phases, GuestTypeOK, GuestBound,
           ~overtaken => Alone /\ Forwards /\ GuestBehind, [Step]_ownVars, guest' = guest
    PROVE  /\ GuestBound'
           /\ ~overtaken' => Alone' /\ Forwards' /\ GuestBehind' /\ CfgLe(disk.config, disk'.config)
PROOF
    <1>0. \A u, b : GuestFile(u, b)' <=> GuestFile(u, b)
        BY DEF GuestFile, InPanels, FileOp
    <1>1. \A u, b : GuestFile(u, b) => b \in handed /\ b \in 1 .. made
        BY DEF GuestBound, Bound
    <1>2. ASSUME NEW w, Within(w) PROVE GuestBound'
        <2>1. made \in Nat
            BY DEF OwnTypeOK, CountersTypeOK
        <2>2. ASSUME NEW u, NEW b, GuestFile(u, b), NEW v, Knows(v, b)' \/ Stored(v, b)'
              PROVE  Knows(v, b) \/ Stored(v, b)
            <3>1. b # made + 1
                BY <2>1, <2>2, <1>1
            <3> QED BY <3>1, <2>2, <1>2 DEF Within, Learns, Stores, New
        <2>3. handed \subseteq handed'
            BY <1>2 DEF Within
        <2>4. ASSUME NEW u, NEW b, GuestFile(u, b)' PROVE b \in handed'
            BY <2>4, <2>3, <1>0, <1>1
        <2>5. ASSUME NEW u, NEW b, GuestFile(u, b)', NEW v, Knows(v, b)' \/ Stored(v, b)' \/ GuestFile(v, b)'
              PROVE  u = v
            <3>1. GuestFile(u, b) /\ (Knows(v, b) \/ Stored(v, b) \/ GuestFile(v, b))
                BY ONLY <2>5, <2>2, <1>0
            <3> QED BY <3>1 DEF GuestBound
        <2> QED BY <2>4, <2>5 DEF GuestBound
    <1>3. ASSUME Boot PROVE GuestBound'
        <2>1. /\ \A u, c : Knows(u, c)' => Stored(u, c)
              /\ \A u, c : Stored(u, c)' <=> Stored(u, c)
              /\ handed' = handed
            BY <1>3, BootKnows
        <2>2. ASSUME NEW u, NEW b, GuestFile(u, b)', NEW v, Knows(v, b)' \/ Stored(v, b)' \/ GuestFile(v, b)'
              PROVE  b \in handed' /\ u = v
            <3>1. GuestFile(u, b) /\ (Stored(v, b) \/ GuestFile(v, b))
                BY ONLY <2>2, <2>1, <1>0
            <3> QED BY <3>1, <2>1 DEF GuestBound
        <2>3. ASSUME NEW u, NEW b, GuestFile(u, b)' PROVE b \in handed'
            BY <2>3, <2>2
        <2> QED BY <2>2, <2>3 DEF GuestBound
    <1>4. GuestBound'
        BY <1>2, <1>3, Kinds, WithinLife
    <1>5. ASSUME ~overtaken' PROVE Alone' /\ Forwards' /\ GuestBehind' /\ CfgLe(disk.config, disk'.config)
        <2>1. ~overtaken
            BY <1>5, OvertakenStays
        <2>2. Alone' /\ Forwards' /\ CfgLe(disk.config, disk'.config)
            BY <1>5, <2>1, AloneStep, ForwardsStep
        <2>3. /\ disk.config.ver \in Nat /\ disk.config.next \in Nat
              /\ \A x \in Ops : IsConfig(x) => x.val.ver \in Nat /\ x.val.next \in Nat
            BY ConfigTyped
        <2>4. disk'.config.ver \in Nat /\ disk'.config.next \in Nat
            BY TypeStep, DiskFacts DEF OwnTypeOK, Configs
        <2>5. guest.ver \in Nat /\ guest.mem.next \in Nat /\ \A k \in DOMAIN guest.ops : guest.ops[k] \in Ops
            BY DEF GuestTypeOK, StateOK
        <2>6. GuestBehind
            BY <2>1
        <2>7. guest.at = "loaded" => guest.ver <= disk'.config.ver /\ guest.mem.next <= disk'.config.next
            BY <2>2, <2>3, <2>4, <2>5, <2>6 DEF GuestBehind, CfgLe
        <2>8. ASSUME NEW k \in DOMAIN guest.ops, IsConfig(guest.ops[k])
              PROVE  k = 1 /\ guest.ops[k].val.owner = "other" /\ CfgLe(guest.ops[k].val, disk'.config)
            <3>1. k = 1 /\ guest.ops[k].val.owner = "other" /\ CfgLe(guest.ops[k].val, disk.config)
                BY <2>6, <2>8 DEF GuestBehind
            <3>2. guest.ops[k].val.ver \in Nat /\ guest.ops[k].val.next \in Nat
                BY <2>3, <2>5, <2>8
            <3> QED BY <3>1, <3>2, <2>2, <2>3, <2>4 DEF CfgLe
        <2>9. GuestBehind'
            BY <2>7, <2>8 DEF GuestBehind
        <2> QED BY <2>2, <2>9
    <1> QED BY <1>4, <1>5

(* A write of the other instance. *)
LEMMA GuestWritesStep ==
    ASSUME OwnTypeOK, Bound, Behind, Phases, GuestTypeOK, GuestBound,
           ~overtaken => Alone /\ Forwards /\ GuestBehind, GuestWrites
    PROVE  /\ OwnTypeOK' /\ GuestTypeOK' /\ Bound' /\ GuestBound' /\ Behind' /\ Phases'
           /\ ~overtaken' => Alone' /\ Forwards' /\ GuestBehind'
           /\ disk'.config = disk.config \/ (~overtaken => disk'.config.owner = "other")
PROOF
    <1> DEFINE op == Head(guest.ops)
    <1>0. /\ guest.ops # <<>> /\ disk' = Apply(disk, op) /\ guest' = [guest EXCEPT !.ops = Tail(@)]
          /\ UNCHANGED <<mainVars, chan, threadVars, ghosts>>
          /\ replaced' = (replaced \/ disk' \notin {disk, [disk EXCEPT !.config.owner = "other"]})
        BY DEF GuestWrites
    <1>1. /\ guest.ops \in Seq(Ops) /\ disk \in Disks
          /\ guest'.at = guest.at /\ guest'.mem = guest.mem /\ guest'.ver = guest.ver /\ guest'.ops = Tail(guest.ops)
          /\ guest' = [at |-> guest'.at, mem |-> guest'.mem, ver |-> guest'.ver, ops |-> guest'.ops]
        <2>1. guest = [at |-> guest.at, mem |-> guest.mem, ver |-> guest.ver, ops |-> guest.ops]
            BY DEF GuestTypeOK
        <2> QED BY <1>0, <2>1 DEF GuestTypeOK, OwnTypeOK
    <1>2. /\ op = guest.ops[1] /\ op \in Ops /\ 1 \in DOMAIN guest.ops
          /\ Tail(guest.ops) \in Seq(Ops)
          /\ \A k \in DOMAIN Tail(guest.ops) : k \in Nat /\ k >= 1 /\ k + 1 \in DOMAIN guest.ops
                                              /\ Tail(guest.ops)[k] = guest.ops[k + 1]
        <2>1. /\ Tail(guest.ops) \in Seq(Ops) /\ Len(Tail(guest.ops)) = Len(guest.ops) - 1 /\ Len(guest.ops) \in Nat \ {0}
              /\ \A i \in 1 .. Len(guest.ops) - 1 : Tail(guest.ops)[i] = guest.ops[i + 1]
              /\ op = guest.ops[1] /\ guest.ops[1] \in Ops
            BY ONLY <1>0, <1>1, TailFacts DEF op
        <2>2. DOMAIN guest.ops = 1 .. Len(guest.ops) /\ DOMAIN Tail(guest.ops) = 1 .. Len(guest.ops) - 1
            BY <2>1, <1>1
        <2> QED BY <2>1, <2>2
    <1> HIDE DEF op
    <1>3. disk' \in Disks /\ disk'.config = IF op.kind = "config" THEN op.val ELSE disk.config
        BY <1>0, <1>1, <1>2, ApplyFacts
    <1>4. OwnTypeOK'
        <2>1. MainTypeOK' /\ ThreadTypeOK' /\ CountersTypeOK'
            BY <1>0 DEF OwnTypeOK, MainTypeOK, StateOK, ThreadTypeOK, CountersTypeOK, mainVars, threadVars, ghosts
        <2> QED BY <2>1, <1>3 DEF OwnTypeOK
    <1>5. GuestTypeOK'
        <2>1. replaced' \in BOOLEAN
            BY <1>0, Zenon DEF GuestTypeOK
        <2>2. /\ guest.at \in {"absent", "loaded", "saving"} /\ guest.ver \in Nat /\ StateOK(guest.mem)
            BY DEF GuestTypeOK
        <2> QED BY <2>1, <2>2, <1>1, <1>2 DEF GuestTypeOK, StateOK
    <1>6. \A u, b : GuestFile(u, b)' => GuestFile(u, b)
        <2> SUFFICES ASSUME NEW u, NEW b, GuestFile(u, b)' PROVE GuestFile(u, b)
            OBVIOUS
        <2>1. CASE InPanels(guest.mem, u, b)'
            BY <2>1, <1>1 DEF InPanels, GuestFile
        <2>2. CASE FileOp(guest.ops, u, b)'
            BY <2>2, <1>1, <1>2 DEF FileOp, GuestFile
        <2> QED BY <2>1, <2>2 DEF GuestFile
    <1>7. ASSUME NEW u, NEW b, Stored(u, b)' PROVE Stored(u, b) \/ GuestFile(u, b)
        <2>1. Stored(u, b) \/ (op.kind = "message" /\ op.uid = u /\ op.val = b)
            BY <1>0, <1>1, <1>2, <1>7, AppliedStored
        <2> QED BY <2>1, <1>2 DEF GuestFile, FileOp
    <1>8. \A u, b : (Knows(u, b)' <=> Knows(u, b)) /\ (InHistory(u, b)' <=> InHistory(u, b)) /\ (Queued(u, b)' <=> Queued(u, b))
        BY <1>0 DEF Knows, InChat, InHistory, Queued, FileOp, mainVars, threadVars
    <1>9. UNCHANGED <<handed, removed, made>>
        BY <1>0 DEF ghosts
    <1>10. \A u, v, b : (Knows(u, b) \/ Stored(u, b) \/ GuestFile(u, b)) /\ (Knows(v, b) \/ Stored(v, b) \/ GuestFile(v, b))
                         => u = v
        <2>1. \A u, v, b : (Knows(u, b) \/ Stored(u, b)) /\ (Knows(v, b) \/ Stored(v, b)) => u = v
            BY DEF Bound
        <2>2. \A u, v, b : GuestFile(u, b) /\ (Knows(v, b) \/ Stored(v, b) \/ GuestFile(v, b)) => u = v
            BY DEF GuestBound
        <2> QED BY ONLY <2>1, <2>2
    <1>11. \A u, v, b : (Knows(u, b)' \/ Stored(u, b)') /\ (Knows(v, b)' \/ Stored(v, b)') => u = v
        BY ONLY <1>7, <1>8, <1>10
    <1>12. Bound'
        <2>1. \A u, b : Filed(u, b)' => b \in handed'
            <3>1. \A u, b : InHistory(u, b) \/ Queued(u, b) \/ Stored(u, b) => b \in handed
                BY DEF Bound, Filed
            <3>2. \A u, b : GuestFile(u, b) => b \in handed
                BY DEF GuestBound
            <3> QED BY <3>1, <3>2, <1>7, <1>8, <1>9 DEF Filed
        <2>2. handed' \cup removed' \subseteq 1 .. made' /\ \A u, b : Knows(u, b)' => b \in 1 .. made'
            BY <1>8, <1>9 DEF Bound
        <2> QED BY <2>1, <2>2, <1>11 DEF Bound
    <1>13. GuestBound'
        <2>1. ASSUME NEW u, NEW b, GuestFile(u, b)' PROVE b \in handed'
            BY <2>1, <1>6, <1>9 DEF GuestBound
        <2>2. ASSUME NEW u, NEW b, GuestFile(u, b)', NEW v, Knows(v, b)' \/ Stored(v, b)' \/ GuestFile(v, b)'
              PROVE  u = v
            BY ONLY <2>2, <1>6, <1>7, <1>8, <1>10
        <2> QED BY <2>1, <2>2 DEF GuestBound
    <1>14. Behind'
        BY <1>0 DEF Behind, SomeBatch, mainVars, threadVars
    <1>15. Phases'
        <2>1. UNCHANGED <<main, exit, mainOps, chan, batch, messages, exec, then, flush, acked, timedOut>>
            BY <1>0 DEF mainVars, threadVars, ghosts
        <2> QED BY <2>1 DEF Phases, Awaits, Over, Flushed, Calm
    <1>16. ASSUME ~overtaken' PROVE Alone' /\ Forwards' /\ GuestBehind' /\ (op.kind = "config" => op.val.owner = "other")
        <2>1. Alone /\ Forwards /\ GuestBehind
            BY <1>16, <1>0 DEF ghosts
        <2>2. Alone'
            BY <2>1, <1>0 DEF Alone, Calm, mainVars, threadVars
        <2>3. /\ disk.config.ver \in Nat /\ disk.config.next \in Nat /\ built \in Nat /\ mem.next \in Nat
              /\ \A x : Way(x) => x \in Ops
              /\ \A x \in Ops : IsConfig(x) => x.val.ver \in Nat /\ x.val.next \in Nat
            BY ConfigTyped
        <2>4. op.kind = "config" => op.val.owner = "other" /\ CfgLe(op.val, disk.config)
            BY <2>1, <1>2 DEF GuestBehind, IsConfig
        <2>5. CfgLe(disk'.config, disk.config) /\ disk'.config.ver \in Nat /\ disk'.config.next \in Nat
            BY <2>3, <2>4, <1>2, <1>3 DEF CfgLe, IsConfig
        <2>6. UNCHANGED <<exec, batch, chan, mainOps, mem, exit, built>>
            BY <1>0 DEF mainVars, threadVars, ghosts
        <2>7. \A s : Lane(s)' <=> Lane(s)
            BY <2>6 DEF Lane
        <2>8. \A x : Way(x)' <=> Way(x)
            BY <2>7 DEF Way
        <2>9. Ordered'
            BY <2>1, <2>6 DEF Forwards, Ordered
        <2>10. \A s : Lane(s)' => Inner(s)
            BY <2>1, <2>7 DEF Forwards
        <2>11. \A x : Way(x) /\ IsConfig(x) => CfgLe(disk'.config, x.val) /\ Under(x.val)'
            <3> SUFFICES ASSUME NEW x, Way(x), IsConfig(x) PROVE CfgLe(disk'.config, x.val) /\ Under(x.val)'
                OBVIOUS
            <3>1. x.val.ver \in Nat /\ x.val.next \in Nat
                BY <2>3
            <3>2. CfgLe(disk.config, x.val) /\ Under(x.val)
                BY <2>1 DEF Forwards
            <3>3. CfgLe(disk'.config, x.val)
                BY <3>1, <3>2, <2>3, <2>5 DEF CfgLe
            <3>4. Under(x.val)'
                BY <3>2, <2>6 DEF Under
            <3> QED BY <3>3, <3>4
        <2>12. Under(disk.config)'
            <3>1. Under(disk.config)
                BY <2>1 DEF Forwards
            <3> QED BY <3>1, <2>3, <2>5, <2>6 DEF Under, CfgLe
        <2>13. Forwards'
            BY <2>8, <2>9, <2>10, <2>11, <2>12 DEF Forwards
        <2>14. GuestBehind'
            <3>1. guest'.at # "loaded"
                BY <1>1 DEF GuestWrites
            <3>2. \A k \in DOMAIN guest'.ops : ~IsConfig(guest'.ops[k])
                <4> SUFFICES ASSUME NEW k \in DOMAIN Tail(guest.ops), IsConfig(guest.ops[k + 1]) PROVE FALSE
                    BY <1>1, <1>2
                <4>1. k + 1 = 1
                    BY <1>2, <2>1 DEF GuestBehind
                <4> QED BY <4>1, <1>2
            <3> QED BY <3>1, <3>2 DEF GuestBehind
        <2> QED BY <2>2, <2>4, <2>13, <2>14
    <1>17. disk'.config = disk.config \/ (~overtaken => disk'.config.owner = "other")
        <2>1. overtaken' = overtaken
            BY <1>0 DEF ghosts
        <2> QED BY <2>1, <1>3, <1>16
    <1> QED BY <1>4, <1>5, <1>12, <1>13, <1>14, <1>15, <1>16, <1>17

(* A claim that replaces nothing is a step for the lemmas above. *)
LEMMA StepOf ==
    ASSUME [Next]_vars, ~replaced' \/ ~GuestWrites
    PROVE  [Step]_ownVars
PROOF
    <1>1. CASE OwnNext /\ Apart
        BY <1>1 DEF Step
    <1>2. CASE GuestLoads \/ GuestSaves
        BY <1>2 DEF GuestLoads, GuestSaves
    <1>3. CASE GuestWrites
        BY <1>3 DEF GuestWrites, Step, Seize, ownVars
    <1>4. CASE UNCHANGED vars
        BY <1>4 DEF vars
    <1> QED BY <1>1, <1>2, <1>3, <1>4 DEF Next

(* The other instance loads, or builds its batch. *)
LEMMA GuestPrepares ==
    ASSUME IInv, GuestLoads \/ GuestSaves
    PROVE  /\ GuestTypeOK' /\ GuestBound'
           /\ ~overtaken' => GuestBehind'
PROOF
    <1>0. /\ OwnTypeOK /\ GuestTypeOK /\ Bound /\ GuestBound /\ disk \in Disks
          /\ ~overtaken => GuestBehind
        BY DEF IInv, TypeOK, OwnTypeOK
    <1>1. UNCHANGED ownVars /\ replaced' = replaced
        BY DEF GuestLoads, GuestSaves
    <1>2. UNCHANGED <<mainVars, chan, threadVars, disk, ghosts>>
        BY <1>1 DEF ownVars
    <1>3. /\ \A u, b : (Knows(u, b)' <=> Knows(u, b)) /\ (Stored(u, b)' <=> Stored(u, b))
          /\ handed' = handed /\ overtaken' = overtaken /\ disk' = disk
        BY <1>2 DEF Knows, Stored, InChat, InHistory, Queued, FileOp, mainVars, threadVars, ghosts
    <1>4. /\ guest = [at |-> guest.at, mem |-> guest.mem, ver |-> guest.ver, ops |-> guest.ops]
          /\ guest.ops \in Seq(Ops) /\ StateOK(guest.mem) /\ guest.ver \in Nat /\ replaced \in BOOLEAN
        BY <1>0 DEF GuestTypeOK
    <1>5. \A u, v, b : (Stored(u, b) \/ GuestFile(u, b)) /\ (Knows(v, b) \/ Stored(v, b) \/ GuestFile(v, b)) => u = v
        <2>1. \A u, v, b : (Knows(u, b) \/ Stored(u, b)) /\ (Knows(v, b) \/ Stored(v, b)) => u = v
            BY <1>0 DEF Bound
        <2>2. \A u, v, b : GuestFile(u, b) /\ (Knows(v, b) \/ Stored(v, b) \/ GuestFile(v, b)) => u = v
            BY <1>0 DEF GuestBound
        <2> QED BY ONLY <2>1, <2>2
    <1>6. \A u, b : Stored(u, b) \/ GuestFile(u, b) => b \in handed
        BY <1>0 DEF Bound, Filed, GuestBound
    <1>7. ASSUME \A u, b : GuestFile(u, b)' => Stored(u, b) \/ GuestFile(u, b) PROVE GuestBound'
        <2>1. \A u, b : GuestFile(u, b)' => b \in handed'
            BY <1>3, <1>6, <1>7
        <2>2. \A u, v, b : GuestFile(u, b)' /\ (Knows(v, b)' \/ Stored(v, b)' \/ GuestFile(v, b)') => u = v
            BY ONLY <1>3, <1>5, <1>7
        <2> QED BY <2>1, <2>2 DEF GuestBound
    <1>8. CASE GuestLoads
        <2> DEFINE m == LoadState(disk)
        <2>1. /\ guest'.at = "loaded" /\ guest'.mem = m /\ guest'.ver = disk.config.ver /\ guest'.ops = guest.ops
              /\ guest' = [at |-> guest'.at, mem |-> guest'.mem, ver |-> guest'.ver, ops |-> guest'.ops]
            BY <1>8, <1>4 DEF GuestLoads
        <2>2. StateOK(m) /\ m.next = disk.config.next
            BY <1>0, LoadStateFacts
        <2>3. \A u, b : InPanels(m, u, b) => Stored(u, b)
            BY <1>0, LoadedStored
        <2>4. disk.config.ver \in Nat /\ disk.config.next \in Nat
            BY <1>0, ConfigTyped
        <2> HIDE DEF m
        <2>5. GuestTypeOK'
            BY <2>1, <2>2, <2>4, <1>1, <1>4 DEF GuestTypeOK, StateOK
        <2>6. \A u, b : GuestFile(u, b)' => Stored(u, b) \/ GuestFile(u, b)
            <3> SUFFICES ASSUME NEW u, NEW b, GuestFile(u, b)' PROVE Stored(u, b) \/ GuestFile(u, b)
                OBVIOUS
            <3>1. InPanels(m, u, b) \/ FileOp(guest.ops, u, b)
                BY <2>1 DEF GuestFile, InPanels, FileOp
            <3> QED BY <3>1, <2>3 DEF GuestFile
        <2>7. ~overtaken' => GuestBehind'
            BY <2>1, <2>2, <2>4, <1>0, <1>3 DEF GuestBehind, CfgLe, IsConfig
        <2> QED BY <2>5, <2>6, <2>7, <1>7
    <1>9. CASE GuestSaves
        <2> DEFINE c == ClaimBatch(guest.mem, guest.ver)
        <2>1. /\ guest'.at = "saving" /\ guest'.mem = Default /\ guest'.ver = 0 /\ guest'.ops = c
              /\ guest' = [at |-> guest'.at, mem |-> guest'.mem, ver |-> guest'.ver, ops |-> guest'.ops]
              /\ guest.at = "loaded"
            BY <1>9 DEF GuestSaves
        <2>2. /\ c \in Seq(Ops) /\ \A u, x : FileOp(c, u, x) => InPanels(guest.mem, u, x)
              /\ \A k \in DOMAIN c : IsConfig(c[k]) =>
                     k = 1 /\ c[k].val.owner = "other" /\ c[k].val.ver = guest.ver /\ c[k].val.next = guest.mem.next
            BY <1>0, <1>4, ClaimFacts
        <2> HIDE DEF c
        <2>3. StateOK(Default) /\ DOMAIN Default.history = {}
            <3>1. <<>> \in Seq(Messages) /\ DOMAIN [u \in {} |-> <<>>] = {} /\ [u \in {} |-> <<>>] \in [{} -> Seq(Messages)]
                OBVIOUS
            <3> QED BY <3>1 DEF Default, StateOK
        <2>4. GuestTypeOK'
            BY <2>1, <2>2, <2>3, <1>1, <1>4 DEF GuestTypeOK, StateOK
        <2>5. \A u, b : GuestFile(u, b)' => GuestFile(u, b)
            <3> SUFFICES ASSUME NEW u, NEW b, GuestFile(u, b)' PROVE GuestFile(u, b)
                OBVIOUS
            <3>1. FileOp(c, u, b)
                BY <2>1, <2>3 DEF GuestFile, InPanels, FileOp
            <3> QED BY <3>1, <2>2 DEF GuestFile
        <2>6. ~overtaken' => GuestBehind'
            BY <2>1, <2>2, <1>0, <1>3 DEF GuestBehind, CfgLe
        <2> QED BY <2>4, <2>5, <2>6, <1>7
    <1> QED BY <1>8, <1>9

LEMMA InitIInv == Init => IInv
PROOF
    <1> SUFFICES ASSUME Init PROVE IInv
        OBVIOUS
    <1>1. /\ OwnTypeOK /\ Bound /\ Behind /\ Phases /\ Life /\ Lives
          /\ ~overtaken => Alone /\ Forwards
        BY IInit DEF OwnInv, Lives
    <1>2. /\ guest = [at |-> "absent", mem |-> Default, ver |-> 0, ops |-> <<>>] /\ replaced = FALSE
        BY DEF Init
    <1>3. StateOK(Default) /\ DOMAIN Default.history = {} /\ <<>> \in Seq(Ops) /\ DOMAIN <<>> = {}
        <2>1. <<>> \in Seq(Messages) /\ DOMAIN [u \in {} |-> <<>>] = {} /\ [u \in {} |-> <<>>] \in [{} -> Seq(Messages)]
            OBVIOUS
        <2> QED BY <2>1 DEF Default, StateOK
    <1>4. GuestTypeOK
        BY <1>2, <1>3 DEF GuestTypeOK
    <1>5. GuestBound /\ GuestBehind
        BY <1>2, <1>3 DEF GuestBound, GuestBehind, GuestFile, InPanels, FileOp
    <1> QED BY <1>1, <1>4, <1>5 DEF IInv, TypeOK

LEMMA IInvStep == IInv /\ [Next]_vars => IInv'
PROOF
    <1> SUFFICES ASSUME IInv, [Next]_vars PROVE IInv'
        OBVIOUS
    <1>1. /\ OwnTypeOK /\ GuestTypeOK /\ Bound /\ GuestBound /\ Behind /\ Phases
          /\ ~overtaken => Alone /\ Forwards /\ GuestBehind
          /\ ~replaced => Life /\ Lives
        BY DEF IInv, TypeOK
    <1>2. ASSUME [Step]_ownVars
          PROVE  /\ OwnTypeOK' /\ Bound' /\ Behind' /\ Phases'
                 /\ ~overtaken' => Alone' /\ Forwards'
                 /\ Life /\ Lives => Life' /\ Lives'
        <2>1. OwnTypeOK' /\ Bound' /\ Behind' /\ Phases'
            BY <1>1, <1>2, TypeStep, BoundStep, BehindStep, PhasesStep
        <2>2. ~overtaken' => Alone' /\ Forwards'
            BY <1>1, <1>2, OvertakenStays, AloneStep, ForwardsStep
        <2>3. ASSUME Life, Lives PROVE Life' /\ Lives'
            <3>1. OwnInv
                BY <2>3, <1>1 DEF OwnInv
            <3> QED BY <3>1, <2>3, <1>1, <1>2, LifeStep, LivesStep
        <2> QED BY <2>1, <2>2, <2>3
    <1>3. CASE GuestLoads \/ GuestSaves
        <2>1. [Step]_ownVars /\ replaced' = replaced
            BY <1>3 DEF GuestLoads, GuestSaves
        <2>2. GuestTypeOK' /\ GuestBound' /\ (~overtaken' => GuestBehind')
            BY <1>3, GuestPrepares
        <2> QED BY <2>1, <2>2, <1>1, <1>2 DEF IInv, TypeOK
    <1>4. CASE GuestWrites
        <2>1. /\ OwnTypeOK' /\ GuestTypeOK' /\ Bound' /\ GuestBound' /\ Behind' /\ Phases'
              /\ ~overtaken' => Alone' /\ Forwards' /\ GuestBehind'
            BY <1>1, <1>4, GuestWritesStep
        <2>2. ~replaced' => Life' /\ Lives'
            <3> SUFFICES ASSUME ~replaced' PROVE Life' /\ Lives'
                OBVIOUS
            <3>1. [Step]_ownVars
                BY StepOf
            <3>2. ~replaced
                BY <1>4 DEF GuestWrites
            <3> QED BY <3>1, <3>2, <1>1, <1>2
        <2> QED BY <2>1, <2>2 DEF IInv, TypeOK
    <1>5. CASE (OwnNext /\ Apart) \/ UNCHANGED vars
        <2>1. [Step]_ownVars /\ guest' = guest /\ replaced' = replaced
            BY <1>5 DEF Step, Apart, vars
        <2>2. GuestTypeOK'
            BY <2>1, <1>1 DEF GuestTypeOK, StateOK
        <2>3. GuestBound' /\ (~overtaken' => GuestBehind')
            BY <2>1, <1>1, GuestKept
        <2> QED BY <2>1, <2>2, <2>3, <1>1, <1>2 DEF IInv, TypeOK
    <1> QED BY <1>3, <1>4, <1>5 DEF Next

(* The invariant the theorems below rest on: bodies and uids belong        *)
(* together and what a flush answers is done, whatever another instance    *)
(* writes; and until it has replaced something, the newest save on its way *)
(* is the state in memory, and what a list on its way names comes before it. *)
THEOREM Invariance == Spec => []IInv
PROOF
    <1>1. Init => IInv
        BY InitIInv
    <1>2. IInv /\ [Next]_vars => IInv'
        BY IInvStep
    <1> QED BY <1>1, <1>2, PTL DEF Spec

(* The state in memory, the operations on their way and the files have     *)
(* their types, whatever is saved, killed, loaded and claimed.             *)
THEOREM TypeCorrect == Spec => []TypeOK
PROOF
    <1>1. IInv => TypeOK
        BY DEF IInv
    <1> QED BY <1>1, Invariance, PTL

(* execute_pending_messages before execute_batch, and the uid counter      *)
(* before the panels: as long as no synchronous save overtook a queued     *)
(* batch, and no other instance replaced a file by an older one, a message *)
(* handed over that the conversation file lists has its own file, through  *)
(* every kill and boot.                                                     *)
THEOREM ListedIntact == Spec => []ListedMessageIntact
PROOF
    <1>1. IInv => ListedMessageIntact
        <2> SUFFICES ASSUME IInv, ~overtaken, ~replaced, NEW i \in DOMAIN disk.chat,
                            disk.chat[i].handed, disk.chat[i].body \notin removed
                     PROVE  disk.message[disk.chat[i].uid] = disk.chat[i].body
            BY DEF ListedMessageIntact
        <2>1. InTime
            BY DEF IInv, Lives
        <2>2. Names(disk.chat, disk.chat[i].uid, disk.chat[i].body)
            BY DEF Names, Wanted
        <2>3. Stored(disk.chat[i].uid, disk.chat[i].body)
            BY <2>1, <2>2 DEF InTime
        <2> QED BY <2>3 DEF Stored
    <1> QED BY <1>1, Invariance, PTL

(* The coalescing of WriterThread::run: while no synchronous save overtook *)
(* a queued batch, only the claim of another instance puts an older        *)
(* config.json back.                                                        *)
THEOREM NeverBack == Spec => LatestStateWins
PROOF
    <1>1. IInv /\ [Next]_vars
          => [~overtaken' => disk'.config.ver >= disk.config.ver \/ disk'.config.owner = "other"]_vars
        <2> SUFFICES ASSUME IInv, [Next]_vars, ~overtaken'
                     PROVE  disk'.config.ver >= disk.config.ver \/ disk'.config.owner = "other"
            OBVIOUS
        <2>1. /\ OwnTypeOK /\ GuestTypeOK /\ Bound /\ GuestBound /\ Behind /\ Phases
              /\ ~overtaken => Alone /\ Forwards /\ GuestBehind
            BY DEF IInv, TypeOK
        <2>2. disk.config.ver \in Nat
            BY <2>1, ConfigTyped
        <2>3. CASE GuestWrites
            <3>1. ~overtaken
                BY <2>3 DEF GuestWrites, ghosts
            <3>2. disk'.config = disk.config \/ (~overtaken => disk'.config.owner = "other")
                BY <2>1, <2>3, GuestWritesStep
            <3> QED BY <3>1, <3>2, <2>2
        <2>4. CASE ~GuestWrites
            <3>1. [Step]_ownVars
                BY <2>4, StepOf
            <3>2. ~overtaken
                BY <2>1, <3>1, OvertakenStays
            <3>3. CfgLe(disk.config, disk'.config)
                BY <2>1, <3>1, <3>2, ForwardsStep
            <3>4. disk'.config.ver \in Nat
                <4>1. OwnTypeOK'
                    BY <2>1, <3>1, TypeStep
                <4>2. disk'.config \in Configs
                    BY <4>1, DiskFacts DEF OwnTypeOK
                <4> QED BY <4>2 DEF Configs
            <3> QED BY <3>3, <3>4, <2>2 DEF CfgLe
        <2> QED BY <2>3, <2>4
    <1> QED BY <1>1, Invariance, PTL DEF Spec, LatestStateWins

-----------------------------------------------------------------------------
(* The end of the program *)

(* What a loaded list says of messages that all have their files. *)
LEMMA LoadsBack ==
    ASSUME NEW d \in Disks, NEW list \in Seq(ListedMessages), NEW ms \in Seq(Messages), Same(list, ms),
           \A i \in DOMAIN ms : d.message[ms[i].uid] = ms[i].body
    PROVE  LoadMessages(d, list) = ms
PROOF
    <1>1. /\ Read(d, list) \in Seq(Loose) /\ Len(Read(d, list)) = Len(list) /\ DOMAIN Read(d, list) = DOMAIN list
          /\ \A i \in DOMAIN list : /\ Read(d, list)[i].uid = list[i].uid
                                    /\ Read(d, list)[i].body = d.message[list[i].uid]
          /\ LoadMessages(d, list) = Of(Read(d, list), Bodies)
        BY ReadFacts
    <1>2. ASSUME NEW i \in DOMAIN ms PROVE Read(d, list)[i] = ms[i]
        <2>1. i \in DOMAIN list /\ list[i].uid = ms[i].uid
            BY DEF Same
        <2>2. Read(d, list)[i] \in Loose /\ ms[i] \in Messages
            BY <1>1, <2>1
        <2>3. Read(d, list)[i].uid = ms[i].uid /\ Read(d, list)[i].body = ms[i].body
            BY <1>1, <2>1
        <2> QED BY <2>2, <2>3 DEF Loose, Messages
    <1>3. DOMAIN Read(d, list) = DOMAIN ms
        BY <1>1 DEF Same
    <1>4. Read(d, list) = ms
        BY <1>1, <1>2, <1>3
    <1>5. \A k \in 1 .. Len(ms) : ms[k].body \in Bodies
        <2>1. \A k \in 1 .. Len(ms) : ms[k] \in Messages
            OBVIOUS
        <2> QED BY <2>1 DEF Messages
    <1> QED BY <1>1, <1>4, <1>5, OfAll

(* When everything is written, the files are the state in memory. *)
Landed ==
    /\ RightConfig(mem, ReloadDue, disk.config) /\ disk.worker = DOMAIN mem.history /\ Same(disk.chat, mem.chat)
    /\ \A p \in DOMAIN mem.history :
           /\ RightPanel(mem, p, disk.panel[p])
           /\ \A i \in DOMAIN mem.history[p] : Stored(mem.history[p][i].uid, mem.history[p][i].body)
    /\ \A i \in DOMAIN mem.chat :
           mem.chat[i].body \in handed => Stored(mem.chat[i].uid, mem.chat[i].body)

LEMMA CalmLands ==
    ASSUME OwnTypeOK, Calm, mainOps = <<>>, Arrives, Newest
    PROVE  Landed
PROOF
    <1>1. /\ exec = <<>> /\ batch = <<>> /\ messages = <<>> /\ ~SomeBatch
        BY DEF Calm, SomeBatch, IsWork
    <1>2. Settles
        BY <1>1 DEF Newest
    <1>3. \A k, u : ~Coming(k, u)
        BY <1>1 DEF Coming, Has
    <1>4. ASSUME NEW i \in DOMAIN mem.chat, mem.chat[i].body \in handed
          PROVE  Stored(mem.chat[i].uid, mem.chat[i].body)
        <2>1. Due(mem.chat[i].uid, mem.chat[i].body, Len(chan))
            BY <1>4 DEF Arrives
        <2>2. \A u, b, n : ~FileOp(exec, u, b) /\ ~FileOp(messages, u, b) /\ ~Sent(u, b, n)
            BY <1>1 DEF FileOp, Sent, Calm, IsWork
        <2> QED BY <2>1, <2>2 DEF Due
    <1> QED BY <1>2, <1>3, <1>4 DEF Settles, Landed

LEMMA HistoryBack ==
    ASSUME OwnTypeOK, Landed
    PROVE  LoadState(disk).history = mem.history
PROOF
    <1> DEFINE m == LoadState(disk)
    <1>0. disk \in Disks
        BY DEF OwnTypeOK
    <1>1. /\ StateOK(m)
          /\ DOMAIN m.history = {p \in disk.worker : disk.panel[p] # NoPanel}
          /\ \A p \in DOMAIN m.history :
                 /\ disk.panel[p][1] \in Seq(ListedMessages)
                 /\ m.history[p] = LoadMessages(disk, disk.panel[p][1])
        BY <1>0, LoadStateFacts
    <1> HIDE DEF m
    <1>2. DOMAIN m.history = DOMAIN mem.history
        BY <1>1 DEF Landed, RightPanel, NoPanel
    <1>3. ASSUME NEW p \in DOMAIN mem.history PROVE m.history[p] = mem.history[p]
        <2>1. mem.history[p] \in Seq(Messages)
            BY ChatElements
        <2>2. Same(disk.panel[p][1], mem.history[p])
            BY DEF Landed, RightPanel
        <2>3. \A i \in DOMAIN mem.history[p] : disk.message[mem.history[p][i].uid] = mem.history[p][i].body
            BY DEF Landed, Stored
        <2>4. disk.panel[p][1] \in Seq(ListedMessages) /\ m.history[p] = LoadMessages(disk, disk.panel[p][1])
            BY <1>1, <1>2
        <2> QED BY <2>1, <2>2, <2>3, <2>4, <1>0, LoadsBack
    <1>4. m.history \in [DOMAIN m.history -> Seq(Messages)] /\ mem.history \in [DOMAIN mem.history -> Seq(Messages)]
        BY <1>1 DEF StateOK, OwnTypeOK, MainTypeOK
    <1>5. m.history = mem.history
        BY <1>2, <1>3, <1>4
    <1> QED BY <1>5 DEF m

LEMMA ChatBack ==
    ASSUME OwnTypeOK, Bound, Fresh, Landed
    PROVE  Of(LoadState(disk).chat, BodiesOf(mem.chat)) = Kept(mem.chat)
PROOF
    <1> DEFINE r == Read(disk, disk.chat)  B == BodiesOf(mem.chat)
    <1>0. disk \in Disks /\ disk.chat \in Seq(ListedMessages) /\ mem.chat \in Seq(Messages)
        BY ChatElements, DiskFacts
    <1>1. /\ r \in Seq(Loose) /\ Len(r) = Len(disk.chat) /\ Len(disk.chat) \in Nat
          /\ DOMAIN r = DOMAIN disk.chat /\ DOMAIN disk.chat = 1 .. Len(disk.chat)
          /\ \A i \in DOMAIN disk.chat : r[i].uid = disk.chat[i].uid /\ r[i].body = disk.message[disk.chat[i].uid]
          /\ LoadMessages(disk, disk.chat) = Of(r, Bodies)
        BY <1>0, ReadFacts
    <1>2. LoadState(disk).chat = LoadMessages(disk, disk.chat)
        BY <1>0, LoadStateFacts
    <1>3. B \subseteq Bodies
        BY ChatElements DEF BodiesOf
    <1> HIDE DEF r, B
    <1>4. Of(LoadState(disk).chat, B) = Of(r, B)
        BY <1>1, <1>2, <1>3, OfOf
    <1>5. /\ DOMAIN r = DOMAIN mem.chat /\ Len(r) \in Nat /\ Len(mem.chat) = Len(r) /\ DOMAIN mem.chat = 1 .. Len(r)
          /\ \A k \in DOMAIN mem.chat : r[k].uid = mem.chat[k].uid /\ r[k].body = disk.message[mem.chat[k].uid]
        <2>1. /\ DOMAIN disk.chat = DOMAIN mem.chat
              /\ \A k \in DOMAIN mem.chat : disk.chat[k].uid = mem.chat[k].uid
            BY DEF Landed, Same
        <2>2. Len(mem.chat) \in Nat /\ DOMAIN mem.chat = 1 .. Len(mem.chat)
            BY ChatElements
        <2>3. Len(mem.chat) = Len(disk.chat)
            <3>1. \A a, b \in Nat : 1 .. a = 1 .. b => a = b
                <4> SUFFICES ASSUME NEW a \in Nat, NEW b \in Nat, 1 .. a = 1 .. b PROVE a = b
                    OBVIOUS
                <4>1. a > 0 => a \in 1 .. b
                    OBVIOUS
                <4>2. b > 0 => b \in 1 .. a
                    OBVIOUS
                <4> QED BY <4>1, <4>2
            <3> QED BY <3>1, <2>1, <2>2, <1>1
        <2> QED BY <2>1, <2>2, <2>3, <1>1
    <1>6. ASSUME NEW k \in 1 .. Len(r)
          PROVE  /\ r[k].body \in B <=> mem.chat[k].body \in handed
                 /\ r[k].body \in B => r[k] = mem.chat[k]
        <2>1. k \in DOMAIN mem.chat /\ mem.chat[k] \in Messages /\ r[k] \in Loose /\ mem.chat[k].uid \in Uids
            BY <1>0, <1>1, <1>5, ChatElements
        <2>2. ASSUME mem.chat[k].body \in handed PROVE r[k].body = mem.chat[k].body /\ r[k].body \in B
            <3>1. Stored(mem.chat[k].uid, mem.chat[k].body)
                BY <2>1, <2>2 DEF Landed
            <3>2. r[k].body = mem.chat[k].body
                BY <3>1, <2>1, <1>5 DEF Stored
            <3> QED BY <3>2, <2>1 DEF B, BodiesOf
        <2>3. ASSUME r[k].body \in B PROVE r[k].body = mem.chat[k].body /\ mem.chat[k].body \in handed
            <3>1. PICK j \in DOMAIN mem.chat : mem.chat[j].body = r[k].body
                BY <2>3 DEF B, BodiesOf
            <3>2. Stored(mem.chat[k].uid, r[k].body)
                BY <2>1, <2>3, <1>3, <1>5 DEF Stored
            <3>3. Knows(mem.chat[j].uid, r[k].body)
                BY <3>1, ChatElements DEF Knows
            <3>4. mem.chat[j].uid = mem.chat[k].uid
                BY <3>2, <3>3 DEF Bound
            <3>5. j = k
                BY <3>1, <3>4, <2>1 DEF Fresh, Distinct
            <3>6. r[k].body \in handed
                BY <3>2 DEF Bound, Filed
            <3> QED BY <3>1, <3>5, <3>6
        <2>4. r[k].uid = mem.chat[k].uid
            BY <2>1, <1>5
        <2>5. r[k].body \in B => r[k] = mem.chat[k]
            BY <2>1, <2>3, <2>4 DEF Loose, Messages
        <2> QED BY <2>2, <2>3, <2>5
    <1>7. Of(r, B) = Of(mem.chat, handed)
        BY <1>5, <1>6, OfSame
    <1> QED BY <1>4, <1>7 DEF B, Kept

(* flush, save_state, write_reload_flag and Drop: when the program has     *)
(* ended in one of its four ways and no flush gave up, nothing handed to   *)
(* the writer is left; and unless another instance replaced something, a   *)
(* boot reads back the state memory held, and a reload has left its flag.  *)
THEOREM ExitSaves == Spec => []ExitPersistsAll
PROOF
    <1>1. IInv => ExitPersistsAll
        <2> SUFFICES ASSUME IInv, main = "down", exit \in Exits, ~timedOut
                     PROVE  /\ messages = <<>> /\ ~BatchQueued
                            /\ ~stale /\ ~replaced =>
                                   /\ LoadState(disk).next = mem.next
                                   /\ LoadState(disk).history = mem.history
                                   /\ Of(LoadState(disk).chat, BodiesOf(mem.chat)) = Kept(mem.chat)
                                   /\ disk.config.reload = (exit \in {"reload", "exec"})
            BY DEF ExitPersistsAll
        <2>1. OwnTypeOK /\ Bound /\ Phases
            BY DEF IInv, TypeOK
        <2>2. Calm /\ mainOps = <<>>
            BY <2>1 DEF Phases, Over
        <2>3. exit # "killed"
            BY DEF Exits
        <2>4. messages = <<>> /\ ~BatchQueued
            BY <2>2 DEF Calm, BatchQueued, IsWork
        <2> SUFFICES ASSUME ~stale, ~replaced
                     PROVE  /\ LoadState(disk).next = mem.next
                            /\ LoadState(disk).history = mem.history
                            /\ Of(LoadState(disk).chat, BodiesOf(mem.chat)) = Kept(mem.chat)
                            /\ disk.config.reload = (exit \in {"reload", "exec"})
            BY <2>4
        <2>5. Fresh /\ Arrives /\ Newest
            BY <2>3 DEF IInv, Life, Waits
        <2>6. Landed
            BY <2>1, <2>2, <2>5, CalmLands
        <2>7. LoadState(disk).next = disk.config.next
            BY <2>1, LoadStateFacts DEF OwnTypeOK
        <2>8. disk.config.next = mem.next /\ disk.config.reload = ReloadDue
            BY <2>6, Zenon DEF Landed, RightConfig
        <2>9. ReloadDue <=> exit \in {"reload", "exec"}
            BY DEF ReloadDue
        <2>10. ReloadDue = (exit \in {"reload", "exec"})
            BY <2>9 DEF ReloadDue
        <2>11. disk.config.reload = (exit \in {"reload", "exec"})
            BY ONLY <2>8, <2>10, Zenon
        <2> QED BY <2>1, <2>5, <2>6, <2>7, <2>8, <2>11, HistoryBack, ChatBack
    <1> QED BY <1>1, Invariance, PTL
=============================================================================
