----------------------- MODULE ConsoleSessionsProofs -----------------------
(***************************************************************************)
(* Console sessions for any number of keys, processes, exit codes and      *)
(* faults of either side.                                                  *)
(*                                                                         *)
(* Whatever shows a key as ended (a session, a handle, the reaper's notes) *)
(* is witnessed by a process of that key that is gone, with the code       *)
(* shown.  A session and the reaper's notes are of the present life of the *)
(* server, and so is their witness.  For a handle that is not enough: the  *)
(* status it takes from a session must come from a process of the server   *)
(* that spawned its own.  It does, because no process is spawned for a key *)
(* in a later life than the one the agent holds a handle on: the key was   *)
(* handed out once since the agent last started, and the requests of an    *)
(* earlier agent are lost with the server they were sent to.               *)
(***************************************************************************)
EXTENDS ConsoleSessions, TLAPS

Gone(p) == procs[p].state = "gone"
(* In one life of the server. *)
EndedIn(k, b) == \E p \in Pids : procs[p].key = k /\ procs[p].born = b /\ Gone(p)
EndedWith(k, b, c) == \E p \in Pids : procs[p].key = k /\ procs[p].born = b /\ Gone(p) /\ procs[p].code = c

(* Twins(p) = {p}, without the set. *)
Sole(p) == \A q \in Pids : procs[q].key = procs[p].key /\ procs[q].born = procs[p].born => q = p

(* Who names a process names the key it was spawned for. *)
ProcsSound ==
    \A p \in Pids : IF procs[p].state = "free" THEN procs[p] = Free
                    ELSE procs[p].key \in Keys /\ procs[p].born <= life
SessionKeys ==
    \A k \in Keys : IF sessions[k].pid = NoPid THEN sessions[k] = NoSession
                    ELSE procs[sessions[k].pid].key = k /\ sessions[k].status # None
CreatingKeys == \A c \in creating : procs[c.pid].key = c.key /\ c.from.key = c.key
WaiterKeys == \A w \in waiters : procs[w.pid].key \in Keys /\ (w.step = "report" => Gone(w.pid))
HandleKeys ==
    \A k \in Keys : IF handles[k].pid = NoPid THEN handles[k] = NoHandle
                    ELSE procs[handles[k].pid].key = k
ReplyKey == reply # NoPid => call.key \in Keys /\ procs[reply].key = call.key
SavedKeys == \A k \in DOMAIN saved.pids : procs[saved.pids[k]].key = k
KeysMatch == SessionKeys /\ CreatingKeys /\ WaiterKeys /\ HandleKeys /\ ReplyKey /\ SavedKeys

(* The server's tables are of its present life, and empty while it is down. *)
OfThisLife ==
    /\ \A k \in Keys : sessions[k].pid # NoPid => procs[sessions[k].pid].born = life
    /\ \A c \in creating : procs[c.pid].born = life
    /\ \A w \in waiters : procs[w.pid].born = life
    /\ server = "down" => /\ inbox = {} /\ creating = {} /\ waiters = {} /\ exitTimes = {}
                          /\ \A k \in Keys : sessions[k] = NoSession

(* A key the agent has a handle on, or has saved, is not handed out again. *)
Issued ==
    /\ \A k \in Keys : handles[k].pid # NoPid => k < next /\ call.key # k
    /\ \A k \in DOMAIN saved.pids : k < saved.next /\ (agent = "up" => k < next /\ call.key # k)
    /\ agent = "up" => call.key < next
    /\ agent = "down" => call = Idle

(* No process of key k is of a later life than p, or will be. *)
Asks(k) == \E r \in inbox : r.key = k
Latest(k, p) ==
    /\ \A q \in Pids : procs[q].key = k => procs[q].born <= procs[p].born
    /\ Asks(k) => procs[p].born = life
NamesLatest ==
    /\ \A k \in Keys : handles[k].pid # NoPid => Latest(k, handles[k].pid)
    /\ reply # NoPid => Latest(call.key, reply)
    /\ \A k \in DOMAIN saved.pids : Latest(k, saved.pids[k])

(* A key is shown as ended only when a process of that key is. *)
SessionEnded == \A k \in Keys : sessions[k].status \in Terminal => EndedIn(k, life)
NotedEnded == \A k \in exitTimes : EndedIn(k, life)
SessionCode == \A k \in Keys : \A c \in Codes : sessions[k].status = Exited(c) => EndedWith(k, life, c)
HandleCode ==
    \A k \in Keys : \A c \in Codes :
        handles[k].status = Exited(c) => EndedWith(k, procs[handles[k].pid].born, c)
ShownIsTrue == SessionEnded /\ NotedEnded /\ SessionCode /\ HandleCode

(* NoneUnmanaged of a process without a twin. *)
Managed(p) ==
    \/ sessions[procs[p].key].pid = p
    \/ \E c \in creating : c.pid = p
    \/ \E v \in killing : v.pid = p
AllManaged ==
    \A p \in Pids : Alive(p) /\ procs[p].born = life /\ server # "down" /\ Sole(p) => Managed(p)

IInv == TypeOK /\ ProcsSound /\ KeysMatch /\ OfThisLife /\ Issued /\ NamesLatest /\ ShownIsTrue /\ AllManaged

-----------------------------------------------------------------------------
(* The statuses are told apart. *)
LEMMA StatusFacts ==
    /\ Running # None /\ Running # Killed /\ None # Killed
    /\ \A c : Exited(c) # Running /\ Exited(c) # None /\ Exited(c) # Killed
    /\ \A c, d : Exited(c) = Exited(d) => c = d
    /\ Running \notin Terminal /\ None \notin Terminal /\ Killed \notin Terminal
    /\ \A c \in Codes \cup {Unknown} : Exited(c) \in Terminal
    /\ Unknown \notin Codes /\ NoPid \notin Pids /\ 0 \notin Keys /\ Keys \subseteq 0 .. MaxKeys
    /\ NoSession.pid = NoPid /\ NoSession.status = None /\ NoHandle.pid = NoPid /\ NoHandle.status = None
    /\ Free.state = "free" /\ Free.key = 0
<1>1. /\ Running[1] = "running" /\ None[1] = "none" /\ Killed[1] = "killed"
      /\ \A c : Exited(c)[1] = "exited" /\ Exited(c)[2] = c
  BY DEF Running, None, Killed, Exited
<1>2. \A t \in Terminal : t[1] = "exited"
  BY <1>1 DEF Terminal
<1>3. Unknown \notin Codes /\ NoPid \notin Pids /\ 0 \notin Keys /\ Keys \subseteq 0 .. MaxKeys
  BY BoundsAssumption DEF Unknown, NoPid, Pids, Keys
<1>4. \A c, d : Exited(c) = Exited(d) => c = d
  BY <1>1
<1>5. \A c \in Codes \cup {Unknown} : Exited(c) \in Terminal
  BY DEF Terminal
<1>6. /\ Running # None /\ Running # Killed /\ None # Killed
      /\ \A c : Exited(c) # Running /\ Exited(c) # None /\ Exited(c) # Killed
  BY <1>1
<1>7. Running \notin Terminal /\ None \notin Terminal /\ Killed \notin Terminal
  BY <1>1, <1>2
<1>8. /\ NoSession.pid = NoPid /\ NoSession.status = None /\ NoHandle.pid = NoPid /\ NoHandle.status = None
      /\ Free.state = "free" /\ Free.key = 0
  BY DEF NoSession, NoHandle, Free
<1> QED BY <1>3, <1>4, <1>5, <1>6, <1>7, <1>8

(* What the operators on processes and sessions return. *)
LEMMA DiesFacts ==
    ASSUME procs \in [Pids -> Processes], NEW p \in Pids, NEW c \in Codes \cup {Unknown}
    PROVE  /\ Dies(p, c) \in [Pids -> Processes]
           /\ Dies(p, c)[p].state \in {"zombie", "gone"}
           /\ Dies(p, c)[p].key = procs[p].key /\ Dies(p, c)[p].born = procs[p].born
           /\ \A q \in Pids : q # p => Dies(p, c)[q] = procs[q]
BY DEF Dies, Processes

LEMMA CollectedFacts ==
    ASSUME NEW ps \in [Pids -> Processes]
    PROVE  /\ Collected(ps) \in [Pids -> Processes]
           /\ \A p \in Pids : IF ps[p].state = "zombie"
                              THEN /\ Collected(ps)[p].state = "gone"
                                   /\ Collected(ps)[p].key = ps[p].key /\ Collected(ps)[p].born = ps[p].born
                              ELSE Collected(ps)[p] = ps[p]
BY DEF Collected, Processes

LEMMA PolledFacts ==
    ASSUME NEW s \in Sessions
    PROVE  /\ Polled(s) \in Sessions /\ Polled(s).pid = s.pid
           /\ \/ Polled(s) = s
              \/ s.status = Running /\ Polled(s).status = Exited(Unknown) /\ procs[s.pid].state = "gone"
BY StatusFacts DEF Polled, Sessions

LEMMA RemovedAt == ASSUME NEW ks, NEW k \in Keys PROVE Removed(ks)[k] = IF k \in ks THEN NoSession ELSE sessions[k]
BY DEF Removed

LEMMA DoomedAt ==
    ASSUME NEW ks, NEW k \in ks, sessions[k].status = Running
    PROVE  \E v \in Doomed(ks) : v.pid = sessions[k].pid
<1>1. [pid |-> sessions[k].pid, step |-> "term"] \in Doomed(ks)
  BY DEF Doomed
<1> QED BY <1>1

LEMMA RemovedFacts ==
    ASSUME sessions \in [Keys -> Sessions], SessionKeys, NEW ks \in SUBSET Keys
    PROVE  /\ Removed(ks) \in [Keys -> Sessions]
           /\ Doomed(ks) \subseteq [pid : Pids, step : {"term", "kill"}]
<1>1. Removed(ks) \in [Keys -> Sessions]
  BY DEF Removed, Sessions, NoSession
<1>2. \A k \in Keys : sessions[k].status = Running => sessions[k].pid \in Pids
  BY StatusFacts DEF SessionKeys, Sessions
<1>3. Doomed(ks) \subseteq [pid : Pids, step : {"term", "kill"}]
  BY <1>2 DEF Doomed
<1> QED BY <1>1, <1>3

-----------------------------------------------------------------------------
(* A process keeps its key and its server, and once it is gone, its code. *)
Ages(p) ==
    \/ procs'[p] = procs[p]
    \/ /\ procs[p].state \in {"running", "zombie"} /\ procs'[p].state \in {"zombie", "gone"}
       /\ procs'[p].key = procs[p].key /\ procs'[p].born = procs[p].born

(* Processes only age, but for the one a request spawns. *)
LEMMA ProcsMove ==
    ASSUME ServerTypeOK, [Next]_vars
    PROVE  procs' \in [Pids -> Processes] /\ ((\A p \in Pids : Ages(p)) \/ \E r \in inbox, p \in Pids : Spawn(r, p))
<1> DEFINE Kept == /\ procs' \in [Pids -> Processes]
                   /\ ((\A p \in Pids : Ages(p)) \/ \E r \in inbox, p \in Pids : Spawn(r, p))
<1> USE StatusFacts DEF Ages, ServerTypeOK
<1>1. ASSUME NEW r \in inbox, NEW p \in Pids, Spawn(r, p) PROVE Kept
  <2>1. r.key \in Keys /\ [state |-> "running", code |-> Unknown, key |-> r.key, born |-> life] \in Processes
    BY DEF Requests, Processes
  <2> QED BY <1>1, <2>1 DEF Spawn
<1>2. ASSUME NEW c \in creating, Insert(c) PROVE Kept
  BY <1>2 DEF Insert
<1>3. ASSUME NEW w \in waiters, Reap(w) PROVE Kept
  <2>1. procs[w.pid].state = "zombie" /\ w.pid \in Pids /\ procs' = [procs EXCEPT ![w.pid].state = "gone"]
    BY <1>3 DEF Reap
  <2> QED BY <2>1 DEF Processes
<1>4. ASSUME NEW w \in waiters, Report(w) PROVE Kept
  BY <1>4 DEF Report, agentVars
<1>5. ASSUME NEW v \in killing, SigTerm(v) PROVE Kept
  <2>1. v.pid \in Pids
    BY <1>5
  <2>2. CASE UNCHANGED procs
    BY <2>2
  <2>3. CASE Alive(v.pid) /\ procs' = Dies(v.pid, Unknown)
    BY <2>1, <2>3, DiesFacts DEF Alive
  <2> QED BY <1>5, <2>2, <2>3 DEF SigTerm
<1>6. ASSUME NEW v \in killing, SigKill(v) PROVE Kept
  <2>1. v.pid \in Pids
    BY <1>6
  <2>2. CASE ~Alive(v.pid)
    BY <1>6, <2>2 DEF SigKill
  <2>3. CASE Alive(v.pid)
    BY <1>6, <2>1, <2>3, DiesFacts DEF SigKill, Alive
  <2> QED BY <2>2, <2>3
<1>7. CASE ShutDown
  <2> DEFINE victims == {sessions[k].pid : k \in {k \in Keys : sessions[k].status = Running}}
             ps == [p \in Pids |-> IF p \in victims /\ Alive(p)
                                   THEN [procs[p] EXCEPT !.state = "gone", !.code = Unknown] ELSE procs[p]]
  <2>1. procs' = Collected(ps)
    BY <1>7 DEF ShutDown
  <2>2. ps \in [Pids -> Processes]
    <3>1. \A p \in Pids : [procs[p] EXCEPT !.state = "gone", !.code = Unknown] \in Processes
      <4>1. \A s \in Processes : [s EXCEPT !.state = "gone"] \in Processes /\ [s EXCEPT !.code = Unknown] \in Processes
        BY DEF Processes
      <4> QED BY <4>1, Zenon
    <3> QED BY <3>1
  <2>3. \A p \in Pids : \/ ps[p] = procs[p]
                        \/ /\ Alive(p) /\ ps[p].state = "gone"
                           /\ ps[p].key = procs[p].key /\ ps[p].born = procs[p].born
    BY DEF Processes
  <2> HIDE DEF ps
  <2> QED BY <2>1, <2>2, <2>3, CollectedFacts DEF Alive
<1>8. ASSUME NEW old \in SUBSET Keys, ReaperScan(old) PROVE Kept
  BY <1>8 DEF ReaperScan, agentVars
<1>9. ASSUME NEW p \in Pids, ProcExits(p) PROVE Kept
  <2>1. PICK c \in Codes : procs' = Dies(p, c)
    BY <1>9 DEF ProcExits
  <2> QED BY <1>9, <2>1, DiesFacts DEF ProcExits, Alive
<1>10. CASE ServerDies
  BY <1>10, CollectedFacts DEF ServerDies
<1>11. CASE RequestShutdown
  BY <1>11 DEF RequestShutdown, agentVars
<1>12. CASE Create
  BY <1>12 DEF Create
<1>13. CASE Retry
  BY <1>13 DEF Retry, FindOrCreateServer, Unanswered
<1>14. CASE GiveUp
  BY <1>14 DEF GiveUp, Unanswered, serverVars
<1>15. CASE Created
  BY <1>15 DEF Created, serverVars
<1>16. ASSUME NEW k \in Keys, StatusPoll(k) PROVE Kept
  BY <1>16 DEF StatusPoll
<1>17. ASSUME NEW k \in Keys, NEW keep \in BOOLEAN, Kill(k, keep) PROVE Kept
  BY <1>17 DEF Kill
<1>18. CASE Save
  BY <1>18 DEF Save, serverVars
<1>19. CASE AgentDies
  BY <1>19 DEF AgentDies
<1>20. CASE Boot
  BY <1>20 DEF Boot, FindOrCreateServer
<1>21. CASE UNCHANGED vars
  BY <1>21 DEF vars, serverVars, agentVars
<1> QED BY <1>1, <1>2, <1>3, <1>4, <1>5, <1>6, <1>7, <1>8, <1>9, <1>10, <1>11, <1>12,
           <1>13, <1>14, <1>15, <1>16, <1>17, <1>18, <1>19, <1>20, <1>21
        DEF Next, ServerStep

LEMMA NextServerTypeOK ==
    ASSUME TypeOK, SessionKeys, ReplyKey, [Next]_vars
    PROVE  ServerTypeOK'
<1> USE StatusFacts DEF TypeOK, ServerTypeOK
<1>1. ASSUME NEW r \in inbox, NEW p \in Pids, Spawn(r, p) PROVE ServerTypeOK'
  <2>1. r.key \in Keys /\ [pid |-> p, key |-> r.key, from |-> r] \in [pid : Pids, key : Keys, from : Requests]
    BY DEF Requests
  <2> QED BY <1>1, <2>1, ProcsMove DEF Spawn
<1>2. ASSUME NEW c \in creating, Insert(c) PROVE ServerTypeOK'
  <2>1. [pid |-> c.pid, status |-> Running] \in Sessions
    BY DEF Sessions
  <2> QED BY <1>2, <2>1, ProcsMove DEF Insert
<1>3. ASSUME NEW w \in waiters, Reap(w) PROVE ServerTypeOK'
  <2>1. [w EXCEPT !.step = "report"] \in [pid : Pids, step : {"wait", "report"}]
    OBVIOUS
  <2> QED BY <1>3, <2>1, ProcsMove DEF Reap
<1>4. ASSUME NEW w \in waiters, Report(w) PROVE ServerTypeOK'
  <2>1. sessions' \in [Keys -> Sessions]
    <3> DEFINE k == procs[w.pid].key
               e == Exited(procs[w.pid].code)
    <3>1. e \in Terminal
      BY DEF Processes
    <3>2. \/ sessions' = sessions
          \/ sessions' = [sessions EXCEPT ![k].status = e]
      BY <1>4 DEF Report
    <3> HIDE DEF k, e
    <3> QED BY <3>1, <3>2 DEF Sessions
  <2> QED BY <1>4, <2>1, ProcsMove DEF Report
<1>5. ASSUME NEW v \in killing, SigTerm(v) PROVE ServerTypeOK'
  <2>1. [v EXCEPT !.step = "kill"] \in [pid : Pids, step : {"term", "kill"}]
    OBVIOUS
  <2> QED BY <1>5, <2>1, ProcsMove DEF SigTerm
<1>6. ASSUME NEW v \in killing, SigKill(v) PROVE ServerTypeOK'
  BY <1>6, ProcsMove DEF SigKill, agentVars
<1>7. CASE ShutDown
  <2>1. NoSession \in Sessions
    BY DEF NoSession, Sessions
  <2> QED BY <1>7, <2>1, ProcsMove DEF ShutDown, ServerGone
<1>8. ASSUME NEW old \in SUBSET Keys, ReaperScan(old) PROVE ServerTypeOK'
  <2>1. NoSession \in Sessions /\ \A k \in Keys : Polled(sessions[k]) \in Sessions
    BY PolledFacts DEF NoSession, Sessions
  <2> QED BY <1>8, <2>1, ProcsMove DEF ReaperScan
<1>9. ASSUME NEW p \in Pids, ProcExits(p) PROVE ServerTypeOK'
  BY <1>9, ProcsMove DEF ProcExits, agentVars
<1>10. CASE ServerDies
  <2>1. NoSession \in Sessions
    BY DEF NoSession, Sessions
  <2> QED BY <1>10, <2>1, ProcsMove DEF ServerDies, ServerGone
<1>11. CASE RequestShutdown
  BY <1>11, ProcsMove DEF RequestShutdown, agentVars
<1>12. CASE Create
  <2>1. call' \in Requests
    BY <1>12 DEF Create, Requests
  <2> QED BY <1>12, <2>1, ProcsMove DEF Create
<1>13. CASE Retry
  <2>1. call' \in Requests
    BY <1>13 DEF Retry, Requests, Idle, AgentTypeOK
  <2> QED BY <1>13, <2>1, ProcsMove DEF Retry, FindOrCreateServer
<1>14. CASE GiveUp
  BY <1>14, ProcsMove DEF GiveUp, Unanswered, serverVars
<1>15. CASE Created
  BY <1>15, ProcsMove DEF Created, serverVars
<1>16. ASSUME NEW k \in Keys, StatusPoll(k) PROVE ServerTypeOK'
  <2>1. Polled(sessions[k]) \in Sessions
    BY PolledFacts
  <2> QED BY <1>16, <2>1, ProcsMove DEF StatusPoll
<1>17. ASSUME NEW k \in Keys, NEW keep \in BOOLEAN, Kill(k, keep) PROVE ServerTypeOK'
  BY <1>17, RemovedFacts, ProcsMove DEF Kill
<1>18. CASE Save
  BY <1>18, ProcsMove DEF Save, serverVars
<1>19. CASE AgentDies
  <2>1. /\ \A r \in inbox : [r EXCEPT !.phase = "dead"] \in Requests
        /\ \A c \in creating : [c EXCEPT !.from.phase = "dead"] \in [pid : Pids, key : Keys, from : Requests]
    BY DEF Requests
  <2> QED BY <1>19, <2>1, ProcsMove DEF AgentDies
<1>20. CASE Boot
  <2> DEFINE orphans == {k \in Keys : saved.next # 1 /\ k \notin DOMAIN saved.pids /\ sessions[k] # NoSession}
  <2>1. sessions' = Removed(orphans) /\ killing' = killing \cup Doomed(orphans) /\ orphans \in SUBSET Keys
    BY <1>20 DEF Boot
  <2> HIDE DEF orphans
  <2>2. sessions' \in [Keys -> Sessions] /\ killing' \subseteq [pid : Pids, step : {"term", "kill"}]
    BY <2>1, RemovedFacts
  <2> QED BY <1>20, <2>2, ProcsMove DEF Boot, FindOrCreateServer
<1>21. CASE UNCHANGED vars
  BY <1>21, ProcsMove DEF vars, serverVars, agentVars
<1> QED BY <1>1, <1>2, <1>3, <1>4, <1>5, <1>6, <1>7, <1>8, <1>9, <1>10, <1>11, <1>12,
           <1>13, <1>14, <1>15, <1>16, <1>17, <1>18, <1>19, <1>20, <1>21
        DEF Next, ServerStep

LEMMA NextAgentTypeOK ==
    ASSUME TypeOK, HandleKeys, [Next]_vars
    PROVE  AgentTypeOK'
<1> USE StatusFacts DEF TypeOK, AgentTypeOK
<1>1. ASSUME NEW r \in inbox, NEW p \in Pids, Spawn(r, p) PROVE AgentTypeOK'
  BY <1>1 DEF Spawn, agentVars
<1>2. ASSUME NEW c \in creating, Insert(c) PROVE AgentTypeOK'
  BY <1>2 DEF Insert, ServerTypeOK
<1>3. ASSUME NEW w \in waiters, Reap(w) PROVE AgentTypeOK'
  BY <1>3 DEF Reap, agentVars
<1>4. ASSUME NEW w \in waiters, Report(w) PROVE AgentTypeOK'
  BY <1>4 DEF Report, agentVars
<1>5. ASSUME NEW v \in killing, SigTerm(v) PROVE AgentTypeOK'
  BY <1>5 DEF SigTerm, agentVars
<1>6. ASSUME NEW v \in killing, SigKill(v) PROVE AgentTypeOK'
  BY <1>6 DEF SigKill, agentVars
<1>7. CASE ShutDown
  BY <1>7 DEF ShutDown, ServerGone, agentVars
<1>8. ASSUME NEW old \in SUBSET Keys, ReaperScan(old) PROVE AgentTypeOK'
  BY <1>8 DEF ReaperScan, agentVars
<1>9. ASSUME NEW p \in Pids, ProcExits(p) PROVE AgentTypeOK'
  BY <1>9 DEF ProcExits, agentVars
<1>10. CASE ServerDies
  BY <1>10 DEF ServerDies, ServerGone, agentVars
<1>11. CASE RequestShutdown
  BY <1>11 DEF RequestShutdown, agentVars
<1>12. CASE Create
  <2>1. call' \in Requests /\ next' \in 1 .. MaxKeys + 1
    BY <1>12, BoundsAssumption DEF Create, Requests, Keys
  <2> QED BY <1>12, <2>1 DEF Create
<1>13. CASE Retry
  <2>1. call' \in Requests /\ faults' \in Nat
    BY <1>13 DEF Retry, Unanswered, Requests, Idle
  <2> QED BY <1>13, <2>1 DEF Retry
<1>14. CASE GiveUp
  BY <1>14 DEF GiveUp, Unanswered, serverVars
<1>15. CASE Created
  <2>1. [pid |-> reply, status |-> Running] \in Handles
    BY <1>15 DEF Created, Handles
  <2> QED BY <1>15, <2>1 DEF Created, serverVars
<1>16. ASSUME NEW k \in Keys, StatusPoll(k) PROVE AgentTypeOK'
  <2>1. PolledStatus(k) \in {None, Running} \cup Terminal
    BY PolledFacts DEF PolledStatus, Sessions, ServerTypeOK
  <2>2. handles' \in [Keys -> Handles]
    BY <1>16, <2>1 DEF StatusPoll, Handles
  <2> QED BY <1>16, <2>2 DEF StatusPoll
<1>17. ASSUME NEW k \in Keys, NEW keep \in BOOLEAN, Kill(k, keep) PROVE AgentTypeOK'
  <2>1. /\ NoHandle \in Handles
        /\ \A h \in Handles : [h EXCEPT !.status = Killed] \in Handles
    BY DEF NoHandle, Handles
  <2>2. handles' \in [Keys -> Handles]
    BY <1>17, <2>1 DEF Kill
  <2> QED BY <1>17, <2>2 DEF Kill
<1>18. CASE Save
  <2> DEFINE live == {k \in Keys : handles[k].status = Running}
  <2>1. saved'.next = next /\ saved'.pids = [k \in live |-> handles[k].pid] /\ live \subseteq Keys
    BY <1>18 DEF Save
  <2>2. \A k \in live : handles[k].pid \in Pids
    BY DEF HandleKeys, Handles
  <2> HIDE DEF live
  <2> QED BY <1>18, <2>1, <2>2 DEF Save
<1>19. CASE AgentDies
  <2>1. NoHandle \in Handles /\ 1 \in 1 .. MaxKeys + 1
    BY BoundsAssumption DEF NoHandle, Handles
  <2> QED BY <1>19, <2>1 DEF AgentDies
<1>20. CASE Boot
  <2>1. NoHandle \in Handles /\ \A k \in Keys : PolledStatus(k) \in {None, Running} \cup Terminal
    BY PolledFacts DEF PolledStatus, Sessions, NoHandle, Handles, ServerTypeOK
  <2>2. \A k \in DOMAIN saved.pids : [pid |-> saved.pids[k], status |-> PolledStatus(k)] \in Handles
    BY <2>1 DEF Handles
  <2>3. handles' \in [Keys -> Handles]
    BY <1>20, <2>1, <2>2 DEF Boot
  <2> QED BY <1>20, <2>3 DEF Boot
<1>21. CASE UNCHANGED vars
  BY <1>21 DEF vars, serverVars, agentVars
<1> QED BY <1>1, <1>2, <1>3, <1>4, <1>5, <1>6, <1>7, <1>8, <1>9, <1>10, <1>11, <1>12,
           <1>13, <1>14, <1>15, <1>16, <1>17, <1>18, <1>19, <1>20, <1>21
        DEF Next, ServerStep

(* A life of the server begins only when it is down. *)
LEMMA LifeMoves ==
    ASSUME [Next]_vars
    PROVE  \/ life' = life /\ (server = "down" => server' = "down")
           \/ server = "down" /\ life' = life + 1
<1>1. (life' = life /\ (server = "down" => server' = "down")) \/ Retry \/ Boot
  BY DEF ServerGone, Next, ServerStep, Spawn, Insert, Reap, Report, SigTerm, SigKill, ShutDown, ReaperScan, ProcExits,
         ServerDies, RequestShutdown, Create, GiveUp, Created, StatusPoll, Kill, Save, AgentDies, vars, serverVars
<1>2. Retry \/ Boot => FindOrCreateServer
  BY DEF Retry, Boot
<1> QED BY <1>1, <1>2 DEF FindOrCreateServer

(* Keys are never taken back, and what has ended stays ended. *)
Lasting ==
    \A p \in Pids :
        /\ procs[p].key # 0 => procs'[p].key = procs[p].key /\ procs'[p].born = procs[p].born
        /\ Gone(p) => procs'[p] = procs[p]

LEMMA NextProcs ==
    ASSUME ServerTypeOK, ServerTypeOK', ProcsSound, [Next]_vars
    PROVE  Lasting /\ ProcsSound'
<1> USE StatusFacts DEF Lasting, ProcsSound, Gone
<1>1. life' \in Nat /\ life \in Nat /\ life <= life'
  BY LifeMoves DEF ServerTypeOK
<1>2. \A p \in Pids : procs[p].born \in Nat /\ procs'[p].born \in Nat
  BY DEF ServerTypeOK, Processes
<1>3. CASE \A p \in Pids : Ages(p)
  BY <1>1, <1>2, <1>3 DEF Ages
<1>4. CASE \E r \in inbox, p \in Pids : Spawn(r, p)
  <2>1. PICK r \in inbox, p \in Pids : Spawn(r, p)
    BY <1>4
  <2>2. r.key \in Keys /\ procs \in [Pids -> Processes] /\ life' = life
    BY <2>1 DEF ServerTypeOK, Requests, Spawn
  <2>3. /\ procs[p] = Free /\ procs'[p].state = "running" /\ procs'[p].key = r.key /\ procs'[p].born = life
        /\ \A q \in Pids : q # p => procs'[q] = procs[q]
    BY <2>1, <2>2 DEF Spawn
  <2> QED BY <1>1, <2>2, <2>3
<1> QED BY <1>3, <1>4, ProcsMove

(* Evidence that a key has ended lasts, and who has no twin had none. *)
LEMMA EvidenceLasts ==
    ASSUME Lasting
    PROVE  /\ \A k \in Keys : \A b : EndedIn(k, b) => \E p \in Pids : procs'[p].key = k /\ procs'[p].born = b /\ Gone(p)'
           /\ \A k \in Keys : \A b, c : EndedWith(k, b, c) =>
                  \E p \in Pids : procs'[p].key = k /\ procs'[p].born = b /\ Gone(p)' /\ procs'[p].code = c
           /\ \A p \in Pids : Sole(p)' /\ procs[p].key # 0 => Sole(p)
<1>1. ASSUME NEW p \in Pids, Sole(p)', procs[p].key # 0 PROVE Sole(p)
  <2> SUFFICES ASSUME NEW q \in Pids, procs[q].key = procs[p].key, procs[q].born = procs[p].born
               PROVE  q = p
    BY DEF Sole
  <2>1. /\ procs'[q].key = procs[q].key /\ procs'[q].born = procs[q].born
        /\ procs'[p].key = procs[p].key /\ procs'[p].born = procs[p].born
    BY <1>1 DEF Lasting
  <2> QED BY <1>1, <2>1 DEF Sole
<1>2. \A p \in Pids : Gone(p) => Gone(p)' /\ procs'[p] = procs[p]
  BY DEF Lasting, Gone
<1> QED BY <1>1, <1>2 DEF EndedIn, EndedWith

(* Names keep matching. *)
LEMMA NextKeysMatch ==
    ASSUME TypeOK, TypeOK', ProcsSound, KeysMatch, Lasting, [Next]_vars
    PROVE  KeysMatch'
<1> USE StatusFacts DEF KeysMatch
<1> DEFINE same == /\ UNCHANGED sessions => SessionKeys'
                   /\ creating' \subseteq creating => CreatingKeys'
                   /\ waiters' \subseteq waiters => WaiterKeys'
                   /\ UNCHANGED handles => HandleKeys'
                   /\ UNCHANGED <<call, reply>> => ReplyKey'
                   /\ UNCHANGED saved => SavedKeys'
<1>0. same
  <2>1. /\ \A k \in Keys : sessions[k].pid \in Pids \cup {NoPid} /\ handles[k].pid \in Pids \cup {NoPid}
        /\ \A c \in creating : c.pid \in Pids /\ c.key \in Keys
        /\ \A w \in waiters : w.pid \in Pids
        /\ reply \in Pids \cup {NoPid} /\ (call = Idle \/ call.key \in Keys)
        /\ DOMAIN saved.pids \subseteq Keys /\ \A k \in DOMAIN saved.pids : saved.pids[k] \in Pids
    BY DEF TypeOK, ServerTypeOK, AgentTypeOK, Sessions, Handles, Requests
  <2>2. \A p \in Pids : procs[p].key \in Keys => procs'[p].key = procs[p].key
    BY DEF Lasting
  <2>3. \A p \in Pids : Gone(p) => Gone(p)'
    BY DEF Lasting, Gone
  <2>4. UNCHANGED sessions => SessionKeys'
    BY <2>1, <2>2 DEF SessionKeys
  <2>5. creating' \subseteq creating => CreatingKeys'
    BY <2>1, <2>2 DEF CreatingKeys
  <2>6. waiters' \subseteq waiters => WaiterKeys'
    BY <2>1, <2>2, <2>3 DEF WaiterKeys
  <2>7. UNCHANGED handles => HandleKeys'
    BY <2>1, <2>2 DEF HandleKeys
  <2>8. UNCHANGED <<call, reply>> => ReplyKey'
    BY <2>1, <2>2 DEF ReplyKey
  <2>9. UNCHANGED saved => SavedKeys'
    BY <2>1, <2>2 DEF SavedKeys
  <2> QED BY <2>4, <2>5, <2>6, <2>7, <2>8, <2>9
<1> USE <1>0
<1>1. ASSUME NEW r \in inbox, NEW p \in Pids, Spawn(r, p) PROVE KeysMatch'
  <2>1. r.key \in Keys /\ procs \in [Pids -> Processes] /\ procs'[p].key = r.key
    BY <1>1 DEF TypeOK, ServerTypeOK, Requests, Spawn
  <2>2. \A q \in Pids : procs[q].key \in Keys => procs'[q].key = procs[q].key
    BY DEF Lasting
  <2>3. CreatingKeys'
    BY <1>1, <2>1, <2>2 DEF Spawn, CreatingKeys, TypeOK, ServerTypeOK
  <2>4. WaiterKeys'
    BY <1>1, <2>1, <2>2 DEF Spawn, WaiterKeys, TypeOK, ServerTypeOK, Lasting, Gone
  <2> QED BY <1>1, <2>3, <2>4 DEF Spawn, agentVars
<1>2. ASSUME NEW c \in creating, Insert(c) PROVE KeysMatch'
  <2>1. c.pid \in Pids /\ c.key \in Keys /\ procs[c.pid].key = c.key /\ c.from.key = c.key /\ UNCHANGED procs
    BY <1>2 DEF TypeOK, ServerTypeOK, Insert, CreatingKeys
  <2>2. SessionKeys'
    BY <1>2, <2>1 DEF Insert, SessionKeys, TypeOK, ServerTypeOK
  <2>3. ReplyKey'
    BY <1>2, <2>1 DEF Insert, ReplyKey, TypeOK, ServerTypeOK, Requests
  <2> QED BY <1>2, <2>2, <2>3 DEF Insert
<1>3. ASSUME NEW w \in waiters, Reap(w) PROVE KeysMatch'
  <2>1. w.pid \in Pids /\ procs'[w.pid].state = "gone" /\ procs[w.pid].key \in Keys
    BY <1>3 DEF TypeOK, ServerTypeOK, WaiterKeys, Reap
  <2>2. \A q \in Pids : (procs[q].key \in Keys => procs'[q].key = procs[q].key) /\ (Gone(q) => Gone(q)')
    BY DEF Lasting, Gone
  <2>3. \A x \in waiters' : x \in waiters \/ x.pid = w.pid
    BY <1>3 DEF Reap, TypeOK, ServerTypeOK
  <2>4. WaiterKeys'
    BY <2>1, <2>2, <2>3 DEF WaiterKeys, TypeOK, ServerTypeOK, Gone
  <2> QED BY <1>3, <2>4 DEF Reap, agentVars
<1>4. ASSUME NEW w \in waiters, Report(w) PROVE KeysMatch'
  <2>1. SessionKeys'
    <3> DEFINE k == procs[w.pid].key
               e == Exited(procs[w.pid].code)
    <3>1. \/ sessions' = sessions
          \/ sessions[k] # NoSession /\ sessions' = [sessions EXCEPT ![k].status = e]
      BY <1>4 DEF Report
    <3>2. UNCHANGED procs /\ sessions \in [Keys -> Sessions]
      BY <1>4 DEF Report, TypeOK, ServerTypeOK
    <3>3. e # None
      OBVIOUS
    <3> HIDE DEF k, e
    <3>4. \A j \in Keys : \/ sessions'[j] = sessions[j]
                          \/ /\ sessions[j] # NoSession
                             /\ sessions'[j].pid = sessions[j].pid /\ sessions'[j].status = e
      BY <3>1, <3>2 DEF Sessions
    <3> QED BY <3>2, <3>3, <3>4 DEF SessionKeys
  <2> QED BY <1>4, <2>1 DEF Report, agentVars
<1>5. ASSUME NEW v \in killing, SigTerm(v) PROVE KeysMatch'
  BY <1>5 DEF SigTerm, agentVars
<1>6. ASSUME NEW v \in killing, SigKill(v) PROVE KeysMatch'
  BY <1>6 DEF SigKill, agentVars
<1>7. CASE ShutDown
  <2>1. SessionKeys' /\ CreatingKeys' /\ WaiterKeys'
    BY <1>7 DEF ShutDown, ServerGone, SessionKeys, CreatingKeys, WaiterKeys
  <2> QED BY <1>7, <2>1 DEF ShutDown, agentVars
<1>8. ASSUME NEW old \in SUBSET Keys, ReaperScan(old) PROVE KeysMatch'
  <2>1. \A k \in Keys :
             /\ Polled(sessions[k]).pid = sessions[k].pid
             /\ (sessions[k] = NoSession => Polled(sessions[k]) = NoSession)
              /\ (sessions[k].status # None => Polled(sessions[k]).status # None)
    BY PolledFacts DEF TypeOK, ServerTypeOK
  <2>2. SessionKeys'
    BY <1>8, <2>1 DEF ReaperScan, SessionKeys
  <2> QED BY <1>8, <2>2 DEF ReaperScan, agentVars
<1>9. ASSUME NEW p \in Pids, ProcExits(p) PROVE KeysMatch'
  BY <1>9 DEF ProcExits, agentVars
<1>10. CASE ServerDies
  <2>1. SessionKeys' /\ CreatingKeys' /\ WaiterKeys'
    BY <1>10 DEF ServerDies, ServerGone, SessionKeys, CreatingKeys, WaiterKeys
  <2> QED BY <1>10, <2>1 DEF ServerDies, agentVars
<1>11. CASE RequestShutdown
  BY <1>11 DEF RequestShutdown, agentVars
<1>12. CASE Create
  <2>1. ReplyKey'
    BY <1>12 DEF Create, ReplyKey
  <2> QED BY <1>12, <2>1 DEF Create
<1>13. CASE Retry
  <2>1. ReplyKey'
    BY <1>13 DEF Retry, Unanswered, ReplyKey
  <2> QED BY <1>13, <2>1 DEF Retry
<1>14. CASE GiveUp
  <2>1. ReplyKey'
    BY <1>14 DEF GiveUp, Unanswered, ReplyKey
  <2> QED BY <1>14, <2>1 DEF GiveUp, serverVars
<1>15. CASE Created
  <2>1. ReplyKey'
    BY <1>15 DEF Created, ReplyKey
  <2>2. call.key \in Keys /\ procs[reply].key = call.key /\ UNCHANGED procs /\ handles \in [Keys -> Handles]
    BY <1>15 DEF Created, ReplyKey, TypeOK, AgentTypeOK, Requests, serverVars
  <2>3. HandleKeys'
    BY <1>15, <2>2 DEF Created, HandleKeys
  <2> QED BY <1>15, <2>1, <2>3 DEF Created, serverVars
<1>16. ASSUME NEW k \in Keys, StatusPoll(k) PROVE KeysMatch'
  <2>1. /\ Polled(sessions[k]).pid = sessions[k].pid
        /\ (sessions[k] = NoSession => Polled(sessions[k]) = NoSession)
        /\ (sessions[k].status # None => Polled(sessions[k]).status # None)
    BY PolledFacts DEF TypeOK, ServerTypeOK
  <2>2. SessionKeys'
    BY <1>16, <2>1 DEF StatusPoll, SessionKeys, TypeOK, ServerTypeOK
  <2>3. HandleKeys'
    BY <1>16 DEF StatusPoll, HandleKeys, TypeOK, AgentTypeOK, Handles
  <2> QED BY <1>16, <2>2, <2>3 DEF StatusPoll
<1>17. ASSUME NEW k \in Keys, NEW keep \in BOOLEAN, Kill(k, keep) PROVE KeysMatch'
  <2>1. SessionKeys'
    BY <1>17, RemovedAt DEF Kill, SessionKeys
  <2>2. handles'[k].pid = NoPid => handles'[k] = NoHandle
    BY <1>17 DEF Kill, HandleKeys, TypeOK, AgentTypeOK, Handles
  <2>3. handles'[k].pid # NoPid => handles'[k].pid = handles[k].pid
    BY <1>17 DEF Kill, TypeOK, AgentTypeOK, Handles
  <2>4. \A j \in Keys : j # k => handles'[j] = handles[j]
    BY <1>17 DEF Kill, TypeOK, AgentTypeOK
  <2>5. HandleKeys'
    BY <1>17, <2>2, <2>3, <2>4 DEF Kill, HandleKeys
  <2> QED BY <1>17, <2>1, <2>5 DEF Kill
<1>18. CASE Save
  <2> DEFINE live == {k \in Keys : handles[k].status = Running}
  <2>1. saved'.pids = [k \in live |-> handles[k].pid] /\ UNCHANGED procs
    BY <1>18 DEF Save, serverVars
  <2>2. \A k \in live : procs[handles[k].pid].key = k
    BY DEF HandleKeys
  <2> HIDE DEF live
  <2>3. SavedKeys'
    BY <2>1, <2>2 DEF SavedKeys
  <2> QED BY <1>18, <2>3 DEF Save, serverVars
<1>19. CASE AgentDies
  <2>1. HandleKeys' /\ ReplyKey'
    BY <1>19 DEF AgentDies, HandleKeys, ReplyKey
  <2> DEFINE Dead(c) == [c EXCEPT !.from.phase = "dead"]
  <2>2. \A c \in creating : Dead(c).pid = c.pid /\ Dead(c).key = c.key /\ Dead(c).from.key = c.from.key
    BY DEF TypeOK, ServerTypeOK, Requests
  <2>3. creating' = {Dead(c) : c \in creating} /\ UNCHANGED procs
    BY <1>19 DEF AgentDies
  <2> HIDE DEF Dead
  <2>4. CreatingKeys'
    BY <2>2, <2>3 DEF CreatingKeys
  <2> QED BY <1>19, <2>1, <2>4 DEF AgentDies
<1>20. CASE Boot
  <2> DEFINE orphans == {k \in Keys : saved.next # 1 /\ k \notin DOMAIN saved.pids /\ sessions[k] # NoSession}
  <2>1. sessions' = Removed(orphans) /\ orphans \in SUBSET Keys /\ UNCHANGED procs
    BY <1>20 DEF Boot
  <2> HIDE DEF orphans
  <2>2. \A k \in Keys : sessions'[k] = NoSession \/ sessions'[k] = sessions[k]
    <3> SUFFICES ASSUME NEW k \in Keys
                 PROVE  sessions'[k] = NoSession \/ sessions'[k] = sessions[k]
      OBVIOUS
    <3>1. Removed(orphans)[k] = IF k \in orphans THEN NoSession ELSE sessions[k]
      BY RemovedAt
    <3> QED BY ONLY <2>1, <3>1
  <2>4. SessionKeys'
    BY <2>1, <2>2 DEF SessionKeys
  <2>3. HandleKeys'
    BY <1>20 DEF Boot, HandleKeys, SavedKeys, TypeOK, AgentTypeOK
  <2> QED BY <1>20, <2>3, <2>4 DEF Boot
<1>21. CASE UNCHANGED vars
  BY <1>21 DEF vars, serverVars, agentVars
<1> QED BY <1>1, <1>2, <1>3, <1>4, <1>5, <1>6, <1>7, <1>8, <1>9, <1>10, <1>11, <1>12,
           <1>13, <1>14, <1>15, <1>16, <1>17, <1>18, <1>19, <1>20, <1>21
        DEF Next, ServerStep

(* The server's tables stay of its life. *)
LEMMA NextOfThisLife ==
    ASSUME TypeOK, TypeOK', KeysMatch, OfThisLife, Lasting, [Next]_vars
    PROVE  OfThisLife'
<1> USE StatusFacts
<1> DEFINE Fewer == /\ \A k \in Keys : sessions'[k].pid # NoPid => sessions'[k].pid = sessions[k].pid
                    /\ \A c \in creating' : \E d \in creating : d.pid = c.pid
                    /\ \A w \in waiters' : \E v \in waiters : v.pid = w.pid
           Empty == server' = "down" => /\ inbox' = {} /\ creating' = {} /\ waiters' = {} /\ exitTimes' = {}
                                        /\ \A k \in Keys : sessions'[k] = NoSession
<1>a. /\ \A k \in Keys : sessions[k].pid # NoPid => sessions[k].pid \in Pids /\ procs[sessions[k].pid].key # 0
      /\ \A c \in creating : c.pid \in Pids /\ procs[c.pid].key # 0
      /\ \A w \in waiters : w.pid \in Pids /\ procs[w.pid].key # 0
  BY DEF KeysMatch, SessionKeys, CreatingKeys, WaiterKeys, TypeOK, ServerTypeOK, Sessions
<1>b. \A q \in Pids : procs[q].key # 0 => procs'[q].born = procs[q].born
  BY DEF Lasting
<1>c. ASSUME Fewer, Empty PROVE OfThisLife'
  <2>1. CASE life' = life
    <3>1. ASSUME NEW k \in Keys, sessions'[k].pid # NoPid PROVE procs'[sessions'[k].pid].born = life'
      <4>1. sessions'[k].pid = sessions[k].pid /\ procs[sessions[k].pid].born = life
        BY <1>c, <3>1 DEF OfThisLife
      <4>2. procs'[sessions[k].pid].born = procs[sessions[k].pid].born
        BY <3>1, <4>1, <1>a, <1>b
      <4> QED BY <2>1, <4>1, <4>2
    <3>2. ASSUME NEW c \in creating' PROVE procs'[c.pid].born = life'
      <4>1. PICK d \in creating : d.pid = c.pid
        BY <1>c
      <4> QED BY <2>1, <4>1, <1>a, <1>b DEF OfThisLife
    <3>3. ASSUME NEW w \in waiters' PROVE procs'[w.pid].born = life'
      <4>1. PICK v \in waiters : v.pid = w.pid
        BY <1>c
      <4> QED BY <2>1, <4>1, <1>a, <1>b DEF OfThisLife
    <3> QED BY <3>1, <3>2, <3>3, <1>c DEF OfThisLife
  <2>2. CASE server = "down"
    BY <1>c, <2>2 DEF OfThisLife
  <2> QED BY <2>1, <2>2, LifeMoves
<1> USE <1>c
<1>1. ASSUME NEW r \in inbox, NEW p \in Pids, Spawn(r, p) PROVE OfThisLife'
  <2>1. /\ procs'[p].born = life /\ server' # "down" /\ UNCHANGED <<life, sessions>>
        /\ \A c \in creating' : c \in creating \/ c.pid = p
        /\ \A w \in waiters' : w \in waiters \/ w.pid = p
    BY <1>1 DEF Spawn, TypeOK, ServerTypeOK
  <2> QED BY <1>a, <1>b, <2>1 DEF OfThisLife
<1>2. ASSUME NEW c \in creating, Insert(c) PROVE OfThisLife'
  <2>1. /\ server' # "down" /\ UNCHANGED <<life, waiters>> /\ creating' \subseteq creating
        /\ \A k \in Keys : sessions'[k] = sessions[k] \/ sessions'[k].pid = c.pid
    BY <1>2 DEF Insert, TypeOK, ServerTypeOK
  <2> QED BY <1>a, <1>b, <2>1 DEF OfThisLife
<1>3. ASSUME NEW w \in waiters, Reap(w) PROVE OfThisLife'
  <2>1. \A x \in waiters' : x \in waiters \/ x.pid = w.pid
    BY <1>3 DEF Reap, TypeOK, ServerTypeOK
  <2> QED BY <1>3, <2>1 DEF Reap
<1>4. ASSUME NEW w \in waiters, Report(w) PROVE OfThisLife'
  <2>1. \A k \in Keys : sessions'[k].pid = sessions[k].pid
    BY <1>4 DEF Report, TypeOK, ServerTypeOK, Sessions
  <2> QED BY <1>4, <2>1 DEF Report
<1>5. ASSUME NEW v \in killing, SigTerm(v) PROVE OfThisLife'
  BY <1>5 DEF SigTerm
<1>6. ASSUME NEW v \in killing, SigKill(v) PROVE OfThisLife'
  BY <1>6 DEF SigKill
<1>7. CASE ShutDown
  BY <1>7 DEF ShutDown, ServerGone
<1>8. ASSUME NEW old \in SUBSET Keys, ReaperScan(old) PROVE OfThisLife'
  <2>1. \A k \in Keys : Polled(sessions[k]).pid = sessions[k].pid
    BY PolledFacts DEF TypeOK, ServerTypeOK
  <2> QED BY <1>8, <2>1 DEF ReaperScan
<1>9. ASSUME NEW p \in Pids, ProcExits(p) PROVE OfThisLife'
  BY <1>9 DEF ProcExits, OfThisLife
<1>10. CASE ServerDies
  BY <1>10 DEF ServerDies, ServerGone
<1>11. CASE RequestShutdown
  BY <1>11 DEF RequestShutdown
<1>12. CASE Create
  BY <1>12 DEF Create, OfThisLife
<1>13. CASE Retry
  BY <1>13 DEF Retry, FindOrCreateServer, OfThisLife
<1>14. CASE GiveUp
  BY <1>14 DEF GiveUp, serverVars, OfThisLife
<1>15. CASE Created
  BY <1>15 DEF Created, serverVars, OfThisLife
<1>16. ASSUME NEW k \in Keys, StatusPoll(k) PROVE OfThisLife'
  <2>1. Polled(sessions[k]).pid = sessions[k].pid /\ (sessions[k] = NoSession => Polled(sessions[k]) = NoSession)
    BY PolledFacts DEF TypeOK, ServerTypeOK
  <2>2. \A j \in Keys : sessions'[j].pid = sessions[j].pid /\ (sessions[j] = NoSession => sessions'[j] = NoSession)
    BY <1>16, <2>1 DEF StatusPoll, TypeOK, ServerTypeOK
  <2> QED BY <1>16, <2>2 DEF StatusPoll, OfThisLife
<1>17. ASSUME NEW k \in Keys, NEW keep \in BOOLEAN, Kill(k, keep) PROVE OfThisLife'
  <2>1. \A j \in Keys : sessions'[j] = sessions[j] \/ sessions'[j] = NoSession
    BY <1>17, RemovedAt DEF Kill
  <2> QED BY <1>17, <2>1 DEF Kill, OfThisLife
<1>18. CASE Save
  BY <1>18 DEF Save, serverVars, OfThisLife
<1>19. CASE AgentDies
  <2> DEFINE Dead(c) == [c EXCEPT !.from.phase = "dead"]
  <2>1. \A c \in creating : Dead(c).pid = c.pid
    BY DEF TypeOK, ServerTypeOK, Requests
  <2>2. creating' = {Dead(c) : c \in creating} /\ inbox' = {[r EXCEPT !.phase = "dead"] : r \in inbox}
    BY <1>19 DEF AgentDies
  <2> HIDE DEF Dead
  <2>3. UNCHANGED <<server, sessions, waiters, exitTimes>>
    BY <1>19 DEF AgentDies
  <2>4. Fewer
    BY <2>1, <2>2, <2>3
  <2>5. Empty
    BY <2>2, <2>3 DEF OfThisLife
  <2> QED BY <2>4, <2>5
<1>20. CASE Boot
  <2> DEFINE orphans == {k \in Keys : saved.next # 1 /\ k \notin DOMAIN saved.pids /\ sessions[k] # NoSession}
  <2>1. sessions' = Removed(orphans)
    BY <1>20 DEF Boot
  <2> HIDE DEF orphans
  <2>2. \A k \in Keys : sessions'[k] = NoSession \/ sessions'[k] = sessions[k]
    BY <2>1, RemovedAt
  <2>3. server' # "down"
    BY <1>20 DEF Boot, FindOrCreateServer
  <2> QED BY <1>20, <2>2, <2>3 DEF Boot
<1>21. CASE UNCHANGED vars
  BY <1>21 DEF vars, serverVars, OfThisLife
<1> QED BY <1>1, <1>2, <1>3, <1>4, <1>5, <1>6, <1>7, <1>8, <1>9, <1>10, <1>11, <1>12,
           <1>13, <1>14, <1>15, <1>16, <1>17, <1>18, <1>19, <1>20, <1>21
        DEF Next, ServerStep

(* A key in use is not handed out again. *)
LEMMA NextIssued ==
    ASSUME TypeOK, HandleKeys, Issued, [Next]_vars
    PROVE  Issued'
<1> USE StatusFacts
<1>0. UNCHANGED <<agent, next, handles, call, saved>> => Issued'
  BY DEF Issued
<1>a. next \in Nat /\ saved.next \in Nat /\ saved.next >= 1 /\ next >= 1 /\ Idle.key = 0 /\ Keys \subseteq Nat
      /\ DOMAIN saved.pids \subseteq Keys
  BY BoundsAssumption DEF TypeOK, AgentTypeOK, Idle, Keys
<1> USE <1>0
<1>1. ASSUME NEW r \in inbox, NEW p \in Pids, Spawn(r, p) PROVE Issued'
  BY <1>1 DEF Spawn, agentVars
<1>2. ASSUME NEW c \in creating, Insert(c) PROVE Issued'
  BY <1>2 DEF Insert
<1>3. ASSUME NEW w \in waiters, Reap(w) PROVE Issued'
  BY <1>3 DEF Reap, agentVars
<1>4. ASSUME NEW w \in waiters, Report(w) PROVE Issued'
  BY <1>4 DEF Report, agentVars
<1>5. ASSUME NEW v \in killing, SigTerm(v) PROVE Issued'
  BY <1>5 DEF SigTerm, agentVars
<1>6. ASSUME NEW v \in killing, SigKill(v) PROVE Issued'
  BY <1>6 DEF SigKill, agentVars
<1>7. CASE ShutDown
  BY <1>7 DEF ShutDown, agentVars
<1>8. ASSUME NEW old \in SUBSET Keys, ReaperScan(old) PROVE Issued'
  BY <1>8 DEF ReaperScan, agentVars
<1>9. ASSUME NEW p \in Pids, ProcExits(p) PROVE Issued'
  BY <1>9 DEF ProcExits, agentVars
<1>10. CASE ServerDies
  BY <1>10 DEF ServerDies, agentVars
<1>11. CASE RequestShutdown
  BY <1>11 DEF RequestShutdown, agentVars
<1>12. CASE Create
  <2>1. agent' = "up" /\ agent = "up" /\ call'.key = next /\ next' = next + 1 /\ UNCHANGED <<handles, saved>>
    BY <1>12 DEF Create
  <2>2. \A k \in Keys : k < next => k < next + 1 /\ k # next
    BY <1>a
  <2>3. next < next + 1
    BY <1>a
  <2> QED BY <1>a, <2>1, <2>2, <2>3 DEF Issued
<1>13. CASE Retry
  <2>1. agent = "up" /\ agent' = "up" /\ call'.key = call.key /\ UNCHANGED <<next, handles, saved>>
    BY <1>13 DEF Retry, Unanswered, TypeOK, AgentTypeOK, Requests, Idle
  <2> QED BY <2>1 DEF Issued
<1>14. CASE GiveUp
  <2>1. agent = "up" /\ agent' = "up" /\ call' = Idle /\ UNCHANGED <<next, handles, saved>>
    BY <1>14 DEF GiveUp, Unanswered
  <2> QED BY <1>a, <2>1 DEF Issued
<1>15. CASE Created
  <2>1. /\ agent = "up" /\ agent' = "up" /\ call' = Idle /\ UNCHANGED <<next, saved>>
        /\ \A k \in Keys : handles'[k] = handles[k] \/ k = call.key
    BY <1>15 DEF Created, TypeOK, AgentTypeOK
  <2> QED BY <1>a, <2>1 DEF Issued
<1>16. ASSUME NEW k \in Keys, StatusPoll(k) PROVE Issued'
  <2>1. (\A j \in Keys : handles'[j].pid = handles[j].pid) /\ UNCHANGED <<agent, next, call, saved>>
    BY <1>16 DEF StatusPoll, TypeOK, AgentTypeOK, Handles
  <2> QED BY <2>1 DEF Issued
<1>17. ASSUME NEW k \in Keys, NEW keep \in BOOLEAN, Kill(k, keep) PROVE Issued'
  <2>1. /\ \A j \in Keys : handles'[j].pid # NoPid => handles[j].pid # NoPid
        /\ UNCHANGED <<agent, next, call, saved>>
    BY <1>17 DEF Kill, TypeOK, AgentTypeOK, Handles
  <2> QED BY <2>1 DEF Issued
<1>18. CASE Save
  <2>1. /\ saved'.next = next /\ DOMAIN saved'.pids = {k \in Keys : handles[k].status = Running}
        /\ agent = "up" /\ UNCHANGED <<agent, next, handles, call>>
    BY <1>18 DEF Save
  <2>2. \A k \in Keys : handles[k].status = Running => handles[k].pid # NoPid
    BY DEF HandleKeys
  <2> QED BY <2>1, <2>2 DEF Issued
<1>19. CASE AgentDies
  <2>1. /\ \A k \in Keys : handles'[k].pid = NoPid
        /\ agent' = "down" /\ call' = Idle /\ UNCHANGED saved
    BY <1>19 DEF AgentDies
  <2> QED BY <2>1 DEF Issued
<1>20. CASE Boot
  <2>1. /\ \A k \in Keys : handles'[k].pid # NoPid => k \in DOMAIN saved.pids
        /\ agent = "down" /\ agent' = "up" /\ next' = saved.next /\ UNCHANGED <<call, saved>>
    BY <1>20 DEF Boot
  <2>2. call = Idle /\ \A k \in DOMAIN saved.pids : k < saved.next
    BY <2>1 DEF Issued
  <2> QED BY <1>a, <2>1, <2>2 DEF Issued
<1>21. CASE UNCHANGED vars
  BY <1>21 DEF vars, agentVars
<1> QED BY <1>1, <1>2, <1>3, <1>4, <1>5, <1>6, <1>7, <1>8, <1>9, <1>10, <1>11, <1>12,
           <1>13, <1>14, <1>15, <1>16, <1>17, <1>18, <1>19, <1>20, <1>21
        DEF Next, ServerStep

(* Who comes to ask for a key asked before, or asks now. *)
LEMMA AsksMoves ==
    ASSUME TypeOK, OfThisLife, [Next]_vars, NEW k \in Keys, Asks(k)'
    PROVE  (Asks(k) /\ life' = life) \/ (call'.key = k /\ reply' = NoPid /\ agent' = "up")
<1> DEFINE Old == \A r \in inbox' : \E s \in inbox : s.key = r.key
           Now == /\ \A r \in inbox' : r = call' \/ \E s \in inbox : s.key = r.key
                  /\ reply' = NoPid /\ agent' = "up"
<1>0. inbox' \subseteq inbox => Old
  OBVIOUS
<1>12. Create => Now
  BY DEF Create
<1>13. Retry => Now
  BY DEF Retry, Unanswered
<1>19. ASSUME AgentDies PROVE Old
  <2>1. \A r \in inbox : [r EXCEPT !.phase = "dead"].key = r.key
    BY DEF TypeOK, ServerTypeOK, Requests
  <2> QED BY <1>19, <2>1 DEF AgentDies
<1>21. Create \/ Retry \/ AgentDies \/ inbox' \subseteq inbox
  BY DEF ServerGone, Next, ServerStep, Spawn, Insert, Reap, Report, SigTerm, SigKill, ShutDown, ReaperScan, ProcExits,
         ServerDies, RequestShutdown, GiveUp, Created, StatusPoll, Kill, Save, Boot, vars, serverVars
<1>22. Old \/ Now
  BY <1>0, <1>12, <1>13, <1>19, <1>21, Zenon
<1>23. PICK r \in inbox' : r.key = k
  BY DEF Asks
<1>24. CASE \E s \in inbox : s.key = k
  <2>1. server # "down"
    BY <1>24 DEF OfThisLife
  <2> QED BY <1>24, <2>1, LifeMoves DEF Asks
<1>25. CASE ~\E s \in inbox : s.key = k
  BY <1>22, <1>23, <1>25
<1> QED BY <1>24, <1>25

LEMMA LatestKeeps ==
    ASSUME TypeOK, TypeOK', ProcsSound, Lasting, [Next]_vars,
           NEW k \in Keys, NEW p \in Pids, procs[p].key = k, Latest(k, p),
           Asks(k)' => Asks(k) /\ life' = life
    PROVE  Latest(k, p)'
<1>1. procs'[p].born = procs[p].born /\ k # 0
  BY StatusFacts DEF Lasting
<1>2. Asks(k)' => procs'[p].born = life'
  BY <1>1 DEF Latest
<1>3. ASSUME NEW q \in Pids, procs'[q].key = k PROVE procs'[q].born <= procs'[p].born
  <2>1. CASE \A x \in Pids : Ages(x)
    <3>1. procs[q].key = k /\ procs'[q].born = procs[q].born
      BY <1>3, <2>1 DEF Ages
    <3> QED BY <1>1, <3>1 DEF Latest
  <2>2. ASSUME NEW r \in inbox, NEW x \in Pids, Spawn(r, x) PROVE procs'[q].born <= procs'[p].born
    <3>1. /\ procs'[x].key = r.key /\ procs'[x].born = life
          /\ \A y \in Pids : y # x => procs'[y] = procs[y]
      BY <2>2 DEF Spawn, TypeOK, ServerTypeOK
    <3>2. CASE q = x
      <4>1. procs[p].born = life /\ life \in Nat
        BY <1>3, <3>1, <3>2 DEF Latest, Asks, TypeOK, ServerTypeOK
      <4> QED BY <1>1, <3>1, <3>2, <4>1
    <3>3. CASE q # x
      BY <1>1, <1>3, <3>1, <3>3 DEF Latest
    <3> QED BY <3>2, <3>3
  <2> QED BY <2>1, <2>2, ProcsMove DEF TypeOK
<1> QED BY <1>2, <1>3 DEF Latest

(* Where the names the agent holds come from. *)
NamesMove ==
    /\ \A k \in Keys : handles'[k].pid # NoPid =>
           \/ handles'[k].pid = handles[k].pid
           \/ k = call.key /\ handles'[k].pid = reply
           \/ k \in DOMAIN saved.pids /\ handles'[k].pid = saved.pids[k]
    /\ \A k \in DOMAIN saved'.pids :
           \/ k \in DOMAIN saved.pids /\ saved'.pids[k] = saved.pids[k]
           \/ k \in Keys /\ handles[k].pid # NoPid /\ saved'.pids[k] = handles[k].pid
    /\ reply' # NoPid => /\ call'.key = call.key
                         /\ reply' = reply \/ \E c \in creating : c.pid = reply' /\ c.key = call.key

LEMMA NamesMoves == ASSUME TypeOK, KeysMatch, [Next]_vars PROVE NamesMove
<1> USE StatusFacts
<1>0. UNCHANGED <<handles, saved, call, reply>> => NamesMove
  BY DEF NamesMove
<1>a. UNCHANGED <<handles, saved, call, reply>> \/ (\E c \in creating : Insert(c)) \/ Create \/ Retry \/ GiveUp
      \/ Created \/ (\E k \in Keys : StatusPoll(k) \/ \E keep \in BOOLEAN : Kill(k, keep))
      \/ Save \/ AgentDies \/ Boot
  BY DEF Next, ServerStep, Spawn, Reap, Report, SigTerm, SigKill, ShutDown, ReaperScan, ProcExits,
         ServerDies, RequestShutdown, vars, agentVars
<1>2. ASSUME NEW c \in creating, Insert(c) PROVE NamesMove
  <2>1. UNCHANGED <<handles, saved, call>> /\ reply' = IF c.from = call THEN c.pid ELSE reply
    BY <1>2 DEF Insert
  <2>2. c.from = call => c.key = call.key
    BY DEF KeysMatch, CreatingKeys
  <2> QED BY <2>1, <2>2 DEF NamesMove
<1>12. CASE Create
  BY <1>12 DEF Create, NamesMove
<1>13. CASE Retry
  BY <1>13 DEF Retry, Unanswered, NamesMove
<1>14. CASE GiveUp
  BY <1>14 DEF GiveUp, Unanswered, NamesMove
<1>15. CASE Created
  <2>1. /\ UNCHANGED saved /\ reply' = NoPid
        /\ \A k \in Keys : handles'[k] = handles[k] \/ (k = call.key /\ handles'[k].pid = reply)
    BY <1>15 DEF Created, TypeOK, AgentTypeOK
  <2> QED BY <2>1 DEF NamesMove
<1>16. ASSUME NEW k \in Keys, StatusPoll(k) PROVE NamesMove
  <2>1. (\A j \in Keys : handles'[j].pid = handles[j].pid) /\ UNCHANGED <<saved, call, reply>>
    BY <1>16 DEF StatusPoll, TypeOK, AgentTypeOK, Handles
  <2> QED BY <2>1 DEF NamesMove
<1>17. ASSUME NEW k \in Keys, NEW keep \in BOOLEAN, Kill(k, keep) PROVE NamesMove
  <2>1. /\ \A j \in Keys : handles'[j].pid # NoPid => handles'[j].pid = handles[j].pid
        /\ UNCHANGED <<saved, call, reply>>
    BY <1>17 DEF Kill, TypeOK, AgentTypeOK, Handles
  <2> QED BY <2>1 DEF NamesMove
<1>18. CASE Save
  <2> DEFINE live == {k \in Keys : handles[k].status = Running}
  <2>1. saved'.pids = [k \in live |-> handles[k].pid] /\ UNCHANGED <<handles, call, reply>>
    BY <1>18 DEF Save
  <2>2. \A k \in live : k \in Keys /\ handles[k].pid # NoPid
    BY DEF KeysMatch, HandleKeys
  <2> HIDE DEF live
  <2> QED BY <2>1, <2>2 DEF NamesMove
<1>19. CASE AgentDies
  BY <1>19 DEF AgentDies, NamesMove
<1>20. CASE Boot
  BY <1>20 DEF Boot, NamesMove
<1> QED BY <1>0, <1>a, <1>2, <1>12, <1>13, <1>14, <1>15, <1>16, <1>17, <1>18, <1>19, <1>20

(* No process of a later life comes to a key the agent holds. *)
LEMMA NextNamesLatest ==
    ASSUME TypeOK, TypeOK', ProcsSound, KeysMatch, OfThisLife, Issued', NamesLatest, Lasting, [Next]_vars
    PROVE  NamesLatest'
<1>1. NamesMove
  BY NamesMoves
<1>2. /\ \A k \in Keys : handles[k].pid # NoPid =>
             handles[k].pid \in Pids /\ procs[handles[k].pid].key = k /\ Latest(k, handles[k].pid)
      /\ reply # NoPid => call.key \in Keys /\ reply \in Pids /\ procs[reply].key = call.key /\ Latest(call.key, reply)
      /\ \A k \in DOMAIN saved.pids :
             k \in Keys /\ saved.pids[k] \in Pids /\ procs[saved.pids[k]].key = k /\ Latest(k, saved.pids[k])
  BY DEF TypeOK, AgentTypeOK, Handles, KeysMatch, HandleKeys, ReplyKey, SavedKeys, NamesLatest
<1>3. ASSUME NEW k \in Keys, handles'[k].pid # NoPid PROVE Latest(k, handles[k].pid)'
  <2> DEFINE p == handles'[k].pid
  <2>1. p \in Pids /\ procs[p].key = k /\ Latest(k, p)
    BY <1>1, <1>2, <1>3 DEF NamesMove
  <2>2. Asks(k)' => Asks(k) /\ life' = life
    BY <1>3, AsksMoves DEF Issued
  <2>3. ASSUME NEW q \in Pids, q = p PROVE Latest(k, q)'
    BY <2>1, <2>2, <2>3, LatestKeeps
  <2> QED BY <2>1, <2>3 DEF Latest
<1>4. ASSUME NEW k \in DOMAIN saved'.pids PROVE Latest(k, saved.pids[k])'
  <2> DEFINE p == saved'.pids[k]
  <2>1. k \in Keys /\ p \in Pids /\ procs[p].key = k /\ Latest(k, p)
    BY <1>1, <1>2 DEF NamesMove
  <2>2. Asks(k)' => Asks(k) /\ life' = life
    BY <2>1, AsksMoves DEF Issued
  <2>3. ASSUME NEW q \in Pids, q = p PROVE Latest(k, q)'
    BY <2>1, <2>2, <2>3, LatestKeeps
  <2> QED BY <2>1, <2>3 DEF Latest
<1>5. ASSUME reply' # NoPid PROVE Latest(call.key, reply)'
  <2> DEFINE p == reply'
             k == call'.key
  <2>1. ASSUME NEW c \in creating, c.pid = p, c.key = k
        PROVE  k \in Keys /\ p \in Pids /\ procs[p].key = k /\ Latest(k, p)
    <3>1. k \in Keys /\ p \in Pids /\ procs[p].key = k /\ procs[p].born = life
      BY <2>1 DEF KeysMatch, CreatingKeys, OfThisLife, TypeOK, ServerTypeOK
    <3>2. \A q \in Pids : procs[q].key = k => procs[q].born <= life
      BY <3>1, StatusFacts DEF ProcsSound, Free
    <3> QED BY <3>1, <3>2 DEF Latest
  <2>2. k \in Keys /\ p \in Pids /\ procs[p].key = k /\ Latest(k, p)
    BY <1>1, <1>2, <1>5, <2>1 DEF NamesMove
  <2>4. ASSUME NEW q \in Pids, NEW j \in Keys, q = p, j = k PROVE Latest(j, q)'
    <3>1. Asks(j)' => Asks(j) /\ life' = life
      BY <1>5, AsksMoves
    <3> QED BY <2>2, <2>4, <3>1, LatestKeeps
  <2> QED BY <2>2, <2>4 DEF Latest, Asks
<1> QED BY <1>3, <1>4, <1>5 DEF NamesLatest

(* What a poll of a session shows is true. *)
LEMMA PolledEnded ==
    ASSUME TypeOK, SessionKeys, OfThisLife, ShownIsTrue, NEW k \in Keys
    PROVE  /\ Polled(sessions[k]).status \in Terminal => EndedIn(k, life)
           /\ \A c \in Codes : Polled(sessions[k]).status = Exited(c) => EndedWith(k, life, c)
<1>1. sessions[k] \in Sessions
  BY DEF TypeOK, ServerTypeOK
<1>2. CASE Polled(sessions[k]) = sessions[k]
  BY <1>2 DEF ShownIsTrue, SessionEnded, SessionCode
<1>3. CASE /\ sessions[k].status = Running /\ Polled(sessions[k]).status = Exited(Unknown)
           /\ procs[sessions[k].pid].state = "gone"
  <2>1. sessions[k].pid \in Pids /\ procs[sessions[k].pid].key = k /\ procs[sessions[k].pid].born = life
    BY <1>1, <1>3, StatusFacts DEF SessionKeys, Sessions, OfThisLife
  <2>2. EndedIn(k, life)
    BY <1>3, <2>1 DEF EndedIn, Gone
  <2> QED BY <1>3, <2>2, StatusFacts
<1> QED BY <1>1, <1>2, <1>3, PolledFacts

(* A code the agent is told is that of a process of the server that         *)
(* spawned the one it asks about.                                           *)
LEMMA PolledOwn ==
    ASSUME TypeOK, ProcsSound, SessionKeys, OfThisLife, ShownIsTrue,
           NEW k \in Keys, NEW p \in Pids, procs[p].key = k, Latest(k, p),
           NEW c \in Codes, PolledStatus(k) = Exited(c)
    PROVE  EndedWith(k, procs[p].born, c)
<1>1. sessions[k] # NoSession /\ Polled(sessions[k]).status = Exited(c)
  BY StatusFacts DEF PolledStatus
<1>2. EndedWith(k, life, c)
  BY <1>1, PolledEnded
<1>3. sessions[k].pid \in Pids /\ procs[sessions[k].pid].key = k /\ procs[sessions[k].pid].born = life
  BY <1>1 DEF SessionKeys, OfThisLife, TypeOK, ServerTypeOK, Sessions
<1>4. life <= procs[p].born /\ procs[p].born <= life /\ life \in Nat /\ procs[p].born \in Nat
  BY <1>3, StatusFacts DEF Latest, ProcsSound, Free, TypeOK, ServerTypeOK, Processes
<1>5. procs[p].born = life
  BY <1>4
<1> QED BY <1>2, <1>5

(* What is shown stays true. *)
LEMMA NextShownIsTrue ==
    ASSUME TypeOK, ProcsSound, KeysMatch, OfThisLife, NamesLatest, ShownIsTrue, Lasting, [Next]_vars
    PROVE  ShownIsTrue'
<1> USE StatusFacts DEF ShownIsTrue
<1> DEFINE quiet == \A k \in Keys : sessions'[k].status \in Terminal => sessions'[k].status = sessions[k].status
           still == \A k \in Keys : handles'[k].status \in Terminal => handles'[k] = handles[k]
<1>0. /\ quiet => SessionEnded' /\ SessionCode'
      /\ exitTimes' \subseteq exitTimes => NotedEnded'
      /\ still => HandleCode'
  <2>1. /\ \A k \in Keys : sessions[k].status \in Terminal => life' = life
        /\ exitTimes # {} => life' = life
    BY LifeMoves DEF OfThisLife
  <2>2. exitTimes \subseteq Keys /\ \A c \in Codes : Exited(c) \in Terminal
    BY DEF TypeOK, ServerTypeOK
  <2>3. quiet => SessionEnded'
    BY <2>1, EvidenceLasts DEF SessionEnded, EndedIn
  <2>4. quiet => SessionCode'
    BY <2>1, <2>2, EvidenceLasts DEF SessionCode, EndedWith
  <2>5. exitTimes' \subseteq exitTimes => NotedEnded'
    BY <2>1, <2>2, EvidenceLasts DEF NotedEnded, EndedIn
  <2>6. ASSUME still PROVE HandleCode'
    <3> SUFFICES ASSUME NEW k \in Keys, NEW c \in Codes, handles'[k].status = Exited(c)
                 PROVE  EndedWith(k, procs[handles[k].pid].born, c)'
      BY DEF HandleCode
    <3>1. handles'[k] = handles[k] /\ EndedWith(k, procs[handles[k].pid].born, c)
      BY <2>2, <2>6 DEF HandleCode
    <3>2. handles[k].pid \in Pids /\ procs[handles[k].pid].key = k /\ k # 0
      BY <2>6 DEF KeysMatch, HandleKeys, TypeOK, AgentTypeOK, Handles
    <3>3. procs'[handles[k].pid].born = procs[handles[k].pid].born
      BY <3>2 DEF Lasting
    <3> DEFINE b == procs[handles[k].pid].born
    <3>4. EndedWith(k, b, c) /\ procs'[handles'[k].pid].born = b
      BY <3>1, <3>3
    <3> HIDE DEF b
    <3>5. PICK p \in Pids : procs[p].key = k /\ procs[p].born = b /\ Gone(p) /\ procs[p].code = c
      BY <3>4 DEF EndedWith
    <3>6. procs'[p] = procs[p]
      BY <3>5 DEF Lasting
    <3> QED BY <3>4, <3>5, <3>6 DEF EndedWith, Gone
  <2> QED BY <2>3, <2>4, <2>5, <2>6
<1> USE <1>0
<1>1. ASSUME NEW r \in inbox, NEW p \in Pids, Spawn(r, p) PROVE ShownIsTrue'
  BY <1>1 DEF Spawn, agentVars
<1>2. ASSUME NEW c \in creating, Insert(c) PROVE ShownIsTrue'
  <2>1. quiet
    BY <1>2 DEF Insert, TypeOK, ServerTypeOK
  <2> QED BY <1>2, <2>1 DEF Insert
<1>3. ASSUME NEW w \in waiters, Reap(w) PROVE ShownIsTrue'
  BY <1>3 DEF Reap, agentVars
<1>4. ASSUME NEW w \in waiters, Report(w) PROVE ShownIsTrue'
  <2> DEFINE k == procs[w.pid].key
             e == Exited(procs[w.pid].code)
  <2>1. w.pid \in Pids /\ k \in Keys /\ Gone(w.pid) /\ procs[w.pid].born = life /\ UNCHANGED <<procs, life>>
    BY <1>4 DEF Report, KeysMatch, WaiterKeys, OfThisLife, TypeOK, ServerTypeOK
  <2>2. \A j \in Keys : sessions'[j].status = sessions[j].status \/ (j = k /\ sessions'[j].status = e)
    BY <1>4, <2>1 DEF Report, TypeOK, ServerTypeOK, Sessions
  <2>3. SessionEnded'
    BY <2>1, <2>2 DEF SessionEnded, EndedIn, Gone
  <2>4. SessionCode'
    BY <2>1, <2>2 DEF SessionCode, EndedWith, Gone
  <2> QED BY <1>4, <2>3, <2>4 DEF Report, agentVars
<1>5. ASSUME NEW v \in killing, SigTerm(v) PROVE ShownIsTrue'
  BY <1>5 DEF SigTerm, agentVars
<1>6. ASSUME NEW v \in killing, SigKill(v) PROVE ShownIsTrue'
  BY <1>6 DEF SigKill, agentVars
<1>7. CASE ShutDown
  <2>1. quiet /\ exitTimes' = {}
    BY <1>7 DEF ShutDown, ServerGone
  <2> QED BY <1>7, <2>1 DEF ShutDown, agentVars
<1>8. ASSUME NEW old \in SUBSET Keys, ReaperScan(old) PROVE ShownIsTrue'
  <2> DEFINE Now(k) == Polled(sessions[k])
  <2>1. \A k \in Keys : Now(k).status \in Terminal => EndedIn(k, life)
    BY PolledEnded DEF KeysMatch
  <2>2. \A k \in Keys : sessions'[k] = (IF k \in old THEN NoSession ELSE Now(k))
    BY <1>8 DEF ReaperScan
  <2>3. \A k \in Keys : k \in exitTimes' => k \in exitTimes \/ Now(k).status \in Terminal
    BY <1>8 DEF ReaperScan
  <2>4. exitTimes' \subseteq Keys /\ UNCHANGED <<procs, handles, life>>
    BY <1>8 DEF ReaperScan, agentVars, TypeOK, ServerTypeOK
  <2>5. \A k \in Keys, c \in Codes : Now(k).status = Exited(c) => EndedWith(k, life, c)
    BY PolledEnded DEF KeysMatch
  <2> HIDE DEF Now
  <2>6. SessionEnded' /\ NotedEnded'
    BY <2>1, <2>2, <2>3, <2>4 DEF SessionEnded, NotedEnded, EndedIn, Gone
  <2>7. SessionCode'
    BY <2>2, <2>4, <2>5 DEF SessionCode, EndedWith, Gone
  <2> QED BY <2>4, <2>6, <2>7
<1>9. ASSUME NEW p \in Pids, ProcExits(p) PROVE ShownIsTrue'
  BY <1>9 DEF ProcExits, agentVars
<1>10. CASE ServerDies
  <2>1. quiet /\ exitTimes' = {}
    BY <1>10 DEF ServerDies, ServerGone
  <2> QED BY <1>10, <2>1 DEF ServerDies, agentVars
<1>11. CASE RequestShutdown
  BY <1>11 DEF RequestShutdown, agentVars
<1>12. CASE Create
  BY <1>12 DEF Create
<1>13. CASE Retry
  BY <1>13 DEF Retry, FindOrCreateServer, Unanswered
<1>14. CASE GiveUp
  BY <1>14 DEF GiveUp, Unanswered, serverVars
<1>15. CASE Created
  <2>1. still
    BY <1>15 DEF Created, TypeOK, AgentTypeOK
  <2> QED BY <1>15, <2>1 DEF Created, serverVars
<1>16. ASSUME NEW k \in Keys, StatusPoll(k) PROVE ShownIsTrue'
  <2>1. Polled(sessions[k]).status \in Terminal => EndedIn(k, life)
    BY PolledEnded DEF KeysMatch
  <2>2. \A c \in Codes : Polled(sessions[k]).status = Exited(c) => EndedWith(k, life, c)
    BY PolledEnded DEF KeysMatch
  <2>3. handles[k].pid \in Pids /\ procs[handles[k].pid].key = k /\ Latest(k, handles[k].pid)
    BY <1>16 DEF StatusPoll, KeysMatch, HandleKeys, NamesLatest, TypeOK, AgentTypeOK, Handles
  <2>4. \A c \in Codes : PolledStatus(k) = Exited(c) => EndedWith(k, procs[handles[k].pid].born, c)
    BY <2>3, PolledOwn DEF KeysMatch
  <2>5. /\ UNCHANGED <<procs, exitTimes, life>>
        /\ \A j \in Keys : sessions'[j] = (IF j = k THEN Polled(sessions[k]) ELSE sessions[j])
        /\ \A j \in Keys : /\ handles'[j].pid = handles[j].pid
                            /\ handles'[j].status = (IF j = k THEN PolledStatus(k) ELSE handles[j].status)
    BY <1>16 DEF StatusPoll, TypeOK, ServerTypeOK, AgentTypeOK, Handles
  <2>6. SessionEnded'
    BY <2>1, <2>5 DEF SessionEnded, EndedIn, Gone
  <2>7. SessionCode'
    BY <2>2, <2>5 DEF SessionCode, EndedWith, Gone
  <2>8. HandleCode'
    <3> SUFFICES ASSUME NEW j \in Keys, NEW c \in Codes, handles'[j].status = Exited(c)
                 PROVE  EndedWith(j, procs[handles[j].pid].born, c)'
      BY DEF HandleCode
    <3>1. EndedWith(j, procs[handles[j].pid].born, c)
      BY <2>4, <2>5 DEF HandleCode
    <3> QED BY <2>5, <3>1 DEF EndedWith, Gone
  <2> QED BY <2>5, <2>6, <2>7, <2>8
<1>17. ASSUME NEW k \in Keys, NEW keep \in BOOLEAN, Kill(k, keep) PROVE ShownIsTrue'
  <2>1. quiet
    BY <1>17, RemovedAt DEF Kill
  <2>2. \A j \in Keys : j # k => handles'[j] = handles[j]
    BY <1>17 DEF Kill, TypeOK, AgentTypeOK
  <2>3. handles'[k].status \in Terminal => handles'[k] = handles[k]
    BY <1>17 DEF Kill, TypeOK, AgentTypeOK, Handles
  <2> QED BY <1>17, <2>1, <2>2, <2>3 DEF Kill
<1>18. CASE Save
  BY <1>18 DEF Save, serverVars
<1>19. CASE AgentDies
  <2>1. still
    BY <1>19 DEF AgentDies
  <2> QED BY <1>19, <2>1 DEF AgentDies
<1>20. CASE Boot
  <2> DEFINE orphans == {k \in Keys : saved.next # 1 /\ k \notin DOMAIN saved.pids /\ sessions[k] # NoSession}
  <2>1. sessions' = Removed(orphans) /\ orphans \in SUBSET Keys /\ UNCHANGED <<procs, exitTimes>>
    BY <1>20 DEF Boot
  <2> HIDE DEF orphans
  <2>2. \A k \in Keys : sessions'[k] = NoSession \/ sessions'[k] = sessions[k]
    <3> SUFFICES ASSUME NEW k \in Keys
                 PROVE  sessions'[k] = NoSession \/ sessions'[k] = sessions[k]
      OBVIOUS
    <3>1. Removed(orphans)[k] = IF k \in orphans THEN NoSession ELSE sessions[k]
      BY RemovedAt
    <3> QED BY ONLY <2>1, <3>1
  <2>3. \A k \in DOMAIN saved.pids : \A c \in Codes :
            PolledStatus(k) = Exited(c) => EndedWith(k, procs[saved.pids[k]].born, c)
    <3> SUFFICES ASSUME NEW k \in DOMAIN saved.pids, NEW c \in Codes, PolledStatus(k) = Exited(c)
                 PROVE  EndedWith(k, procs[saved.pids[k]].born, c)
      OBVIOUS
    <3>1. /\ k \in Keys /\ saved.pids[k] \in Pids /\ procs[saved.pids[k]].key = k
          /\ Latest(k, saved.pids[k])
      BY DEF KeysMatch, SavedKeys, NamesLatest, TypeOK, AgentTypeOK
    <3> QED BY <3>1, PolledOwn DEF KeysMatch
  <2>4. \A k \in Keys : \/ handles'[k].status = None
                       \/ /\ k \in DOMAIN saved.pids /\ handles'[k].pid = saved.pids[k]
                          /\ handles'[k].status = PolledStatus(k)
    BY <1>20 DEF Boot
  <2>5. HandleCode'
    <3> SUFFICES ASSUME NEW k \in Keys, NEW c \in Codes, handles'[k].status = Exited(c)
                 PROVE  EndedWith(k, procs[handles[k].pid].born, c)'
      BY DEF HandleCode
    <3>1. handles'[k].pid = saved.pids[k] /\ EndedWith(k, procs[saved.pids[k]].born, c)
      BY <2>3, <2>4
    <3> QED BY <2>1, <3>1 DEF EndedWith, Gone
  <2> QED BY <2>1, <2>2, <2>5
<1>21. CASE UNCHANGED vars
  BY <1>21 DEF vars, serverVars, agentVars
<1> QED BY <1>1, <1>2, <1>3, <1>4, <1>5, <1>6, <1>7, <1>8, <1>9, <1>10, <1>11, <1>12,
           <1>13, <1>14, <1>15, <1>16, <1>17, <1>18, <1>19, <1>20, <1>21
        DEF Next, ServerStep

(* The processes NoneUnmanaged speaks of. *)
Candidate(p) == Alive(p) /\ procs[p].born = life /\ server # "down" /\ Sole(p)

(* No step but a spawn makes a running process of this server. *)
LEMMA CandidateBefore ==
    ASSUME TypeOK, ServerTypeOK', ProcsSound, AllManaged, Lasting, [Next]_vars,
           NEW p \in Pids, Ages(p), Candidate(p)'
    PROVE  Candidate(p) /\ procs'[p] = procs[p] /\ procs[p].key \in Keys /\ Managed(p)
<1>1. procs'[p] = procs[p] /\ Alive(p)
  BY DEF Candidate, Alive, Ages
<1>2. procs[p].key \in Keys /\ procs[p].born <= life /\ procs[p].born \in Nat /\ life \in Nat
  BY <1>1 DEF ProcsSound, Alive, TypeOK, ServerTypeOK, Processes
<1>3. Sole(p)
  BY <1>1, <1>2, EvidenceLasts, StatusFacts DEF Candidate
<1>4. life' = life /\ server # "down"
  BY <1>1, <1>2, LifeMoves DEF Candidate
<1> QED BY <1>1, <1>2, <1>3, <1>4 DEF Candidate, AllManaged

(* And no live child is lost. *)
LEMMA NextAllManaged ==
    ASSUME TypeOK, ServerTypeOK', ProcsSound, KeysMatch, OfThisLife, ShownIsTrue, AllManaged, Lasting, [Next]_vars
    PROVE  AllManaged'
<1> USE StatusFacts
<1>a. ASSUME NEW r \in inbox, NEW p \in Pids, Spawn(r, p) PROVE AllManaged'
  <2>1. /\ r.key \in Keys /\ procs[p] = Free /\ \A q \in Pids : q # p => procs'[q] = procs[q]
        /\ UNCHANGED <<sessions, killing, life, server>>
        /\ \E c \in creating' : c.pid = p
        /\ creating \subseteq creating'
    BY <1>a DEF Spawn, TypeOK, ServerTypeOK, Requests
  <2>2. ASSUME NEW q \in Pids, q # p, Candidate(q)' PROVE Managed(q)'
    <3>1. Ages(q)
      BY <2>1, <2>2 DEF Ages
    <3>2. procs'[q] = procs[q] /\ Managed(q)
      BY <2>2, <3>1, CandidateBefore
    <3> QED BY <2>1, <3>2 DEF Managed
  <2>3. Managed(p)'
    BY <2>1 DEF Managed
  <2> QED BY <2>2, <2>3 DEF AllManaged, Candidate
<1> SUFFICES ASSUME \A p \in Pids : Ages(p),
                    NEW p \in Pids, Candidate(p)'
             PROVE  Managed(p)'
  BY <1>a, ProcsMove DEF AllManaged, Candidate, TypeOK
<1> DEFINE k == procs[p].key
<1>b. /\ k \in Keys /\ Alive(p) /\ Sole(p) /\ procs[p].born = life /\ server # "down" /\ procs'[p] = procs[p]
      /\ Managed(p)
  BY CandidateBefore DEF Candidate
<1>c. ~EndedIn(k, life) /\ k \notin exitTimes
  BY <1>b DEF EndedIn, Gone, Alive, Sole, ShownIsTrue, NotedEnded
<1>d. sessions[k].pid = p => sessions[k].status = Running
  BY <1>b, <1>c DEF KeysMatch, SessionKeys, ShownIsTrue, SessionEnded, TypeOK, ServerTypeOK, Sessions
<1> HIDE DEF k
<1>e. /\ (sessions[k].pid = p => sessions'[k].pid = p) => (sessions[k].pid = p => Managed(p)')
      /\ (\E c \in creating' : c.pid = p) => Managed(p)'
      /\ (\E v \in killing' : v.pid = p) => Managed(p)'
  BY <1>b DEF Managed, k
<1>f. sessions[k].pid = p \/ (\E c \in creating : c.pid = p) \/ (\E v \in killing : v.pid = p)
  BY <1>b DEF Managed, k
<1> USE <1>b, <1>e, <1>f
<1>1. ASSUME NEW r \in inbox, NEW q \in Pids, Spawn(r, q) PROVE Managed(p)'
  <2>1. UNCHANGED <<sessions, killing>> /\ creating \subseteq creating'
    BY <1>1 DEF Spawn
  <2> QED BY <2>1
<1>2. ASSUME NEW c \in creating, Insert(c) PROVE Managed(p)'
  <2>1. /\ procs[c.pid].key = c.key /\ procs[c.pid].born = life /\ c.pid \in Pids /\ c.key \in Keys
        /\ sessions \in [Keys -> Sessions] /\ UNCHANGED killing /\ creating' = creating \ {c}
    BY <1>2 DEF Insert, KeysMatch, CreatingKeys, OfThisLife, TypeOK, ServerTypeOK
  <2>2. sessions'[c.key].pid = c.pid /\ \A j \in Keys : j # c.key => sessions'[j] = sessions[j]
    BY <1>2, <2>1 DEF Insert
  <2>3. k = procs[p].key
    BY DEF k
  <2>4. c.key = k <=> c.pid = p
    BY <2>1, <2>3 DEF Sole
  <2>5. CASE c.pid = p
    <3>1. sessions'[k].pid = p
      BY <2>2, <2>4, <2>5
    <3> QED BY <2>3, <3>1 DEF Managed
  <2>6. CASE c.pid # p
    BY <2>1, <2>2, <2>4, <2>6
  <2> QED BY <2>5, <2>6
<1>3. ASSUME NEW w \in waiters, Reap(w) PROVE Managed(p)'
  <2>1. UNCHANGED <<sessions, creating, killing>>
    BY <1>3 DEF Reap
  <2> QED BY <2>1
<1>4. ASSUME NEW w \in waiters, Report(w) PROVE Managed(p)'
  <2>1. sessions'[k].pid = sessions[k].pid /\ UNCHANGED <<creating, killing>>
    BY <1>4 DEF Report, TypeOK, ServerTypeOK, Sessions
  <2> QED BY <2>1
<1>5. ASSUME NEW v \in killing, SigTerm(v) PROVE Managed(p)'
  <2>1. [v EXCEPT !.step = "kill"].pid = v.pid /\ UNCHANGED <<sessions, creating>>
    BY <1>5 DEF SigTerm, TypeOK, ServerTypeOK
  <2>2. killing' = (killing \ {v}) \cup {[v EXCEPT !.step = "kill"]}
    BY <1>5 DEF SigTerm
  <2> QED BY <2>1, <2>2
<1>6. ASSUME NEW v \in killing, SigKill(v) PROVE Managed(p)'
  <2>1. v.pid \in Pids /\ UNCHANGED <<sessions, creating>> /\ killing' = killing \ {v}
    BY <1>6 DEF SigKill, TypeOK, ServerTypeOK
  <2>2. v.pid # p
    <3> SUFFICES ASSUME v.pid = p PROVE FALSE
      OBVIOUS
    <3>1. procs' = Dies(p, Unknown)
      BY <1>6 DEF SigKill
    <3>2. procs'[p].state \in {"zombie", "gone"}
      BY <3>1, DiesFacts DEF TypeOK, ServerTypeOK
    <3> QED BY <3>2 DEF Alive
  <2> QED BY <2>1, <2>2
<1>7. CASE ShutDown
  BY <1>7 DEF ShutDown, ServerGone, Candidate
<1>8. ASSUME NEW old \in SUBSET Keys, ReaperScan(old) PROVE Managed(p)'
  <2>1. k \notin old /\ UNCHANGED <<creating, killing>>
    BY <1>8, <1>c DEF ReaperScan
  <2>2. sessions'[k] = Polled(sessions[k])
    BY <1>8, <2>1 DEF ReaperScan
  <2>3. sessions'[k].pid = sessions[k].pid
    BY <2>2, PolledFacts DEF TypeOK, ServerTypeOK
  <2> QED BY <2>1, <2>3
<1>9. ASSUME NEW q \in Pids, ProcExits(q) PROVE Managed(p)'
  BY <1>9 DEF ProcExits, agentVars
<1>10. CASE ServerDies
  BY <1>10 DEF ServerDies, ServerGone, Candidate
<1>11. CASE RequestShutdown
  BY <1>11 DEF RequestShutdown, agentVars
<1>12. CASE Create
  BY <1>12 DEF Create
<1>13. CASE Retry
  <2>1. UNCHANGED <<sessions, creating, killing>>
    BY <1>13 DEF Retry
  <2> QED BY <2>1
<1>14. CASE GiveUp
  BY <1>14 DEF GiveUp, Unanswered, serverVars
<1>15. CASE Created
  BY <1>15 DEF Created, serverVars
<1>16. ASSUME NEW j \in Keys, StatusPoll(j) PROVE Managed(p)'
  <2>1. sessions'[k] = Polled(sessions[k]) \/ sessions'[k] = sessions[k]
    BY <1>16 DEF StatusPoll, TypeOK, ServerTypeOK
  <2>2. sessions'[k].pid = sessions[k].pid
    BY <2>1, PolledFacts DEF TypeOK, ServerTypeOK
  <2> QED BY <1>16, <2>2 DEF StatusPoll
<1>17. ASSUME NEW j \in Keys, NEW keep \in BOOLEAN, Kill(j, keep) PROVE Managed(p)'
  <2> DEFINE ks == {j}
  <2>1. sessions' = Removed(ks) /\ killing' = killing \cup Doomed(ks) /\ ks \in SUBSET Keys /\ UNCHANGED creating
    BY <1>17 DEF Kill
  <2> HIDE DEF ks
  <2>2. \A i \in Keys : sessions'[i] = IF i \in ks THEN NoSession ELSE sessions[i]
    BY <2>1, RemovedAt
  <2>3. k \in ks /\ sessions[k].pid = p => \E v \in Doomed(ks) : v.pid = p
    BY <1>d, DoomedAt
  <2> QED BY <2>1, <2>2, <2>3
<1>18. CASE Save
  BY <1>18 DEF Save, serverVars
<1>19. CASE AgentDies
  <2>1. UNCHANGED <<sessions, killing>>
    BY <1>19 DEF AgentDies
  <2> DEFINE Dead(c) == [c EXCEPT !.from.phase = "dead"]
  <2>2. \A c \in creating : Dead(c).pid = c.pid
    BY DEF TypeOK, ServerTypeOK, Requests
  <2>3. creating' = {Dead(c) : c \in creating}
    BY <1>19 DEF AgentDies
  <2> HIDE DEF Dead
  <2> QED BY <2>1, <2>2, <2>3
<1>20. CASE Boot
  <2> DEFINE orphans == {j \in Keys : saved.next # 1 /\ j \notin DOMAIN saved.pids /\ sessions[j] # NoSession}
  <2>1. /\ sessions' = Removed(orphans) /\ killing' = killing \cup Doomed(orphans)
        /\ orphans \in SUBSET Keys /\ UNCHANGED creating
    BY <1>20 DEF Boot
  <2> HIDE DEF orphans
  <2>2. \A j \in Keys : sessions'[j] = IF j \in orphans THEN NoSession ELSE sessions[j]
    BY <2>1, RemovedAt
  <2>3. k \in orphans /\ sessions[k].pid = p => \E v \in Doomed(orphans) : v.pid = p
    BY <1>d, DoomedAt
  <2> QED BY <2>1, <2>2, <2>3
<1>21. CASE UNCHANGED vars
  BY <1>21 DEF vars, serverVars, agentVars
<1> QED BY <1>1, <1>2, <1>3, <1>4, <1>5, <1>6, <1>7, <1>8, <1>9, <1>10, <1>11, <1>12,
           <1>13, <1>14, <1>15, <1>16, <1>17, <1>18, <1>19, <1>20, <1>21
        DEF Next, ServerStep

-----------------------------------------------------------------------------
(* The theorems *)

LEMMA InitIInv == Init => IInv
<1> SUFFICES ASSUME Init PROVE IInv
  OBVIOUS
<1> USE StatusFacts DEF Init
<1>1. Free \in Processes /\ NoSession \in Sessions /\ NoHandle \in Handles /\ 1 \in 1 .. MaxKeys + 1
  BY BoundsAssumption DEF Free, Processes, NoSession, Sessions, NoHandle, Handles
<1>2. TypeOK
  BY <1>1 DEF TypeOK, ServerTypeOK, AgentTypeOK
<1>3. ProcsSound
  BY DEF ProcsSound
<1>4. KeysMatch
  BY DEF KeysMatch, SessionKeys, CreatingKeys, WaiterKeys, HandleKeys, ReplyKey, SavedKeys
<1>5. ShownIsTrue
  BY DEF ShownIsTrue, SessionEnded, NotedEnded, SessionCode, HandleCode
<1>7. OfThisLife
  BY DEF OfThisLife
<1>8. Issued
  BY DEF Issued, Idle
<1>9. NamesLatest
  BY DEF NamesLatest
<1>6. AllManaged
  BY DEF AllManaged, Alive
<1> QED BY <1>2, <1>3, <1>4, <1>5, <1>6, <1>7, <1>8, <1>9 DEF IInv

LEMMA NextIInv == ASSUME IInv, [Next]_vars PROVE IInv'
<1> USE DEF IInv
<1>1. TypeOK'
  BY NextServerTypeOK, NextAgentTypeOK DEF TypeOK, KeysMatch
<1>2. Lasting /\ ProcsSound'
  BY <1>1, NextProcs DEF TypeOK
<1>3. KeysMatch'
  BY <1>1, <1>2, NextKeysMatch
<1>4. OfThisLife'
  BY <1>1, <1>2, NextOfThisLife
<1>5. Issued'
  BY NextIssued DEF KeysMatch
<1>6. NamesLatest'
  BY <1>1, <1>2, <1>5, NextNamesLatest
<1>7. ShownIsTrue'
  BY <1>2, NextShownIsTrue
<1>8. AllManaged'
  BY <1>1, <1>2, NextAllManaged DEF TypeOK
<1> QED BY <1>1, <1>2, <1>3, <1>4, <1>5, <1>6, <1>7, <1>8

(* Every state of the server and of the agent satisfies IInv. *)
THEOREM InductiveInvariant == Spec => []IInv
<1>1. IInv /\ [Next]_vars => IInv'
  BY NextIInv
<1> QED BY <1>1, InitIInv, PTL DEF Spec

(* Type correctness of the server's tables and of the agent's. *)
THEOREM TypeCorrect == Spec => []TypeOK
<1>1. IInv => TypeOK
  BY DEF IInv
<1> QED BY <1>1, InductiveInvariant, PTL

(* The exit code a handle shows is that of its process, or of a twin the   *)
(* same server spawned for the same key, whichever thread of the server    *)
(* reported it and whichever side was restarted since.                     *)
THEOREM ExitCodesTrue == Spec => []ExitCodeIsTrue
<1>1. IInv => ExitCodeIsTrue
  <2> SUFFICES ASSUME IInv, NEW k \in Keys, NEW c \in Codes, handles[k].status = Exited(c)
               PROVE  \E p \in Twins(handles[k].pid) :
                          procs[p].key = k /\ procs[p].state = "gone" /\ procs[p].code = c
    BY DEF ExitCodeIsTrue
  <2>1. PICK p \in Pids : procs[p].key = k /\ procs[p].born = procs[handles[k].pid].born /\ Gone(p) /\ procs[p].code = c
    BY DEF IInv, ShownIsTrue, HandleCode, EndedWith
  <2>2. procs[handles[k].pid].key = k
    BY StatusFacts DEF IInv, KeysMatch, HandleKeys
  <2>3. p \in Twins(handles[k].pid)
    BY <2>1, <2>2 DEF Twins
  <2> QED BY <2>1, <2>3 DEF Gone
<1> QED BY <1>1, InductiveInvariant, PTL

(* The server loses no live child that has no twin, neither to the reaper, *)
(* nor to a removal racing the insertion, nor to the cleanup of orphans at *)
(* an agent's boot: it is in the map, being entered, or being killed.      *)
THEOREM NoChildLost == Spec => []NoneUnmanaged
<1>1. IInv => NoneUnmanaged
  <2> SUFFICES ASSUME IInv, NEW p \in Pids, Alive(p), procs[p].born = life, server # "down"
               PROVE  Managed(p) \/ Twins(p) # {p}
    BY DEF NoneUnmanaged, Managed
  <2>1. Twins(p) = {p} => Sole(p)
    BY DEF Twins, Sole
  <2> QED BY <2>1 DEF IInv, AllManaged
<1> QED BY <1>1, InductiveInvariant, PTL

=============================================================================
