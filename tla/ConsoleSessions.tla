--------------------------- MODULE ConsoleSessions ---------------------------
(***************************************************************************)
(* Child processes of the agent: the console server (a daemon that owns    *)
(* them, src/crates/cp-console-server) and the agent's handles on them     *)
(* (src/crates/cp-mod-console).  The server runs one thread per            *)
(* connection, one per child to wait for it, and a reaper; the agent's     *)
(* main loop makes the requests and one poller thread per handle asks for  *)
(* its status.  The server dies and is respawned, the agent dies and       *)
(* reconnects, and a request that was not answered in time is made again.  *)
(*                                                                         *)
(* A session key is the number of c_{n} or cb_{n}.  A process is           *)
(* "running", a "zombie" until its waiter thread has collected it, then    *)
(* "gone".  Status -1 is the code for "unknown".                           *)
(***************************************************************************)
EXTENDS Integers

CONSTANTS MaxKeys,      \* session keys
          MaxProcs,     \* processes spawned
          MaxFaults,    \* deaths of the server or of the agent, late answers
          Codes         \* exit codes of processes that end by themselves

ASSUME BoundsAssumption ==
    /\ MaxKeys \in Nat \ {0} /\ MaxProcs \in Nat \ {0} /\ MaxFaults \in Nat
    /\ Codes \subseteq Nat

Keys == 1 .. MaxKeys
Pids == 1 .. MaxProcs
NoPid == 0
Unknown == -1
Running == <<"running">>
Exited(c) == <<"exited", c>>
Terminal == {Exited(c) : c \in Codes \cup {Unknown}}
Killed == <<"killed">>
None == <<"none">>

VARIABLES
    server,    \* "up", "stopping" (SHUTDOWN_REQUESTED) or "down"
    procs,     \* the process table
    sessions,  \* the server's map: key to pid and status
    inbox,     \* create requests no thread has begun to serve
    creating,  \* processes spawned and not yet in the map
    waiters,   \* waiter threads: [pid, step]
    killing,   \* processes taken out of the map, to be killed
    exitTimes, \* the reaper's: keys seen exited at an earlier scan
    agent,     \* "up" or "down"
    next,      \* next_session_id
    handles,   \* ConsoleState.sessions: pid and ProcessStatus
    call,      \* the create the main loop is waiting for
    reply,     \* the pid in the answer to it
    saved,     \* next and live handles, as last persisted
    life, faults  \* number of the server's life; deaths so far

serverVars == <<server, procs, sessions, inbox, creating, waiters, killing, exitTimes, life>>
agentVars == <<agent, next, handles, call, reply, saved>>
vars == <<serverVars, agentVars, faults>>

NoSession == [pid |-> NoPid, status |-> None]
NoHandle == [pid |-> NoPid, status |-> None]
Free == [state |-> "free", code |-> Unknown, key |-> 0, born |-> 0]
Idle == [phase |-> "idle", key |-> 0]

Init ==
    /\ server = "up" /\ life = 1 /\ faults = 0
    /\ procs = [p \in Pids |-> Free]
    /\ sessions = [k \in Keys |-> NoSession]
    /\ inbox = {} /\ creating = {} /\ waiters = {} /\ killing = {} /\ exitTimes = {}
    /\ agent = "up" /\ next = 1
    /\ handles = [k \in Keys |-> NoHandle]
    /\ call = Idle /\ reply = NoPid
    /\ saved = [next |-> 1, pids |-> [k \in {} |-> NoPid]]

-----------------------------------------------------------------------------
(* Processes. *)

Alive(p) == procs[p].state = "running"
Dies(p, c) == [procs EXCEPT ![p].state = IF server = "down" THEN "gone" ELSE "zombie", ![p].code = c]

(* The program ends by itself. *)
ProcExits(p) ==
    /\ Alive(p)
    /\ \E c \in Codes : procs' = Dies(p, c)
    /\ UNCHANGED <<server, sessions, inbox, creating, waiters, killing, exitTimes, life, agentVars, faults>>

-----------------------------------------------------------------------------
(* The server's threads. *)

(* handle_create: spawn, and the waiter thread; the session is entered in   *)
(* the map afterwards, so the waiter may be done before it.                 *)
Spawn(r, p) ==
    /\ server # "down" /\ r \in inbox
    /\ procs[p] = Free /\ \A q \in Pids : q < p => procs[q] # Free
    /\ inbox' = inbox \ {r}
    /\ procs' = [procs EXCEPT ![p] = [state |-> "running", code |-> Unknown, key |-> r.key, born |-> life]]
    /\ waiters' = waiters \cup {[pid |-> p, step |-> "wait"]}
    /\ creating' = creating \cup {[pid |-> p, key |-> r.key, from |-> r]}
    /\ UNCHANGED <<server, sessions, killing, exitTimes, life, agentVars, faults>>

Insert(c) ==
    /\ server # "down" /\ c \in creating
    /\ creating' = creating \ {c}
    /\ sessions' = [sessions EXCEPT ![c.key] = [pid |-> c.pid, status |-> Running]]
    /\ reply' = IF c.from = call THEN c.pid ELSE reply
    /\ UNCHANGED <<server, procs, inbox, waiters, killing, exitTimes, life, agent, next, handles, call, saved, faults>>

(* child.wait() returns: the pid is gone ... *)
Reap(w) ==
    /\ server # "down" /\ w \in waiters /\ w.step = "wait"
    /\ procs[w.pid].state = "zombie"
    /\ procs' = [procs EXCEPT ![w.pid].state = "gone"]
    /\ waiters' = (waiters \ {w}) \cup {[w EXCEPT !.step = "report"]}
    /\ UNCHANGED <<server, sessions, inbox, creating, killing, exitTimes, life, agentVars, faults>>

(* ... and whatever session is under the key gets the exit code. *)
Report(w) ==
    /\ server # "down" /\ w \in waiters /\ w.step = "report"
    /\ waiters' = waiters \ {w}
    /\ LET k == procs[w.pid].key IN
       sessions' = IF sessions[k] = NoSession THEN sessions
                   ELSE [sessions EXCEPT ![k].status = Exited(procs[w.pid].code)]
    /\ UNCHANGED <<server, procs, inbox, creating, killing, exitTimes, life, agentVars, faults>>

(* Session::poll_status: kill -0 fails only once the child was collected. *)
Polled(s) ==
    IF s.status = Running /\ procs[s.pid].state = "gone" THEN [s EXCEPT !.status = Exited(Unknown)]
    ELSE s

(* Mutant: removed without being killed. *)
NotDoomed(ks) == {}

(* handle_kill and handle_remove: out of the map first; a session still     *)
(* running is then signalled.                                               *)
Removed(ks) == [k \in Keys |-> IF k \in ks THEN NoSession ELSE sessions[k]]
Doomed(ks) == {[pid |-> sessions[k].pid, step |-> "term"] : k \in {k \in ks : sessions[k].status = Running}}

(* SIGTERM, which the process may ignore ... *)
SigTerm(v) ==
    /\ server # "down" /\ v \in killing /\ v.step = "term"
    /\ killing' = (killing \ {v}) \cup {[v EXCEPT !.step = "kill"]}
    /\ \/ Alive(v.pid) /\ procs' = Dies(v.pid, Unknown)
       \/ UNCHANGED procs
    /\ UNCHANGED <<server, sessions, inbox, creating, waiters, exitTimes, life, agentVars, faults>>

(* ... and, 100 ms later, SIGKILL if it is still there. *)
SigKill(v) ==
    /\ server # "down" /\ v \in killing /\ v.step = "kill"
    /\ killing' = killing \ {v}
    /\ procs' = IF Alive(v.pid) THEN Dies(v.pid, Unknown) ELSE procs
    /\ UNCHANGED <<server, sessions, inbox, creating, waiters, exitTimes, life, agentVars, faults>>

(* One scan of reaper_loop: the sessions seen exited are noted, and those   *)
(* noted at earlier scans whose grace is over leave the map, whatever is    *)
(* under their key by now.                                                  *)
ReaperScan(old) ==
    LET polled == [k \in Keys |-> Polled(sessions[k])]
        seen == exitTimes \cup {k \in Keys : polled[k].status \in Terminal}
        left == [k \in Keys |-> IF k \in old THEN NoSession ELSE polled[k]]
    IN  /\ server = "up" /\ old \subseteq exitTimes
        /\ sessions' = left
        /\ exitTimes' = {k \in seen \ old : left[k] # NoSession}
        /\ UNCHANGED <<server, procs, inbox, creating, waiters, killing, life, agentVars, faults>>

-----------------------------------------------------------------------------
(* Deaths of the server. *)

ServerGone ==
    /\ server' = "down"
    /\ sessions' = [k \in Keys |-> NoSession]
    /\ inbox' = {} /\ creating' = {} /\ waiters' = {} /\ killing' = {} /\ exitTimes' = {}

(* Zombies are collected by init once their parent is gone. *)
Collected(ps) == [p \in Pids |-> IF ps[p].state = "zombie" THEN [ps[p] EXCEPT !.state = "gone"] ELSE ps[p]]

(* SIGKILL, or SIGTERM, for which install_signal_handlers has no handler. *)
ServerDies ==
    /\ server # "down" /\ faults < MaxFaults
    /\ faults' = faults + 1
    /\ ServerGone
    /\ procs' = Collected(procs)
    /\ UNCHANGED <<life, agentVars>>

(* SIGINT, SIGHUP or the "shutdown" command set SHUTDOWN_REQUESTED ... *)
RequestShutdown ==
    /\ server = "up" /\ faults < MaxFaults
    /\ faults' = faults + 1
    /\ server' = "stopping"
    /\ UNCHANGED <<procs, sessions, inbox, creating, waiters, killing, exitTimes, life, agentVars>>

(* ... and the accept loop ends: kill_all_sessions, under the lock, then   *)
(* the process.                                                             *)
ShutDown ==
    LET victims == {sessions[k].pid : k \in {k \in Keys : sessions[k].status = Running}}
    IN  /\ server = "stopping"
        /\ ServerGone
        /\ procs' = Collected([p \in Pids |-> IF p \in victims /\ Alive(p)
                        THEN [procs[p] EXCEPT !.state = "gone", !.code = Unknown] ELSE procs[p]])
        /\ UNCHANGED <<life, agentVars, faults>>

-----------------------------------------------------------------------------
(* The agent. *)

(* find_or_create_server: nothing if it answers the ping. *)
FindOrCreateServer ==
    /\ server' = IF server = "down" THEN "up" ELSE server
    /\ life' = IF server = "down" THEN life + 1 ELSE life

(* SessionHandle::spawn: a fresh key, and the request, which fails at once  *)
(* if there is no server.                                                   *)
Create ==
    /\ agent = "up" /\ call = Idle /\ next \in Keys
    /\ next' = next + 1
    /\ reply' = NoPid
    /\ call' = [phase |-> "try1", key |-> next]
    /\ inbox' = IF server = "down" THEN inbox ELSE inbox \cup {call'}
    /\ UNCHANGED <<agent, handles, saved, server, procs, sessions, creating, waiters, killing, exitTimes, life, faults>>

(* An error, or five seconds without an answer (the first time a fault, if  *)
(* a thread of the server is still at it; a slow server stays slow).         *)
Unanswered ==
    /\ agent = "up" /\ reply = NoPid
    /\ IF call.phase = "try1" /\ call \in inbox \cup {c.from : c \in creating}
       THEN faults < MaxFaults /\ faults' = faults + 1
       ELSE UNCHANGED faults

(* The server is respawned if it does not answer, and the request made a   *)
(* second time ...                                                          *)
Retry ==
    /\ call.phase = "try1" /\ Unanswered
    /\ FindOrCreateServer
    /\ call' = [call EXCEPT !.phase = "try2"]
    /\ inbox' = inbox \cup {call'}
    /\ UNCHANGED <<agent, next, handles, reply, saved, procs, sessions, creating, waiters, killing, exitTimes>>

(* ... and no more. *)
GiveUp ==
    /\ call.phase = "try2" /\ Unanswered
    /\ call' = Idle
    /\ UNCHANGED <<agent, next, handles, reply, saved, serverVars>>

Created ==
    /\ agent = "up" /\ call # Idle /\ reply # NoPid
    /\ handles' = [handles EXCEPT ![call.key] = [pid |-> reply, status |-> Running]]
    /\ call' = Idle /\ reply' = NoPid
    /\ UNCHANGED <<agent, next, saved, serverVars, faults>>

(* SessionHandle::kill, and for a closed panel or an inline result the     *)
(* handle goes too.                                                         *)
Kill(k, keep) ==
    /\ agent = "up" /\ call = Idle /\ handles[k] # NoHandle
    /\ handles' = [handles EXCEPT ![k] =
            IF ~keep THEN NoHandle
            ELSE IF @.status = Running THEN [@ EXCEPT !.status = Killed] ELSE @]
    /\ IF server = "down"
       THEN UNCHANGED <<sessions, killing>>
       ELSE sessions' = Removed({k}) /\ killing' = killing \cup Doomed({k})
    /\ UNCHANGED <<agent, next, call, reply, saved, server, procs, inbox, creating, waiters,
                   exitTimes, life, faults>>

(* Mutant: an unreachable server means the process finished well. *)
UnreachableIsSuccess(k) ==
    IF server = "down" \/ sessions[k] = NoSession THEN Exited(0) ELSE Polled(sessions[k]).status

(* Mutant: a session the server does not know is still running. *)
UnknownIsRunning(k) ==
    IF server = "down" \/ sessions[k] = NoSession THEN Running ELSE Polled(sessions[k]).status

(* StatusPoller::poll_once: handle_status polls, and answers an error for   *)
(* a key it does not know.                                                  *)
PolledStatus(k) ==
    IF server = "down" \/ sessions[k] = NoSession THEN Exited(Unknown) ELSE Polled(sessions[k]).status

StatusPoll(k) ==
    /\ agent = "up" /\ handles[k].status = Running
    /\ sessions' = [sessions EXCEPT ![k] = Polled(@)]
    /\ handles' = [handles EXCEPT ![k].status = PolledStatus(k)]
    /\ UNCHANGED <<agent, next, call, reply, saved, server, procs, inbox, creating, waiters,
                   killing, exitTimes, life, faults>>

(* save_module_data, when the persistence writer gets to it: live handles   *)
(* only.                                                                    *)
Save ==
    /\ agent = "up"
    /\ saved' = [next |-> next,
                 pids |-> [k \in {k \in Keys : handles[k].status = Running} |-> handles[k].pid]]
    /\ UNCHANGED <<agent, next, handles, call, reply, serverVars, faults>>

AgentDies ==
    /\ agent = "up" /\ faults < MaxFaults
    /\ faults' = faults + 1
    /\ agent' = "down"
    /\ handles' = [k \in Keys |-> NoHandle]
    /\ call' = Idle /\ reply' = NoPid /\ next' = 1
    /\ inbox' = {[r EXCEPT !.phase = "dead"] : r \in inbox}
    /\ creating' = {[c EXCEPT !.from.phase = "dead"] : c \in creating}
    /\ UNCHANGED <<saved, server, procs, sessions, waiters, killing, exitTimes, life>>

(* init_state, then load_module_data unless nothing was ever saved: the     *)
(* server's sessions that are not in the saved state are removed, the       *)
(* others reconnected with the status the server gives.                     *)
Boot ==
    LET known == DOMAIN saved.pids
        loads == saved.next # 1
        orphans == {k \in Keys : loads /\ k \notin known /\ sessions[k] # NoSession}
    IN  /\ agent = "down"
        /\ agent' = "up"
        /\ FindOrCreateServer
        /\ next' = saved.next
        /\ sessions' = Removed(orphans)
        /\ killing' = killing \cup Doomed(orphans)
        /\ handles' = [k \in Keys |->
                IF k \in known THEN [pid |-> saved.pids[k], status |-> PolledStatus(k)] ELSE NoHandle]
        /\ UNCHANGED <<call, reply, saved, procs, inbox, creating, waiters, exitTimes, faults>>

-----------------------------------------------------------------------------
ServerStep ==
    \/ \E r \in inbox, p \in Pids : Spawn(r, p)
    \/ \E c \in creating : Insert(c)
    \/ \E w \in waiters : Reap(w) \/ Report(w)
    \/ \E v \in killing : SigTerm(v) \/ SigKill(v)
    \/ ShutDown

Next ==
    \/ ServerStep
    \/ \E old \in SUBSET Keys : ReaperScan(old)
    \/ \E p \in Pids : ProcExits(p)
    \/ ServerDies \/ RequestShutdown
    \/ Create \/ Retry \/ GiveUp \/ Created
    \/ \E k \in Keys : StatusPoll(k) \/ \E keep \in BOOLEAN : Kill(k, keep)
    \/ Save \/ AgentDies \/ Boot

(* The server's threads run, its reaper scans every five seconds, and every *)
(* handle is polled every half second.                                      *)
Fairness ==
    /\ WF_vars(ServerStep)
    /\ WF_vars(ReaperScan(exitTimes))
    /\ \A k \in Keys : WF_vars(StatusPoll(k))

Spec == Init /\ [][Next]_vars /\ Fairness

-----------------------------------------------------------------------------
Processes == [state : {"free", "running", "zombie", "gone"}, code : Codes \cup {Unknown}, key : 0 .. MaxKeys, born : Nat]
Sessions == [pid : Pids \cup {NoPid}, status : {None, Running} \cup Terminal]
Handles == [pid : Pids \cup {NoPid}, status : {None, Running, Killed} \cup Terminal]
Requests == [phase : {"try1", "try2", "dead"}, key : Keys]

ServerTypeOK ==
    /\ server \in {"up", "stopping", "down"} /\ life \in Nat
    /\ procs \in [Pids -> Processes] /\ sessions \in [Keys -> Sessions]
    /\ inbox \subseteq Requests /\ creating \subseteq [pid : Pids, key : Keys, from : Requests]
    /\ waiters \subseteq [pid : Pids, step : {"wait", "report"}]
    /\ killing \subseteq [pid : Pids, step : {"term", "kill"}]
    /\ exitTimes \subseteq Keys

AgentTypeOK ==
    /\ agent \in {"up", "down"} /\ handles \in [Keys -> Handles] /\ faults \in Nat
    /\ next \in 1 .. MaxKeys + 1 /\ call \in Requests \cup {Idle} /\ reply \in Pids \cup {NoPid}
    /\ saved.next \in 1 .. MaxKeys + 1 /\ DOMAIN saved.pids \subseteq Keys
    /\ \A k \in DOMAIN saved.pids : saved.pids[k] \in Pids

TypeOK == ServerTypeOK /\ AgentTypeOK

(* The processes one life of the server has spawned for the key of p.  There *)
(* is a second one when a create was answered late and made again, or when   *)
(* an agent that lost its counter in a crash handed the key out a second     *)
(* time; then the server takes the one for the other: the waiter of either   *)
(* reports into the session of the key (main.rs:172-178), and the session    *)
(* entered second replaces the first, which nobody manages any more.         *)
Twins(p) == {q \in Pids : procs[q].key = procs[p].key /\ procs[q].born = procs[p].born}

(* A definite exit code in a handle is that of its process, which has        *)
(* ended: through the race of the waiter with the insertion, the polls and   *)
(* the reaper, and across a restart of either side, the agent never shows a  *)
(* running process as finished with a code, nor the code of another key or   *)
(* of another server's process.  It may be the code of a twin.               *)
ExitCodeIsTrue ==
    \A k \in Keys : \A c \in Codes : handles[k].status = Exited(c) =>
        \E p \in Twins(handles[k].pid) :
            procs[p].key = k /\ procs[p].state = "gone" /\ procs[p].code = c

(* "Without this cleanup, sessions accumulate forever", and the opposite     *)
(* danger: the server loses a live child.  A running process of this server  *)
(* is in the map, about to be entered, or about to be killed; it can be lost *)
(* to a twin only.                                                           *)
NoneUnmanaged ==
    \A p \in Pids :
        Alive(p) /\ procs[p].born = life /\ server # "down" =>
            \/ sessions[procs[p].key].pid = p
            \/ \E c \in creating : c.pid = p
            \/ \E v \in killing : v.pid = p
            \/ Twins(p) # {p}

(* A handle does not show as running for good what has ended, whichever      *)
(* thread removed the session in the meantime.                               *)
HandleResolves ==
    \A k \in Keys :
        (handles[k].status = Running /\ \A p \in Twins(handles[k].pid) : ~Alive(p))
            ~> (handles[k].status # Running \/ \E p \in Twins(handles[k].pid) : Alive(p))

(* The reaper: a session whose process has ended, even one the waiter       *)
(* reported on before it was entered, does not stay in the map.             *)
EndedIsReaped ==
    \A k \in Keys : \A p \in Pids :
        (sessions[k].pid = p /\ ~Alive(p)) ~> (sessions[k].pid # p)

(* kill and remove: the process ends even if it ignores SIGTERM, unless     *)
(* the server itself goes first.                                            *)
KilledEnds ==
    \A p \in Pids : (\E v \in killing : v.pid = p) ~> (~Alive(p) \/ server = "down")

(* "On SIGTERM/SIGINT, the server kills all children and exits cleanly":   *)
(* no process of the server is left running when it has ended.             *)
ServerTakesChildren == server = "down" => \A p \in Pids : ~(Alive(p) /\ procs[p].born = life)
=============================================================================
