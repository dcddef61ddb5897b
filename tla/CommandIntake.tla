--------------------------- MODULE CommandIntake ---------------------------
(***************************************************************************)
(* A backend command on its way into the agent: AgentChannel::send and its *)
(* retries (cp-orchestrator, registry/channel.rs), the agent's main-loop   *)
(* drain (src/app/run/threads/bridge.rs), Intake::process and              *)
(* handle_connection (cp-mod-bridge/src/command.rs), and apply_command.    *)
(*                                                                         *)
(* A command is identified with its dedup token.  The oplog is the set of  *)
(* tokens whose CommandEffect it holds (module Oplog says why an effect    *)
(* once acknowledged stays there).  The agent's state is how many times    *)
(* each command's effect is in it; a save copies it to disk and a restart  *)
(* starts from the last save.                                              *)
(***************************************************************************)
EXTENDS Integers, Sequences, FiniteSets

CONSTANTS
  Commands,    \* dedup tokens
  MaxSends,    \* bound: connections made per command
  Env          \* subset of Faults

Faults == {"crash",          \* the agent dies and is started again
           "ack_timeout",    \* the commander gives up after ACK_READ_TIMEOUT
           "journal_error",  \* append_durable returns an error
           "bad_bearer"}     \* a frame with a stale or empty cap_token

ASSUME CommandsAssumption == IsFiniteSet(Commands)
ASSUME MaxSendsAssumption == MaxSends \in Nat
ASSUME EnvAssumption == Env \subseteq Faults

VARIABLES
  sender,    \* per command, what its commander knows: new, waiting, accepted, rejected, failed
  sends,     \* per command, connections made
  inbox,     \* per command, the ack in its commander's socket, or "none"
  backlog,   \* connections the listener holds, oldest first
  up,        \* the agent process is running
  seen,      \* Intake.seen
  conn,      \* the connection handle_connection serves, or NoConn
  journal,   \* tokens whose CommandEffect is in the oplog
  effects,   \* per command, how often its effect is in the agent's state
  saved      \* the same, in the last saved state

commanderVars == <<sender, sends, inbox>>
agentVars == <<up, seen, conn, effects>>
vars == <<commanderVars, backlog, agentVars, journal, saved>>

NoConn == [stage |-> "none"]

(* A queued connection: its command, whether its bearer is the cap_token,  *)
(* and whether the commander still holds the other end.                    *)
Connections == [cmd : Commands, bearer : BOOLEAN, peer : BOOLEAN]
Connection(c, bearer, peer) == [cmd |-> c, bearer |-> bearer, peer |-> peer]

(* A connection being served: its stage, the ack decided on, and whether   *)
(* the command is a fresh acceptance to be applied.                        *)
Served == [stage : {"process", "answer", "eof"}, cmd : Commands, bearer : BOOLEAN,
           peer : BOOLEAN, ack : {"none", "accepted", "rejected"}, fresh : BOOLEAN]
Serving(stage, k, peer, ack, fresh) ==
  [stage |-> stage, cmd |-> k.cmd, bearer |-> k.bearer, peer |-> peer, ack |-> ack,
   fresh |-> fresh]

Init ==
  /\ sender = [c \in Commands |-> "new"]
  /\ sends = [c \in Commands |-> 0]
  /\ inbox = [c \in Commands |-> "none"]
  /\ backlog = <<>>
  /\ up = TRUE /\ seen = {} /\ conn = NoConn
  /\ journal = {}
  /\ effects = [c \in Commands |-> 0]
  /\ saved = [c \in Commands |-> 0]

-----------------------------------------------------------------------------
(* The commander *)

(* One attempt of send_with_retry is left for the command. *)
MaySend(c) == sender[c] \in {"new", "rejected", "failed"} /\ sends[c] < MaxSends

(* send: connect, write the frame, half-close, wait for the ack.  A command*)
(* without an answer, or with a rejection, is sent again with its token.   *)
Send(c) ==
  /\ MaySend(c) /\ up
  /\ \E bearer \in BOOLEAN :
       /\ bearer \/ "bad_bearer" \in Env
       /\ backlog' = Append(backlog, Connection(c, bearer, TRUE))
  /\ sender' = [sender EXCEPT ![c] = "waiting"]
  /\ sends' = [sends EXCEPT ![c] = @ + 1]
  /\ UNCHANGED <<inbox, agentVars, journal, saved>>

(* connect is refused while the agent is down; send_with_retry tries again.*)
ConnectionRefused(c) ==
  /\ MaySend(c) /\ ~up
  /\ sender' = [sender EXCEPT ![c] = "failed"]
  /\ sends' = [sends EXCEPT ![c] = @ + 1]
  /\ UNCHANGED <<inbox, backlog, agentVars, journal, saved>>

(* read_ack returns the ack. *)
ReadAck(c) ==
  /\ sender[c] = "waiting" /\ inbox[c] # "none"
  /\ sender' = [sender EXCEPT ![c] = inbox[c]]
  /\ inbox' = [inbox EXCEPT ![c] = "none"]
  /\ UNCHANGED <<sends, backlog, agentVars, journal, saved>>

(* read_ack times out: send returns an error and closes the socket, which  *)
(* stays in the listener's backlog (or in the hands of the agent); an ack  *)
(* on its way is lost with it.                                             *)
AckTimeout(c) ==
  /\ "ack_timeout" \in Env
  /\ sender[c] = "waiting"
  /\ sender' = [sender EXCEPT ![c] = "failed"]
  /\ backlog' = [i \in DOMAIN backlog |->
                   IF backlog[i].cmd = c THEN Connection(c, backlog[i].bearer, FALSE)
                                         ELSE backlog[i]]
  /\ conn' = IF conn.stage # "none" /\ conn.cmd = c
             THEN Serving(conn.stage, conn, FALSE, conn.ack, conn.fresh) ELSE conn
  /\ inbox' = [inbox EXCEPT ![c] = "none"]
  /\ UNCHANGED <<sends, up, seen, effects, journal, saved>>

-----------------------------------------------------------------------------
(* The agent's main loop *)

Serve(k) == Serving("process", k, k.peer, "none", FALSE)

TakeAllKeepFirst ==
  /\ up /\ conn = NoConn /\ backlog # <<>>
  /\ conn' = Serve(Head(backlog))
  /\ backlog' = <<>>
  /\ UNCHANGED <<commanderVars, up, seen, effects, journal, saved>>

(* accept_commands: take the next pending connection. *)
Accept ==
  /\ up /\ conn = NoConn /\ backlog # <<>>
  /\ conn' = Serve(Head(backlog))
  /\ backlog' = Tail(backlog)
  /\ UNCHANGED <<commanderVars, up, seen, effects, journal, saved>>

Answer(ack, fresh) == conn' = Serving("answer", conn, conn.peer, ack, fresh)

(* process: a bad bearer is rejected before anything else. *)
RejectBearer ==
  /\ up /\ conn.stage = "process" /\ ~conn.bearer
  /\ Answer("rejected", FALSE)
  /\ UNCHANGED <<commanderVars, backlog, up, seen, effects, journal, saved>>

ApplyDuplicate ==
  /\ up /\ conn.stage = "process" /\ conn.bearer /\ conn.cmd \in seen
  /\ Answer("accepted", TRUE)
  /\ UNCHANGED <<commanderVars, backlog, up, seen, effects, journal, saved>>

(* process: a token already seen is accepted again and not applied. *)
AcceptDuplicate ==
  /\ up /\ conn.stage = "process" /\ conn.bearer /\ conn.cmd \in seen
  /\ Answer("accepted", FALSE)
  /\ UNCHANGED <<commanderVars, backlog, up, seen, effects, journal, saved>>

(* process: append_durable, then the ack. *)
JournalThenAck ==
  /\ up /\ conn.stage = "process" /\ conn.bearer /\ conn.cmd \notin seen
  /\ journal' = journal \cup {conn.cmd}
  /\ seen' = seen \cup {conn.cmd}
  /\ Answer("accepted", TRUE)
  /\ UNCHANGED <<commanderVars, backlog, up, effects, saved>>

AcceptAnyway ==
  /\ "journal_error" \in Env
  /\ up /\ conn.stage = "process" /\ conn.bearer /\ conn.cmd \notin seen
  /\ journal' \in {journal, journal \cup {conn.cmd}}
  /\ Answer("accepted", FALSE)
  /\ UNCHANGED <<commanderVars, backlog, up, seen, effects, saved>>

(* process: append_durable fails.  A failed write leaves no record, a      *)
(* failed sync leaves one behind.                                          *)
JournalFails ==
  /\ "journal_error" \in Env
  /\ up /\ conn.stage = "process" /\ conn.bearer /\ conn.cmd \notin seen
  /\ journal' \in {journal, journal \cup {conn.cmd}}
  /\ Answer("rejected", FALSE)
  /\ UNCHANGED <<commanderVars, backlog, up, seen, effects, saved>>

(* handle_connection writes the ack and reads on to the commander's EOF,   *)
(* which send's half-close has put right behind the frame.                 *)
WriteAck ==
  /\ up /\ conn.stage = "answer" /\ conn.peer
  /\ inbox' = [inbox EXCEPT ![conn.cmd] = conn.ack]
  /\ conn' = Serving("eof", conn, conn.peer, conn.ack, conn.fresh)
  /\ UNCHANGED <<sender, sends, backlog, up, seen, effects, journal, saved>>

(* The commander has closed its end: write_all fails, or, with the ack left*)
(* unread, the read that waits for its end-of-file.  handle_connection     *)
(* returns the error and accept_commands an empty list.                    *)
PeerGone ==
  /\ up /\ conn.stage \in {"answer", "eof"} /\ ~conn.peer
  /\ conn' = NoConn
  /\ UNCHANGED <<commanderVars, backlog, up, seen, effects, journal, saved>>

(* At EOF the accepted command goes to apply_command; poll_bridge_commands *)
(* then hands the state to the persistence writer.                         *)
Apply ==
  /\ up /\ conn.stage = "eof"
  /\ effects' = IF conn.fresh THEN [effects EXCEPT ![conn.cmd] = @ + 1] ELSE effects
  /\ conn' = NoConn
  /\ UNCHANGED <<commanderVars, backlog, up, seen, journal, saved>>

(* The persistence writer gets the state to disk, some time after. *)
Save ==
  /\ up /\ saved # effects
  /\ saved' = effects
  /\ UNCHANGED <<commanderVars, backlog, agentVars, journal>>

(* The agent dies: its sockets close, and a commander without an ack in    *)
(* its socket reads end-of-file.                                           *)
Crash ==
  /\ "crash" \in Env
  /\ up
  /\ up' = FALSE /\ seen' = {} /\ conn' = NoConn /\ backlog' = <<>>
  /\ sender' = [c \in Commands |-> IF sender[c] = "waiting" /\ inbox[c] = "none"
                                    THEN "failed" ELSE sender[c]]
  /\ effects' = saved
  /\ UNCHANGED <<sends, inbox, journal, saved>>

(* Boot: Intake::new seeds `seen` from the replayed oplog; the state is    *)
(* the last saved one.                                                     *)
Restart ==
  /\ ~up
  /\ up' = TRUE /\ seen' = journal
  /\ UNCHANGED <<commanderVars, backlog, conn, effects, journal, saved>>

AgentStep ==
  Accept \/ RejectBearer \/ AcceptDuplicate \/ JournalThenAck \/ WriteAck \/ PeerGone \/ Apply

Next ==
  \/ \E c \in Commands : Send(c) \/ ConnectionRefused(c) \/ ReadAck(c) \/ AckTimeout(c)
  \/ AgentStep \/ JournalFails \/ Save \/ Crash \/ Restart

(* The main loop keeps polling, a commander reads what is in its socket,   *)
(* the persistence writer thread runs, and the supervisor starts a dead    *)
(* agent again.                                                            *)
Fairness ==
  /\ WF_vars(AgentStep \/ JournalFails)
  /\ \A c \in Commands : WF_vars(ReadAck(c))
  /\ WF_vars(Save) /\ WF_vars(Restart)

Spec == Init /\ [][Next]_vars /\ Fairness

-----------------------------------------------------------------------------
(* Properties *)

(* The shape of the connections and of what each side knows. *)
TypeOK ==
  /\ sender \in [Commands -> {"new", "waiting", "accepted", "rejected", "failed"}]
  /\ sends \in [Commands -> 0..MaxSends]
  /\ inbox \in [Commands -> {"none", "accepted", "rejected"}]
  /\ backlog \in Seq(Connections)
  /\ up \in BOOLEAN /\ seen \subseteq Commands /\ journal \subseteq Commands
  /\ conn \in Served \cup {NoConn}
  /\ effects \in [Commands -> Nat] /\ saved \in [Commands -> Nat]

(* command.rs "apply each command exactly once": however often a command is*)
(* redelivered - after a lost ack, a timeout, a crash or a rejection - its *)
(* effect is never in the agent's state twice.                             *)
AppliedAtMostOnce == \A c \in Commands : effects[c] <= 1

(* command.rs "accepted always means durable", and nothing is applied that *)
(* a replay would not know of.                                             *)
AcceptedIsJournalled ==
  \A c \in Commands : sender[c] = "accepted" \/ effects[c] > 0 \/ saved[c] > 0 => c \in journal

(* Every commander gets an answer or an error: no connection is forgotten  *)
(* in the backlog.                                                         *)
EveryCommanderAnswered == \A c \in Commands : sender[c] = "waiting" ~> sender[c] # "waiting"

(* command.rs "a crash after the ack replays the effect": a command whose  *)
(* commander was told Accepted has its effect in the agent's state, once   *)
(* the agent is up and not in the middle of that command's connection.     *)
AcceptedIsApplied ==
  \A c \in Commands : sender[c] = "accepted" /\ up /\ conn = NoConn => effects[c] = 1
=============================================================================
