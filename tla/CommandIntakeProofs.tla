------------------------ MODULE CommandIntakeProofs ------------------------
(***************************************************************************)
(* Exactly-once intake for any set of commands, any number of resends and  *)
(* any combination of crashes, timeouts and journal failures.              *)
(*                                                                         *)
(* AppliedAtMostOnce is not inductive: a fresh connection about to be      *)
(* applied must belong to a command with no effect yet, which holds because*)
(* every command with an effect, live or saved, is in the dedup set of a   *)
(* running agent - and that survives a restart because `seen` is reseeded  *)
(* from the journal, which had it before the effect.                       *)
(***************************************************************************)
EXTENDS CommandIntake, SequenceTheorems, TLAPS

(* The dedup set holds only journalled tokens. *)
SeenJournalled == seen \subseteq journal

(* A command with an effect is journalled, and a running agent knows it. *)
EffectsSeen ==
  \A c \in Commands : effects[c] # 0 \/ saved[c] # 0 => c \in journal /\ (up => c \in seen)

(* A connection whose command is still to be applied: journalled, no effect.*)
FreshUnapplied ==
  conn.stage # "none" /\ conn.fresh =>
    conn.cmd \in seen /\ effects[conn.cmd] = 0 /\ saved[conn.cmd] = 0

(* An Accepted on its way to the commander, or with it, is journalled. *)
AcksJournalled ==
  /\ conn.stage # "none" /\ conn.ack = "accepted" => conn.cmd \in journal
  /\ \A c \in Commands : inbox[c] = "accepted" \/ sender[c] = "accepted" => c \in journal

AtMostOnce == \A c \in Commands : effects[c] \in {0, 1} /\ saved[c] \in {0, 1}

(* The inductive invariant. *)
IInv == TypeOK /\ SeenJournalled /\ EffectsSeen /\ FreshUnapplied /\ AcksJournalled /\ AtMostOnce

(* A function on an initial segment of the naturals is a sequence. *)
LEMMA FunctionIsSeq ==
  ASSUME NEW S, NEW n \in Nat, NEW f \in [1..n -> S]
  PROVE  f \in Seq(S)
<1>1. [1..n -> S] \in {[1..k -> S] : k \in Nat}
  OBVIOUS
<1> QED BY <1>1, SeqDef

LEMMA InitIInv == Init => IInv
<1> SUFFICES ASSUME Init PROVE IInv
  OBVIOUS
<1>1. <<>> \in Seq(Connections)
  OBVIOUS
<1>2. conn.stage = "none"
  BY DEF Init, NoConn
<1> QED
  BY <1>1, <1>2, MaxSendsAssumption
  DEF Init, IInv, TypeOK, SeenJournalled, EffectsSeen, FreshUnapplied, AcksJournalled, AtMostOnce

(* Every step of the intake keeps TypeOK. *)
LEMMA NextTypeOK == TypeOK /\ [Next]_vars => TypeOK'
<1> SUFFICES ASSUME TypeOK, [Next]_vars PROVE TypeOK'
  OBVIOUS
<1> USE MaxSendsAssumption DEF TypeOK, commanderVars, agentVars
<1>1. ASSUME NEW c \in Commands, Send(c) PROVE TypeOK'
  <2>1. PICK b \in BOOLEAN : backlog' = Append(backlog, Connection(c, b, TRUE))
    BY <1>1, Zenon DEF Send
  <2>2. Connection(c, b, TRUE) \in Connections
    BY DEF Connection, Connections
  <2>3. backlog' \in Seq(Connections)
    BY <2>1, <2>2, AppendProperties
  <2>4. /\ sender' = [sender EXCEPT ![c] = "waiting"]
        /\ sends' = [sends EXCEPT ![c] = @ + 1] /\ sends[c] < MaxSends
        /\ UNCHANGED <<inbox, agentVars, journal, saved>>
    BY <1>1 DEF Send, MaySend
  <2> QED BY <2>3, <2>4
<1>2. ASSUME NEW c \in Commands, ConnectionRefused(c) PROVE TypeOK'
  BY <1>2 DEF ConnectionRefused, MaySend
<1>3. ASSUME NEW c \in Commands, ReadAck(c) PROVE TypeOK'
  BY <1>3 DEF ReadAck
<1>4. ASSUME NEW c \in Commands, AckTimeout(c) PROVE TypeOK'
  <2>2. DOMAIN backlog = 1..Len(backlog) /\ Len(backlog) \in Nat
    OBVIOUS
  <2>1. ASSUME NEW i \in 1..Len(backlog) PROVE backlog'[i] \in Connections
    <3>1. backlog[i] \in Connections
      OBVIOUS
    <3>2. Connection(c, backlog[i].bearer, FALSE) \in Connections
      BY <3>1 DEF Connection, Connections
    <3> QED BY <1>4, <2>2, <3>1, <3>2 DEF AckTimeout
  <2>3. backlog' \in [1..Len(backlog) -> Connections]
    BY <1>4, <2>1, <2>2 DEF AckTimeout
  <2>4. backlog' \in Seq(Connections)
    BY <2>2, <2>3, FunctionIsSeq
  <2>5. conn' \in Served \cup {NoConn}
    BY <1>4 DEF AckTimeout, Serving, NoConn, Served
  <2> QED BY <1>4, <2>4, <2>5 DEF AckTimeout
<1>5. CASE Accept
  <2>1. Head(backlog) \in Connections /\ Tail(backlog) \in Seq(Connections)
    BY <1>5 DEF Accept
  <2>2. conn' \in Served
    BY <1>5, <2>1 DEF Accept, Serve, Serving, Served, Connections
  <2> QED BY <1>5, <2>1, <2>2 DEF Accept
<1>6. CASE RejectBearer
  BY <1>6 DEF RejectBearer, Answer, Serving, Served, NoConn
<1>7. CASE AcceptDuplicate
  BY <1>7 DEF AcceptDuplicate, Answer, Serving, Served, NoConn
<1>8. CASE JournalThenAck
  BY <1>8 DEF JournalThenAck, Answer, Serving, Served, NoConn
<1>9. CASE JournalFails
  BY <1>9 DEF JournalFails, Answer, Serving, Served, NoConn
<1>10. CASE WriteAck
  BY <1>10 DEF WriteAck, Serving, Served, NoConn
<1>11. CASE PeerGone
  BY <1>11 DEF PeerGone
<1>12. CASE Apply
  BY <1>12 DEF Apply, Served, NoConn
<1>13. CASE Save
  BY <1>13 DEF Save
<1>14. CASE Crash
  <2>1. <<>> \in Seq(Connections)
    OBVIOUS
  <2> QED BY <1>14, <2>1 DEF Crash
<1>15. CASE Restart
  BY <1>15 DEF Restart
<1>16. CASE UNCHANGED vars
  BY <1>16 DEF vars
<1> QED BY <1>1, <1>2, <1>3, <1>4, <1>5, <1>6, <1>7, <1>8, <1>9, <1>10, <1>11, <1>12, <1>13,
           <1>14, <1>15, <1>16 DEF Next, AgentStep

(* The rest of the invariant, action by action.  Only the steps of the     *)
(* agent disturb it: `seen`, `journal`, `effects` and `saved` are its own. *)
Rest == SeenJournalled /\ EffectsSeen /\ FreshUnapplied /\ AcksJournalled /\ AtMostOnce

LEMMA NextRest == IInv /\ [Next]_vars => Rest'
<1> SUFFICES ASSUME IInv, [Next]_vars PROVE Rest'
  OBVIOUS
<1>0. TypeOK /\ TypeOK' /\ Rest
  BY NextTypeOK DEF IInv, Rest
<1> USE DEF Rest, SeenJournalled, EffectsSeen, FreshUnapplied, AcksJournalled, AtMostOnce,
            commanderVars, agentVars
<1>1. ASSUME NEW c \in Commands, Send(c) PROVE Rest'
  BY <1>0, <1>1 DEF Send, TypeOK
<1>2. ASSUME NEW c \in Commands, ConnectionRefused(c) PROVE Rest'
  BY <1>0, <1>2 DEF ConnectionRefused, TypeOK
<1>3. ASSUME NEW c \in Commands, ReadAck(c) PROVE Rest'
  BY <1>0, <1>3 DEF ReadAck, TypeOK
<1>4. ASSUME NEW c \in Commands, AckTimeout(c) PROVE Rest'
  BY <1>0, <1>4 DEF AckTimeout, Serving, TypeOK
<1>5. CASE Accept
  BY <1>0, <1>5 DEF Accept, Serve, Serving, TypeOK
<1>6. CASE RejectBearer
  BY <1>0, <1>6 DEF RejectBearer, Answer, Serving, TypeOK
<1>7. CASE AcceptDuplicate
  BY <1>0, <1>7 DEF AcceptDuplicate, Answer, Serving, TypeOK
<1>8. CASE JournalThenAck
  BY <1>0, <1>8 DEF JournalThenAck, Answer, Serving, Served, NoConn, TypeOK
<1>9. CASE JournalFails
  BY <1>0, <1>9 DEF JournalFails, Answer, Serving, TypeOK
<1>10. CASE WriteAck
  BY <1>0, <1>10 DEF WriteAck, Serving, Served, NoConn, TypeOK
<1>11. CASE PeerGone
  BY <1>0, <1>11 DEF PeerGone, NoConn, TypeOK
<1>12. CASE Apply
  BY <1>0, <1>12 DEF Apply, Served, NoConn, TypeOK
<1>13. CASE Save
  BY <1>0, <1>13 DEF Save, TypeOK
<1>14. CASE Crash
  BY <1>0, <1>14 DEF Crash, NoConn, TypeOK
<1>15. CASE Restart
  BY <1>0, <1>15 DEF Restart, TypeOK
<1>16. CASE UNCHANGED vars
  BY <1>0, <1>16 DEF vars
<1> QED BY <1>1, <1>2, <1>3, <1>4, <1>5, <1>6, <1>7, <1>8, <1>9, <1>10, <1>11, <1>12, <1>13,
           <1>14, <1>15, <1>16 DEF Next, AgentStep

-----------------------------------------------------------------------------
(* IInv is an invariant of the intake. *)
THEOREM InductiveInvariant == Spec => []IInv
<1>1. IInv /\ [Next]_vars => IInv'
  BY NextTypeOK, NextRest DEF IInv, Rest
<1> QED BY InitIInv, <1>1, PTL DEF Spec

(* The state of the intake has its declared shape in every reachable state.*)
THEOREM TypeCorrect == Spec => []TypeOK
<1>1. IInv => TypeOK
  BY DEF IInv
<1> QED BY InductiveInvariant, <1>1, PTL

(* command.rs "apply each command exactly once", the at-most-once half: no *)
(* number of redeliveries, timeouts, crashes or journal failures puts a    *)
(* command's effect into the agent's state twice.                          *)
THEOREM ExactlyOnceIntake == Spec => []AppliedAtMostOnce
<1>1. IInv => AppliedAtMostOnce
  BY DEF IInv, AtMostOnce, AppliedAtMostOnce
<1> QED BY InductiveInvariant, <1>1, PTL

(* command.rs "accepted always means durable": an Accepted answer, and any *)
(* effect in the live or the saved state, has its record in the log.       *)
THEOREM AcceptedMeansDurable == Spec => []AcceptedIsJournalled
<1>1. IInv => AcceptedIsJournalled
  BY DEF IInv, TypeOK, EffectsSeen, AcksJournalled, AcceptedIsJournalled
<1> QED BY InductiveInvariant, <1>1, PTL
=============================================================================
