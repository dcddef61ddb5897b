------------------------- MODULE BridgeBootProofs -------------------------
(***************************************************************************)
(* For any number of processes in a folder, however they boot, fail, drop  *)
(* their bridge or are killed: a live one is the one clients reach.        *)
(*                                                                         *)
(* LiveIsReachable is not inductive: what keeps a second process from      *)
(* taking socket and registry record away from a live one is the folder    *)
(* lock, held from "locked" to "dropped" and by nobody else, and the order *)
(* in which start_inner sets socket and record up behind it.               *)
(***************************************************************************)
EXTENDS BridgeBoot, TLAPS

(* The stages in which a process holds the flock, has its listener at the  *)
(* socket path, and has its record in the registry.                        *)
Locking == {"locked", "opened", "bound", "advertised", "live", "dropped"}
Listening == {"bound", "advertised", "live"}
Advertising == {"advertised", "live"}

StageOK == stage \in [Processes -> Stages]

(* The holder of the lock is the one process in a stage that holds it. *)
LockHeld == \A p \in Processes : stage[p] \in Locking <=> lock = p

(* Socket and record belong to the process that has set them up and not    *)
(* given them up since.                                                    *)
SocketHeld == \A p \in Processes : stage[p] \in Listening => socket = p
RecordHeld == \A p \in Processes : stage[p] \in Advertising => registry = p

(* The inductive invariant. *)
IInv == StageOK /\ LockHeld /\ SocketHeld /\ RecordHeld

(* An untouched folder: nobody holds the lock, no process has started. *)
LEMMA InitIInv == Init => IInv
BY NoProcessAssumption
DEF Init, IInv, StageOK, Stages, LockHeld, SocketHeld, RecordHeld, Locking, Listening, Advertising

(* A step of one process keeps the invariant. *)
LEMMA NextIInv == IInv /\ [Next]_vars => IInv'
<1> SUFFICES ASSUME IInv, [Next]_vars PROVE IInv'
  OBVIOUS
<1> USE NoProcessAssumption
    DEF IInv, StageOK, Stages, LockHeld, SocketHeld, RecordHeld, Locking, Listening, Advertising,
        Goto, folderVars
<1>1. ASSUME NEW p \in Processes, Launch(p) PROVE IInv'
  BY <1>1 DEF Launch
<1>2. ASSUME NEW p \in Processes, AcquireLock(p) PROVE IInv'
  BY <1>2 DEF AcquireLock
<1>3. ASSUME NEW p \in Processes, AlreadyRunning(p) PROVE IInv'
  BY <1>3 DEF AlreadyRunning
<1>4. ASSUME NEW p \in Processes, OpenOplog(p) PROVE IInv'
  BY <1>4 DEF OpenOplog
<1>5. ASSUME NEW p \in Processes, BindSocket(p) PROVE IInv'
  BY <1>5 DEF BindSocket
<1>6. ASSUME NEW p \in Processes, WriteEntry(p) PROVE IInv'
  BY <1>6 DEF WriteEntry
<1>7. ASSUME NEW p \in Processes, StartBeacon(p) PROVE IInv'
  BY <1>7 DEF StartBeacon
<1>8. ASSUME NEW p \in Processes, BootFails(p) PROVE IInv'
  BY <1>8 DEF BootFails
<1>9. ASSUME NEW p \in Processes, Journal(p) PROVE IInv'
  BY <1>9 DEF Journal
<1>10. ASSUME NEW p \in Processes, Commit(p) PROVE IInv'
  BY <1>10 DEF Commit
<1>11. ASSUME NEW p \in Processes, Beat(p) PROVE IInv'
  BY <1>11 DEF Beat
<1>12. ASSUME NEW p \in Processes, DropBody(p) PROVE IInv'
  BY <1>12 DEF DropBody
<1>13. ASSUME NEW p \in Processes, DropLock(p) PROVE IInv'
  BY <1>13 DEF DropLock
<1>14. ASSUME NEW p \in Processes, DropService(p) PROVE IInv'
  BY <1>14 DEF DropService
<1>15. ASSUME NEW p \in Processes, DropBeacon(p) PROVE IInv'
  BY <1>15 DEF DropBeacon
<1>16. ASSUME NEW p \in Processes, Kill(p) PROVE IInv'
  BY <1>16 DEF Kill
<1>17. CASE UNCHANGED vars
  BY <1>17 DEF vars
<1> QED
  BY <1>1, <1>2, <1>3, <1>4, <1>5, <1>6, <1>7, <1>8, <1>9, <1>10, <1>11, <1>12, <1>13, <1>14,
     <1>15, <1>16, <1>17 DEF Next, BootStep, DropStep

(* boot/mod.rs "exactly one process per agent folder must own the agent's  *)
(* runtime resources": at no time do two processes hold the folder, and    *)
(* socket and record are those of the one that has booted.                 *)
THEOREM OneOwner == Spec => []IInv
<1>1. Init => IInv
  BY InitIInv
<1>2. IInv /\ [Next]_vars => IInv'
  BY NextIInv
<1> QED BY <1>1, <1>2, PTL DEF Spec

(* Whoever is live is reached through the socket and the registry record   *)
(* of the folder, for any number of processes, records and failed boots.   *)
THEOREM Reachable == Spec => []LiveIsReachable
<1>1. IInv => LiveIsReachable
  BY DEF IInv, LockHeld, SocketHeld, RecordHeld, LiveIsReachable, Locking, Listening, Advertising
<1> QED BY <1>1, OneOwner, PTL
=============================================================================
