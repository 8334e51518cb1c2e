------------------------- MODULE DaemonLifecycleProofs -------------------------
(***************************************************************************)
(* A daemon that is up has the lock, the path, the pid file and the port    *)
(* for itself, for any clients, versions and deaths.                        *)
(*                                                                          *)
(* The argument: all four are taken and given back while the lock is held.  *)
(* The pid file and the path are touched by their names, whoever they are   *)
(* of, so what matters is that nobody but the holder of the lock touches    *)
(* them.                                                                    *)
(***************************************************************************)
EXTENDS DaemonLifecycle, SequenceTheorems, TLAPS

Holding == {"locked", "cleaned", "noted", "up", "draining", "unbound", "unnoted"}

LockHeld == \A p \in Proc : procs[p].state \in Holding <=> lock = p

(* The path is free before the holder listens, and its own after.          *)
PathHeld ==
  /\ \A p \in Proc : procs[p].state \in {"cleaned", "noted"} => sock = None
  /\ \A p \in Proc : procs[p].state \in {"up", "draining", "unbound", "unnoted"} => sock = p

PidHeld == \A p \in Proc : procs[p].state \in {"noted", "up", "draining", "unbound"} => pid = p

PortHeld == \A p \in Proc : procs[p].state \in {"up", "draining"} <=> http = p

(* A client that asks for an upgrade is newer than the daemon it asks, and *)
(* only a restart asks without being newer.                                *)
ShutdownIsDue ==
  \A c \in Clients : /\ phase[c] = "upgrade" => Version[c] > Version[procs[conn[c]].by]
                     /\ phase[c] \in {"start", "restart"} => c \in Restarters

IInv == TypeOK /\ LockHeld /\ PathHeld /\ PidHeld /\ PortHeld /\ ShutdownIsDue

-----------------------------------------------------------------------------
(* A step of one process changes its state and nothing else of it.         *)
LEMMA StateMoves ==
  ASSUME procs \in Seq(Process), NEW p \in Proc, NEW to \in States,
         procs' = [procs EXCEPT ![p].state = to]
  PROVE  /\ procs' \in Seq(Process)
         /\ Proc' = Proc
         /\ \A q \in Proc : procs'[q].by = procs[q].by
         /\ procs'[p].state = to
         /\ \A q \in Proc : q # p => procs'[q] = procs[q]
<1>1. procs[p] \in Process
  BY DEF Proc
<1>2. [procs[p] EXCEPT !.state = to] \in Process
  BY <1>1 DEF Process
<1>3. procs' = [procs EXCEPT ![p] = [procs[p] EXCEPT !.state = to]]
  OBVIOUS
<1>4. procs' \in Seq(Process) /\ DOMAIN procs' = DOMAIN procs
  BY <1>2, <1>3, ExceptSeq DEF Proc
<1> QED
  BY <1>1, <1>3, <1>4 DEF Proc, Process

(* One that is spawned joins the others.                                   *)
LEMMA OneMore ==
  ASSUME procs \in Seq(Process), NEW q \in Process, procs' = Append(procs, q)
  PROVE  /\ procs' \in Seq(Process)
         /\ Proc' = Proc \cup {Len(procs) + 1}
         /\ Len(procs) + 1 \notin Proc
         /\ procs'[Len(procs) + 1] = q
         /\ \A p \in Proc : procs'[p] = procs[p]
<1>1. /\ procs' \in Seq(Process) /\ Len(procs') = Len(procs) + 1
      /\ \A p \in 1..Len(procs) : procs'[p] = procs[p]
      /\ procs'[Len(procs) + 1] = q
  BY AppendProperties
<1>2. DOMAIN procs = 1..Len(procs) /\ Len(procs) \in Nat
  OBVIOUS
<1>3. DOMAIN procs' = 1..Len(procs')
  BY <1>1
<1> QED
  BY <1>1, <1>2, <1>3 DEF Proc

LEMMA ProcIsNat == ASSUME procs \in Seq(Process) PROVE Proc \subseteq Nat /\ None \notin Proc
  BY NoneAssumption DEF Proc

LEMMA InitIInv == Init => IInv
<1> SUFFICES ASSUME Init PROVE IInv
  OBVIOUS
<1>1. PICK s \in Scenarios :
         /\ phase = [c \in Clients |-> IF c \notin s.run THEN "done"
                                       ELSE IF c \in Restarters THEN "start" ELSE "ensure"]
         /\ left = s.events
  BY DEF Init
<1>2. left \in Nat
  BY <1>1, ClientAssumption
<1>3. phase \in [Clients -> {"done", "start", "ensure"}]
  BY <1>1
<1>4. procs = <<>> /\ procs \in Seq(Process) /\ Proc = {}
  BY DEF Init, Proc
<1> QED
  BY <1>2, <1>3, <1>4 DEF Init, IInv, TypeOK, LockHeld, PathHeld, PidHeld, PortHeld, ShutdownIsDue, Phases

-----------------------------------------------------------------------------
(* The invariant through a step of a process: its state goes from one to   *)
(* another, and what it holds with it.                                     *)
LEMMA ProcessStep ==
  ASSUME IInv, NEW p \in Proc,
         DaemonStep(p) \/ ConfigFails(p) \/ Stopped(p) \/ Killed(p)
  PROVE  IInv'
<1> USE DEF IInv
<1>1. Proc \subseteq Nat /\ None \notin Proc
  BY ProcIsNat DEF TypeOK
<1>2. \A q \in Proc : procs[q].state \in Holding /\ procs[p].state \in Holding => q = p
  BY DEF LockHeld
<1>3. UNCHANGED clientVars
  BY DEF DaemonStep, StartStep, StopStep, TryAcquireLock, RemovesStaleSocket, WritesPid, Listens,
         StopsHttp, RemovesPid, ReleasesLock, StopsUds, Exits, ConfigFails, Stopped, Killed
<1>4. /\ troubled' \subseteq Clients
      /\ left' \in Nat
  BY DEF DaemonStep, StartStep, StopStep, TryAcquireLock, RemovesStaleSocket, WritesPid, Listens,
         StopsHttp, RemovesPid, ReleasesLock, StopsUds, Exits, ConfigFails, Stopped, Killed,
         ShutsDown, Counting, TypeOK
<1>5. PICK to \in States : procs' = [procs EXCEPT ![p].state = to]
  BY DEF DaemonStep, StartStep, StopStep, TryAcquireLock, RemovesStaleSocket, WritesPid, Listens,
         StopsHttp, RemovesPid, ReleasesLock, StopsUds, Exits, ConfigFails, Stopped, Killed,
         ShutsDown, Becomes, States
<1>6. /\ procs' \in Seq(Process)
      /\ Proc' = Proc
      /\ \A q \in Proc : procs'[q].by = procs[q].by
      /\ procs'[p].state = to
      /\ \A q \in Proc : q # p => procs'[q] = procs[q]
  BY <1>5, StateMoves DEF TypeOK
<1>7. ShutdownIsDue'
  <2>1. \A c \in Clients : phase[c] = "upgrade" => conn[c] \in Proc
    BY DEF TypeOK
  <2> QED
    BY <1>3, <1>6, <2>1 DEF ShutdownIsDue, clientVars
<1>8. ASSUME /\ lock' \in Proc \cup {None} /\ sock' \in Proc \cup {None}
             /\ pid' \in Proc \cup {None} /\ http' \in Proc \cup {None}
      PROVE  TypeOK'
  BY <1>3, <1>4, <1>6, <1>8 DEF TypeOK, clientVars
<1>9. CASE TryAcquireLock(p)
  <2>1. UNCHANGED <<sock, pid, http>> /\ procs[p].state = "spawned"
    BY <1>9 DEF TryAcquireLock, Becomes, Is
  <2>2. \/ lock = None /\ lock' = p /\ to = "locked"
        \/ lock # None /\ lock' = lock /\ to = "lost"
    BY <1>5, <1>6, <1>9, StateMoves DEF TryAcquireLock, Becomes, Is, States, TypeOK
  <2>3. TypeOK'
    BY <1>8, <2>1, <2>2 DEF TypeOK
  <2>4. LockHeld'
    BY <1>1, <1>6, <2>1, <2>2 DEF LockHeld, Holding, TypeOK
  <2>5. PathHeld'
    BY <1>1, <1>2, <1>6, <2>1, <2>2 DEF PathHeld, Holding
  <2>6. PidHeld'
    BY <1>1, <1>2, <1>6, <2>1, <2>2 DEF PidHeld, Holding
  <2>7. PortHeld'
    BY <1>1, <1>6, <2>1, <2>2 DEF PortHeld
  <2> QED
    BY <1>7, <2>3, <2>4, <2>5, <2>6, <2>7
<1>10. CASE RemovesStaleSocket(p)
  <2>1. UNCHANGED <<lock, pid, http>> /\ procs[p].state = "locked"
    BY <1>10 DEF RemovesStaleSocket, Becomes, Is
  <2>2. to = "cleaned" /\ sock' = None
    BY <1>5, <1>6, <1>10, StateMoves DEF RemovesStaleSocket, Becomes, Is, States, TypeOK
  <2>3. TypeOK'
    BY <1>8, <2>1, <2>2 DEF TypeOK
  <2>4. LockHeld'
    BY <1>1, <1>6, <2>1, <2>2 DEF LockHeld, Holding, TypeOK
  <2>5. PathHeld'
    BY <1>1, <1>2, <1>6, <2>1, <2>2 DEF PathHeld, Holding
  <2>6. PidHeld'
    BY <1>1, <1>2, <1>6, <2>1, <2>2 DEF PidHeld, Holding
  <2>7. PortHeld'
    BY <1>1, <1>6, <2>1, <2>2 DEF PortHeld
  <2> QED
    BY <1>7, <2>3, <2>4, <2>5, <2>6, <2>7
<1>11. CASE ConfigFails(p)
  <2>1. UNCHANGED <<sock, pid, http>> /\ procs[p].state = "cleaned"
    BY <1>11 DEF ConfigFails, Becomes, Is
  <2>2. to = "failed" /\ lock' = None
    BY <1>5, <1>6, <1>11, StateMoves DEF ConfigFails, Becomes, Is, States, TypeOK
  <2>3. TypeOK'
    BY <1>8, <2>1, <2>2 DEF TypeOK
  <2>4. LockHeld'
    BY <1>1, <1>6, <2>1, <2>2 DEF LockHeld, Holding, TypeOK
  <2>5. PathHeld'
    BY <1>1, <1>2, <1>6, <2>1, <2>2 DEF PathHeld, Holding
  <2>6. PidHeld'
    BY <1>1, <1>2, <1>6, <2>1, <2>2 DEF PidHeld, Holding
  <2>7. PortHeld'
    BY <1>1, <1>6, <2>1, <2>2 DEF PortHeld
  <2> QED
    BY <1>7, <2>3, <2>4, <2>5, <2>6, <2>7
<1>12. CASE WritesPid(p)
  <2>1. UNCHANGED <<lock, sock, http>> /\ procs[p].state = "cleaned"
    BY <1>12 DEF WritesPid, Becomes, Is
  <2>2. to = "noted" /\ pid' = p
    BY <1>5, <1>6, <1>12, StateMoves DEF WritesPid, Becomes, Is, States, TypeOK
  <2>3. TypeOK'
    BY <1>8, <2>1, <2>2 DEF TypeOK
  <2>4. LockHeld'
    BY <1>1, <1>6, <2>1, <2>2 DEF LockHeld, Holding, TypeOK
  <2>5. PathHeld'
    BY <1>1, <1>2, <1>6, <2>1, <2>2 DEF PathHeld, Holding
  <2>6. PidHeld'
    BY <1>1, <1>2, <1>6, <2>1, <2>2 DEF PidHeld, Holding
  <2>7. PortHeld'
    BY <1>1, <1>6, <2>1, <2>2 DEF PortHeld
  <2> QED
    BY <1>7, <2>3, <2>4, <2>5, <2>6, <2>7
<1>13. CASE StopsHttp(p)
  <2>1. UNCHANGED <<lock, sock, pid>> /\ procs[p].state = "draining"
    BY <1>13 DEF StopsHttp, Becomes, Is
  <2>2. to = "unbound" /\ http' = None
    BY <1>5, <1>6, <1>13, StateMoves DEF StopsHttp, Becomes, Is, States, TypeOK, PortHeld
  <2>3. TypeOK'
    BY <1>8, <2>1, <2>2 DEF TypeOK
  <2>4. LockHeld'
    BY <1>1, <1>6, <2>1, <2>2 DEF LockHeld, Holding, TypeOK
  <2>5. PathHeld'
    BY <1>1, <1>2, <1>6, <2>1, <2>2 DEF PathHeld, Holding
  <2>6. PidHeld'
    BY <1>1, <1>2, <1>6, <2>1, <2>2 DEF PidHeld, Holding
  <2>7. PortHeld'
    BY <1>1, <1>6, <2>1, <2>2 DEF PortHeld
  <2> QED
    BY <1>7, <2>3, <2>4, <2>5, <2>6, <2>7
<1>14. CASE RemovesPid(p)
  <2>1. UNCHANGED <<lock, sock, http>> /\ procs[p].state = "unbound"
    BY <1>14 DEF RemovesPid, Becomes, Is
  <2>2. to = "unnoted" /\ pid' = None
    BY <1>5, <1>6, <1>14, StateMoves DEF RemovesPid, Becomes, Is, States, TypeOK
  <2>3. TypeOK'
    BY <1>8, <2>1, <2>2 DEF TypeOK
  <2>4. LockHeld'
    BY <1>1, <1>6, <2>1, <2>2 DEF LockHeld, Holding, TypeOK
  <2>5. PathHeld'
    BY <1>1, <1>2, <1>6, <2>1, <2>2 DEF PathHeld, Holding
  <2>6. PidHeld'
    BY <1>1, <1>2, <1>6, <2>1, <2>2 DEF PidHeld, Holding
  <2>7. PortHeld'
    BY <1>1, <1>6, <2>1, <2>2 DEF PortHeld
  <2> QED
    BY <1>7, <2>3, <2>4, <2>5, <2>6, <2>7
<1>15. CASE ReleasesLock(p)
  <2>1. UNCHANGED <<sock, pid, http>> /\ procs[p].state = "unnoted"
    BY <1>15 DEF ReleasesLock, Becomes, Is
  <2>2. to = "unlocked" /\ lock' = None
    BY <1>5, <1>6, <1>15, StateMoves DEF ReleasesLock, Becomes, Is, States, TypeOK
  <2>3. TypeOK'
    BY <1>8, <2>1, <2>2 DEF TypeOK
  <2>4. LockHeld'
    BY <1>1, <1>6, <2>1, <2>2 DEF LockHeld, Holding, TypeOK
  <2>5. PathHeld'
    BY <1>1, <1>2, <1>6, <2>1, <2>2 DEF PathHeld, Holding
  <2>6. PidHeld'
    BY <1>1, <1>2, <1>6, <2>1, <2>2 DEF PidHeld, Holding
  <2>7. PortHeld'
    BY <1>1, <1>6, <2>1, <2>2 DEF PortHeld
  <2> QED
    BY <1>7, <2>3, <2>4, <2>5, <2>6, <2>7
<1>16. CASE StopsUds(p)
  <2>1. UNCHANGED <<lock, sock, pid, http>> /\ procs[p].state = "unlocked"
    BY <1>16 DEF StopsUds, Becomes, Is, resourceVars
  <2>2. to = "closed"
    BY <1>5, <1>6, <1>16, StateMoves DEF StopsUds, Becomes, Is, States, TypeOK
  <2>3. TypeOK'
    BY <1>8, <2>1, <2>2 DEF TypeOK
  <2>4. LockHeld'
    BY <1>1, <1>6, <2>1, <2>2 DEF LockHeld, Holding, TypeOK
  <2>5. PathHeld'
    BY <1>1, <1>2, <1>6, <2>1, <2>2 DEF PathHeld, Holding
  <2>6. PidHeld'
    BY <1>1, <1>2, <1>6, <2>1, <2>2 DEF PidHeld, Holding
  <2>7. PortHeld'
    BY <1>1, <1>6, <2>1, <2>2 DEF PortHeld
  <2> QED
    BY <1>7, <2>3, <2>4, <2>5, <2>6, <2>7
<1>17. CASE Exits(p)
  <2>1. UNCHANGED <<lock, sock, pid, http>> /\ procs[p].state = "closed"
    BY <1>17 DEF Exits, Becomes, Is, resourceVars
  <2>2. to = "ended"
    BY <1>5, <1>6, <1>17, StateMoves DEF Exits, Becomes, Is, States, TypeOK
  <2>3. TypeOK'
    BY <1>8, <2>1, <2>2 DEF TypeOK
  <2>4. LockHeld'
    BY <1>1, <1>6, <2>1, <2>2 DEF LockHeld, Holding, TypeOK
  <2>5. PathHeld'
    BY <1>1, <1>2, <1>6, <2>1, <2>2 DEF PathHeld, Holding
  <2>6. PidHeld'
    BY <1>1, <1>2, <1>6, <2>1, <2>2 DEF PidHeld, Holding
  <2>7. PortHeld'
    BY <1>1, <1>6, <2>1, <2>2 DEF PortHeld
  <2> QED
    BY <1>7, <2>3, <2>4, <2>5, <2>6, <2>7
<1>18. CASE Stopped(p)
  <2>1. UNCHANGED <<lock, sock, pid, http>> /\ procs[p].state = "up"
    BY <1>18 DEF Stopped, Becomes, Is, resourceVars
  <2>2. to = "draining"
    BY <1>5, <1>6, <1>18, StateMoves DEF Stopped, Becomes, Is, States, TypeOK, ShutsDown
  <2>3. TypeOK'
    BY <1>8, <2>1, <2>2 DEF TypeOK
  <2>4. LockHeld'
    BY <1>1, <1>6, <2>1, <2>2 DEF LockHeld, Holding, TypeOK
  <2>5. PathHeld'
    BY <1>1, <1>2, <1>6, <2>1, <2>2 DEF PathHeld, Holding
  <2>6. PidHeld'
    BY <1>1, <1>2, <1>6, <2>1, <2>2 DEF PidHeld, Holding
  <2>7. PortHeld'
    BY <1>1, <1>6, <2>1, <2>2 DEF PortHeld
  <2> QED
    BY <1>7, <2>3, <2>4, <2>5, <2>6, <2>7
<1>19. CASE Listens(p)
  <2>1. procs[p].state = "noted" /\ sock = None /\ UNCHANGED <<lock, pid>>
    BY <1>19 DEF Listens, Becomes, Is, PathHeld
  <2>2. \A q \in Proc : http # q
    BY <1>2, <2>1 DEF PortHeld, Holding
  <2>3. sock' = p /\ http' = p
    BY <1>19, <2>1, <2>2 DEF Listens, TypeOK
  <2>4. to = "up"
    BY <1>5, <1>6, <1>19, <2>1, StateMoves DEF Listens, Becomes, States, TypeOK
  <2>5. TypeOK'
    BY <1>8, <2>1, <2>3 DEF TypeOK
  <2>6. LockHeld'
    BY <1>1, <1>6, <2>1, <2>4 DEF LockHeld, Holding, TypeOK
  <2>7. PathHeld'
    BY <1>1, <1>2, <1>6, <2>1, <2>3, <2>4 DEF PathHeld, Holding
  <2>8. PidHeld'
    BY <1>1, <1>2, <1>6, <2>1, <2>4 DEF PidHeld, Holding
  <2>9. PortHeld'
    BY <1>1, <1>6, <2>2, <2>3, <2>4 DEF PortHeld
  <2> QED
    BY <1>7, <2>5, <2>6, <2>7, <2>8, <2>9
<1>20. CASE Killed(p)
  <2>1. /\ UNCHANGED <<sock, pid>>
        /\ lock' = IF lock = p THEN None ELSE lock
        /\ http' = IF http = p THEN None ELSE http
    BY <1>20 DEF Killed
  <2>2. to = "killed"
    BY <1>5, <1>6, <1>20, StateMoves DEF Killed, States, TypeOK
  <2>3. TypeOK'
    BY <1>8, <2>1 DEF TypeOK
  <2>4. LockHeld'
    BY <1>1, <1>6, <2>1, <2>2 DEF LockHeld, Holding, TypeOK
  <2>5. PathHeld'
    BY <1>1, <1>2, <1>6, <2>1, <2>2 DEF PathHeld, Holding
  <2>6. PidHeld'
    BY <1>1, <1>2, <1>6, <2>1, <2>2 DEF PidHeld, Holding
  <2>7. PortHeld'
    BY <1>1, <1>6, <2>1, <2>2 DEF PortHeld
  <2> QED
    BY <1>7, <2>3, <2>4, <2>5, <2>6, <2>7
<1> QED
  BY <1>9, <1>10, <1>11, <1>12, <1>13, <1>14, <1>15, <1>16, <1>17, <1>18, <1>19, <1>20 DEF DaemonStep, StartStep, StopStep

-----------------------------------------------------------------------------
(* What the daemons hold, while they and their resources stay as they are. *)
LEMMA HeldStays ==
  ASSUME LockHeld, PathHeld, PidHeld, PortHeld, UNCHANGED <<procs, lock, sock, pid, http>>
  PROVE  LockHeld' /\ PathHeld' /\ PidHeld' /\ PortHeld'
<1>1. Proc' = Proc
  BY DEF Proc
<1> QED
  BY <1>1 DEF LockHeld, PathHeld, PidHeld, PortHeld

(* And while a daemon that is up begins to stop.                           *)
LEMMA HeldWhileDraining ==
  ASSUME IInv, NEW p \in Proc, ShutsDown(p), UNCHANGED <<lock, sock, pid, http>>
  PROVE  /\ LockHeld' /\ PathHeld' /\ PidHeld' /\ PortHeld'
         /\ procs' \in Seq(Process) /\ Proc' = Proc /\ troubled' \subseteq Clients
         /\ \A q \in Proc : procs'[q].by = procs[q].by
<1> USE DEF IInv
<1>1. CASE Is(p, "up")
  <2>1. procs' = [procs EXCEPT ![p].state = "draining"] /\ procs[p].state = "up"
    BY <1>1 DEF ShutsDown, Is
  <2>2. /\ procs' \in Seq(Process)
        /\ Proc' = Proc
        /\ \A q \in Proc : procs'[q].by = procs[q].by
        /\ procs'[p].state = "draining"
        /\ \A q \in Proc : q # p => procs'[q] = procs[q]
    BY <2>1, StateMoves DEF TypeOK, States
  <2>3. LockHeld'
    BY <2>1, <2>2 DEF LockHeld, Holding
  <2>4. PathHeld'
    BY <2>1, <2>2 DEF PathHeld
  <2>5. PidHeld'
    BY <2>1, <2>2 DEF PidHeld
  <2>6. PortHeld'
    BY <2>1, <2>2 DEF PortHeld
  <2>7. troubled' \subseteq Clients
    BY <1>1 DEF ShutsDown, Counting, TypeOK
  <2> QED
    BY <2>2, <2>3, <2>4, <2>5, <2>6, <2>7
<1>2. CASE ~Is(p, "up")
  <2>1. UNCHANGED <<procs, troubled>>
    BY <1>2 DEF ShutsDown
  <2> QED
    BY <2>1, HeldStays DEF TypeOK, Proc
<1> QED
  BY <1>1, <1>2

(* Connecting reaches a process, and says nothing of an upgrade.           *)
LEMMA ConnectingKeeps ==
  ASSUME TypeOK, ShutdownIsDue, NEW c \in Clients, NEW to \in {"restart", "hello"},
         Connects(c, to), to = "restart" => c \in Restarters, procs' = procs
  PROVE  /\ ShutdownIsDue'
         /\ phase' \in [Clients -> Phases] /\ conn' \in [Clients -> Proc \cup {None}]
         /\ troubled' \subseteq Clients
         /\ phase'[c] = to /\ conn'[c] # None
         /\ \A d \in Clients \ {c} : phase'[d] = phase[d] /\ conn'[d] = conn[d]
<1>1. PICK p \in Reached : /\ conn' = [conn EXCEPT ![c] = p]
                           /\ phase' = [phase EXCEPT ![c] = to]
                           /\ troubled' = IF procs[p].state \in Leaving
                                          THEN troubled \cup {c} ELSE troubled
  BY DEF Connects, Goes
<1>2. p \in Proc /\ p # None
  BY ProcIsNat DEF Reached, TypeOK
<1>3. /\ phase' \in [Clients -> Phases] /\ conn' \in [Clients -> Proc \cup {None}]
      /\ troubled' \subseteq Clients
  BY <1>1, <1>2 DEF TypeOK, Phases
<1>4. /\ phase'[c] = to /\ conn'[c] = p
      /\ \A d \in Clients \ {c} : phase'[d] = phase[d] /\ conn'[d] = conn[d]
  BY <1>1 DEF TypeOK
<1>5. ShutdownIsDue'
  BY <1>4 DEF ShutdownIsDue
<1> QED
  BY <1>2, <1>3, <1>4, <1>5

LEMMA CommandStep ==
  ASSUME IInv, NEW c \in Clients, Begins(c) \/ ClientStep(c)
  PROVE  IInv'
<1> USE DEF IInv
<1>1. ASSUME UNCHANGED daemonVars, ShutdownIsDue', TypeOK'
      PROVE  IInv'
  BY <1>1, HeldStays DEF daemonVars, resourceVars
<1>2. CASE Begins(c)
  <2>1. /\ UNCHANGED <<procs, lock, sock, pid, http, spawned, again, left>>
        /\ UNCHANGED daemonVars /\ phase[c] = "start" /\ Proc' = Proc
    BY <1>2 DEF Begins, daemonVars, resourceVars, Proc
  <2>2. CASE Connects(c, "restart")
    <3>1. c \in Restarters
      BY <2>1 DEF ShutdownIsDue
    <3> QED
      BY <1>1, <2>1, <2>2, <3>1, ConnectingKeeps DEF TypeOK
  <2>3. CASE Goes(c, "ensure") /\ UNCHANGED <<conn, troubled>>
    <3>1. ShutdownIsDue'
      BY <2>1, <2>3 DEF Goes, ShutdownIsDue, TypeOK
    <3>2. TypeOK'
      BY <2>1, <2>3 DEF Goes, TypeOK, Phases
    <3> QED
      BY <1>1, <2>1, <3>1, <3>2
  <2> QED
    BY <1>2, <2>2, <2>3 DEF Begins
<1>3. CASE ConnectsWithSpawn(c)
  <2>1. /\ UNCHANGED <<lock, sock, pid, http, again, left>>
        /\ UNCHANGED resourceVars /\ phase[c] = "ensure"
    BY <1>3 DEF ConnectsWithSpawn, resourceVars
  <2>2. CASE Connects(c, "hello") /\ UNCHANGED <<procs, spawned>>
    <3>1. Proc' = Proc /\ UNCHANGED daemonVars
      BY <2>1, <2>2 DEF Proc, daemonVars
    <3> QED
      BY <1>1, <2>1, <2>2, <3>1, ConnectingKeeps DEF TypeOK
  <2>3. CASE /\ procs' = Append(procs, [by |-> c, state |-> "spawned"])
             /\ spawned' = [spawned EXCEPT ![c] = Len(procs) + 1]
             /\ Goes(c, "retrying")
             /\ UNCHANGED <<conn, troubled>>
    <3> DEFINE n == Len(procs) + 1
    <3>1. /\ procs' \in Seq(Process)
          /\ Proc' = Proc \cup {n} /\ n \notin Proc
          /\ procs'[n] = [by |-> c, state |-> "spawned"]
          /\ \A p \in Proc : procs'[p] = procs[p]
      BY <2>3, OneMore DEF TypeOK, Process, States
    <3>2. n # None /\ Proc \subseteq Nat
      BY NoneAssumption, ProcIsNat DEF TypeOK
    <3>3. procs'[n].state = "spawned"
      BY <3>1
    <3> HIDE DEF n
    <3>4. lock # n /\ http # n
      BY <3>1, <3>2 DEF TypeOK
    <3>5. LockHeld'
      BY <2>1, <3>1, <3>3, <3>4 DEF LockHeld, Holding
    <3>6. PathHeld' /\ PidHeld'
      BY <2>1, <3>1, <3>3 DEF PathHeld, PidHeld
    <3>7. PortHeld'
      BY <2>1, <3>1, <3>3, <3>4 DEF PortHeld
    <3>8. ShutdownIsDue'
      BY <2>1, <2>3, <3>1 DEF ShutdownIsDue, Goes, TypeOK
    <3>9. TypeOK'
      <4>1. spawned' = [spawned EXCEPT ![c] = n]
        BY <2>3 DEF n
      <4>2. spawned' \in [Clients -> Proc' \cup {None}] /\ conn' \in [Clients -> Proc' \cup {None}]
        BY <2>3, <3>1, <4>1 DEF TypeOK
      <4>3. phase' \in [Clients -> Phases]
        BY <2>3 DEF TypeOK, Goes, Phases
      <4>4. \A d \in Clients : /\ phase'[d] \in {"hello", "restart", "upgrade"} <=> conn'[d] # None
                               /\ phase'[d] = "retrying" <=> spawned'[d] # None
        BY <2>1, <2>3, <3>2, <4>1 DEF TypeOK, Goes
      <4> QED
        BY <2>1, <2>3, <3>1, <4>2, <4>3, <4>4 DEF TypeOK
    <3> QED
      BY <3>5, <3>6, <3>7, <3>8, <3>9
  <2> QED
    BY <1>3, <2>2, <2>3 DEF ConnectsWithSpawn
<1>4. CASE Retries(c)
  <2>1. /\ UNCHANGED <<procs, lock, sock, pid, http, again, left>>
        /\ UNCHANGED daemonVars /\ Proc' = Proc
        /\ spawned' = [spawned EXCEPT ![c] = None]
        /\ phase[c] = "retrying" /\ Connects(c, "hello")
    BY <1>4 DEF Retries, daemonVars, resourceVars, Proc
  <2> QED
    BY <1>1, <2>1, ConnectingKeeps DEF TypeOK
<1>5. CASE SpawnFails(c)
  <2>1. /\ UNCHANGED <<procs, lock, sock, pid, http, conn, again, left, troubled>>
        /\ UNCHANGED daemonVars /\ Proc' = Proc
        /\ spawned' = [spawned EXCEPT ![c] = None]
        /\ phase[c] = "retrying" /\ phase' = [phase EXCEPT ![c] = "error"]
    BY <1>5 DEF SpawnFails, Goes, daemonVars, resourceVars, Proc
  <2>2. ShutdownIsDue'
    BY <2>1 DEF ShutdownIsDue, TypeOK
  <2>3. TypeOK'
    BY <2>1 DEF TypeOK, Phases
  <2> QED
    BY <1>1, <2>1, <2>2, <2>3
<1>6. CASE HelloAnswered(c)
  <2>1. /\ UNCHANGED <<procs, lock, sock, pid, http, spawned, again, left, troubled>>
        /\ UNCHANGED daemonVars /\ Proc' = Proc
        /\ phase[c] = "hello"
    BY <1>6 DEF HelloAnswered, daemonVars, resourceVars, Proc
  <2>2. CASE /\ Version[c] > Version[procs[conn[c]].by]
             /\ phase' = [phase EXCEPT ![c] = "upgrade"] /\ UNCHANGED conn
    <3>1. ShutdownIsDue'
      BY <2>1, <2>2 DEF ShutdownIsDue, TypeOK
    <3>2. TypeOK'
      BY <2>1, <2>2 DEF TypeOK, Phases
    <3> QED
      BY <1>1, <2>1, <3>1, <3>2
  <2>3. CASE /\ phase' = [phase EXCEPT ![c] = "done"]
             /\ conn' = [conn EXCEPT ![c] = None]
    <3>1. ShutdownIsDue'
      BY <2>1, <2>3 DEF ShutdownIsDue, TypeOK
    <3>2. TypeOK'
      BY <2>1, <2>3 DEF TypeOK, Phases
    <3> QED
      BY <1>1, <2>1, <3>1, <3>2
  <2> QED
    BY <1>6, <2>2, <2>3 DEF HelloAnswered, Goes, Outdated
<1>7. CASE HelloLost(c)
  <2>1. /\ UNCHANGED <<procs, lock, sock, pid, http, spawned, again, left, troubled>>
        /\ UNCHANGED daemonVars /\ Proc' = Proc
        /\ phase[c] = "hello" /\ phase' = [phase EXCEPT ![c] = "error"]
        /\ conn' = [conn EXCEPT ![c] = None]
    BY <1>7 DEF HelloLost, Goes, daemonVars, resourceVars, Proc
  <2>2. ShutdownIsDue'
    BY <2>1 DEF ShutdownIsDue, TypeOK
  <2>3. TypeOK'
    BY <2>1 DEF TypeOK, Phases
  <2> QED
    BY <1>1, <2>1, <2>2, <2>3
<1>8. CASE ShutdownEnds(c)
  <2>1. /\ UNCHANGED <<lock, sock, pid, http, spawned, left>>
        /\ phase[c] \in {"restart", "upgrade"} /\ phase' = [phase EXCEPT ![c] = "ensure"]
        /\ conn' = [conn EXCEPT ![c] = None]
        /\ again' \subseteq Clients
    BY <1>8 DEF ShutdownEnds, Goes, resourceVars, TypeOK
  <2>2. conn[c] \in Proc
    BY <2>1 DEF TypeOK
  <2>3. /\ LockHeld' /\ PathHeld' /\ PidHeld' /\ PortHeld'
        /\ procs' \in Seq(Process) /\ Proc' = Proc /\ troubled' \subseteq Clients
        /\ \A q \in Proc : procs'[q].by = procs[q].by
    <3>1. CASE ShutsDown(conn[c])
      BY <2>1, <2>2, <3>1, HeldWhileDraining
    <3>2. CASE UNCHANGED <<procs, troubled>>
      BY <2>1, <3>2, HeldStays DEF TypeOK, Proc
    <3> QED
      BY <1>8, <3>1, <3>2 DEF ShutdownEnds
  <2>4. ShutdownIsDue'
    BY <2>1, <2>3 DEF ShutdownIsDue, TypeOK
  <2>5. TypeOK'
    BY <2>1, <2>3 DEF TypeOK, Phases
  <2> QED
    BY <2>3, <2>4, <2>5
<1> QED
  BY <1>2, <1>3, <1>4, <1>5, <1>6, <1>7, <1>8 DEF ClientStep

LEMMA NextIInv == IInv /\ [Next]_vars => IInv'
<1> SUFFICES ASSUME IInv, [Next]_vars PROVE IInv'
  OBVIOUS
<1>1. CASE Next
  BY <1>1, ProcessStep, CommandStep DEF Next
<1>2. CASE UNCHANGED vars
  <2>1. UNCHANGED <<procs, lock, sock, pid, http, phase, conn, spawned, again, left, troubled>>
    BY <1>2 DEF vars, daemonVars, resourceVars, clientVars
  <2>2. Proc' = Proc
    BY <2>1 DEF Proc
  <2>3. TypeOK' /\ ShutdownIsDue'
    BY <2>1, <2>2 DEF IInv, TypeOK, ShutdownIsDue
  <2> QED
    BY <2>1, <2>3, HeldStays DEF IInv
<1> QED
  BY <1>1, <1>2

THEOREM Invariance == Spec => []IInv
  BY InitIInv, NextIInv, PTL DEF Spec

(* Type correctness of the daemons, their resources and their clients.     *)
THEOREM TypeCorrect == Spec => []TypeOK
<1>1. IInv => TypeOK
  BY DEF IInv
<1> QED
  BY <1>1, Invariance, PTL

(* HasAll for every number of clients, daemons, deaths and restarts: who   *)
(* is up holds the lock, and with it what only the holder touches.         *)
THEOREM UpHasAll == Spec => []HasAll
<1>1. IInv => HasAll
  BY DEF IInv, HasAll, LockHeld, PathHeld, PidHeld, PortHeld, Holding, Is
<1> QED
  BY <1>1, Invariance, PTL

-----------------------------------------------------------------------------
(* NewestStays for every number of clients and versions: only an upgrade,  *)
(* which is due, a restart, a person or a death takes a daemon down.       *)
THEOREM NewestIsKept == Spec => NewestStays
<1> DEFINE Kept == \A p \in Proc :
       \/ ~Is(p, "up") \/ \E c \in Clients : Version[c] > Version[procs[p].by]
       \/ procs'[p].state = "up" \/ left' < left
       \/ \E c \in Restarters : phase[c] = "restart" /\ phase'[c] = "ensure" /\ conn[c] = p
<1>1. ASSUME IInv, [Next]_vars PROVE Kept
  <2>1. SUFFICES ASSUME NEW p \in Proc, Is(p, "up"), procs'[p].state # "up",
                        ~ \E c \in Clients : Version[c] > Version[procs[p].by]
                 PROVE  \/ left' < left
                        \/ \E c \in Restarters : /\ phase[c] = "restart" /\ phase'[c] = "ensure"
                                                /\ conn[c] = p
    BY DEF Is
  <2>2. procs \in Seq(Process) /\ left \in Nat
    BY <1>1 DEF IInv, TypeOK
  <2>3. procs' # procs
    BY <2>1 DEF Is
  <2>4. CASE \E q \in Proc : ConfigFails(q) \/ Stopped(q) \/ Killed(q)
    BY <2>2, <2>4 DEF ConfigFails, Stopped, Killed
  <2>5. ASSUME NEW q \in Proc, DaemonStep(q) PROVE FALSE
    <3>1. PICK to \in States, from \in States \ {"up"} :
            Is(q, from) /\ procs' = [procs EXCEPT ![q].state = to]
      BY <2>5 DEF DaemonStep, StartStep, StopStep, TryAcquireLock, RemovesStaleSocket, WritesPid,
                  Listens, StopsHttp, RemovesPid, ReleasesLock, StopsUds, Exits, Becomes, States
    <3> QED
      BY <2>1, <2>2, <3>1, StateMoves DEF Is
  <2>6. ASSUME NEW c \in Clients, ConnectsWithSpawn(c) PROVE FALSE
    <3>1. procs' = Append(procs, [by |-> c, state |-> "spawned"])
      BY <2>3, <2>6 DEF ConnectsWithSpawn
    <3> QED
      BY <2>1, <2>2, <3>1, OneMore DEF Is, Process, States
  <2>7. ASSUME NEW c \in Clients, ShutdownEnds(c)
        PROVE  c \in Restarters /\ phase[c] = "restart" /\ phase'[c] = "ensure" /\ conn[c] = p
    <3>1. phase[c] \in {"restart", "upgrade"} /\ phase'[c] = "ensure" /\ conn[c] \in Proc
      BY <1>1, <2>7 DEF ShutdownEnds, Goes, IInv, TypeOK
    <3>2. Is(conn[c], "up") /\ procs' = [procs EXCEPT ![conn[c]].state = "draining"]
      BY <2>3, <2>7 DEF ShutdownEnds, ShutsDown
    <3>3. conn[c] = p
      BY <2>1, <2>2, <3>1, <3>2, StateMoves DEF Is, States
    <3> QED
      BY <1>1, <2>1, <3>1, <3>3 DEF IInv, ShutdownIsDue
  <2>8. ASSUME NEW c \in Clients, Begins(c) \/ ClientStep(c)
        PROVE  ConnectsWithSpawn(c) \/ ShutdownEnds(c)
    BY <2>3, <2>8 DEF Begins, ClientStep, Retries, SpawnFails, HelloAnswered, HelloLost, daemonVars
  <2>9. Next
    BY <1>1, <2>3 DEF vars, daemonVars
  <2> QED
    BY <2>4, <2>5, <2>6, <2>7, <2>8, <2>9 DEF Next
<1> QED
  BY <1>1, Invariance, PTL DEF Spec, NewestStays
=============================================================================
