---------------------------- MODULE DaemonLifecycle ----------------------------
(***************************************************************************)
(* How a host comes to have one daemon: the start and the graceful stop of  *)
(* a daemon process (packages/daemon/src/server.ts, daemon-shutdown.ts) over *)
(* the lock, the socket's path, the pid file and the HTTP port that it must *)
(* have for itself, and the clients that connect, spawn it, replace it when *)
(* it is older than they are (packages/cli/src/client.ts, ensureDaemon) and *)
(* restart it (packages/cli/src/index.ts).                                  *)
(*                                                                          *)
(* The kernel lets go of a dead process's lock, port and connections; its   *)
(* pid file and the name of its socket stay. All clients speak one protocol *)
(* generation, and a daemon that starts is up or has failed before the      *)
(* retries of the client that spawned it have run out.                      *)
(***************************************************************************)
EXTENDS Integers, Sequences

CONSTANTS
  Clients,     (* the commands that want a daemon, one ensureDaemon each    *)
  Restarters,  (* those of them that are a daemon restart                   *)
  Version,     (* the version of each                                       *)
  Scenarios,   (* bounds: which commands are run, and how often a daemon is *)
               (* killed, stopped by a person, or started with a            *)
               (* configuration that does not read (events)                 *)
  None

ASSUME ClientAssumption ==
  /\ Restarters \subseteq Clients
  /\ Version \in [Clients -> Nat]
  /\ Scenarios \subseteq [run: SUBSET Clients, events: Nat]
ASSUME NoneAssumption == None \notin Nat

VARIABLES
  procs,     (* the daemon processes, in the order they were spawned        *)
  (* what a daemon has for itself: the process that has it, or None *)
  lock,
  sock,      (* whose socket has the path; it may be dead                   *)
  pid,       (* whose pid the file has; it may be dead                      *)
  http,
  (* the clients *)
  phase,
  conn,      (* the process a client is connected to, or None               *)
  spawned,   (* the process whose start it waits for, or None               *)
  again,     (* the clients that had an older daemon shut down              *)
  left,      (* of the scenario's events                                    *)
  troubled   (* for the properties: the clients that counted on a daemon    *)
             (* while one failed, was killed or was shut down               *)

resourceVars == <<lock, sock, pid, http>>
daemonVars == <<procs, resourceVars>>
clientVars == <<phase, conn, spawned, again>>
vars == <<daemonVars, clientVars, left, troubled>>

(* A start goes through the first row, a graceful stop through the second. *)
States == {"spawned", "locked", "cleaned", "noted", "up",
           "draining", "unbound", "unnoted", "unlocked", "closed",
           "lost", "failed", "killed", "ended"}
Starting == {"spawned", "locked", "cleaned", "noted"}
Accepting == {"up", "draining", "unbound", "unnoted", "unlocked"}
Leaving == {"draining", "unbound", "unnoted", "unlocked", "closed"}
Over == {"lost", "failed", "killed", "ended"}

(* Those that take requests: between two of its awaits a daemon takes none. *)
Serving == {"up", "draining", "closed"}

(* A restart begins in the first, every other command in the second.       *)
Phases == {"start", "ensure", "retrying", "hello", "restart", "upgrade", "done", "error"}

Proc == DOMAIN procs
Is(p, state) == procs[p].state = state

Process == [by: Clients, state: States]

TypeOK ==
  /\ procs \in Seq(Process)
  /\ lock \in Proc \cup {None} /\ sock \in Proc \cup {None}
  /\ pid \in Proc \cup {None} /\ http \in Proc \cup {None}
  /\ phase \in [Clients -> Phases]
  /\ conn \in [Clients -> Proc \cup {None}]
  /\ spawned \in [Clients -> Proc \cup {None}]
  /\ again \subseteq Clients /\ troubled \subseteq Clients
  /\ left \in Nat
  /\ \A c \in Clients : /\ phase[c] \in {"hello", "restart", "upgrade"} <=> conn[c] # None
                        /\ phase[c] = "retrying" <=> spawned[c] # None

Init ==
  /\ procs = <<>>
  /\ lock = None /\ sock = None /\ pid = None /\ http = None
  /\ \E s \in Scenarios :
       /\ phase = [c \in Clients |-> IF c \notin s.run THEN "done"
                                     ELSE IF c \in Restarters THEN "start" ELSE "ensure"]
       /\ left = s.events
  /\ conn = [c \in Clients |-> None] /\ spawned = [c \in Clients |-> None]
  /\ again = {} /\ troubled = {}

-----------------------------------------------------------------------------
(* A daemon's start (startDaemon).                                         *)

Becomes(p, from, to) ==
  /\ Is(p, from)
  /\ procs' = [procs EXCEPT ![p].state = to]

(* The clients that count on a daemon that starts or runs.                 *)
Counting == {c \in Clients : phase[c] \in {"retrying", "hello"}}

(* Mutated form: the one that finds the lock taken ends with a failure. *)
TryAcquireLock_Fails(p) ==
  /\ \/ lock = None /\ Becomes(p, "spawned", "locked") /\ lock' = p
     \/ lock # None /\ Becomes(p, "spawned", "failed") /\ UNCHANGED lock
  /\ UNCHANGED <<sock, pid, http, clientVars, left, troubled>>

(* The lock is the right to be the daemon; a process that does not get it  *)
(* ends without an error.                                                  *)
TryAcquireLock(p) ==
  /\ \/ lock = None /\ Becomes(p, "spawned", "locked") /\ lock' = p
     \/ lock # None /\ Becomes(p, "spawned", "lost") /\ UNCHANGED lock
  /\ UNCHANGED <<sock, pid, http, clientVars, left, troubled>>

(* A socket that a predecessor left under the path goes.                   *)
RemovesStaleSocket(p) ==
  /\ Becomes(p, "locked", "cleaned")
  /\ sock' = None
  /\ UNCHANGED <<lock, pid, http, clientVars, left, troubled>>

(* A configuration that does not read stops the start.                     *)
ConfigFails(p) ==
  /\ left > 0 /\ left' = left - 1
  /\ Becomes(p, "cleaned", "failed")
  /\ lock' = None
  /\ troubled' = troubled \cup Counting
  /\ UNCHANGED <<sock, pid, http, clientVars>>

WritesPid(p) ==
  /\ Becomes(p, "cleaned", "noted")
  /\ pid' = p
  /\ UNCHANGED <<lock, sock, http, clientVars, left, troubled>>

(* listenUds, and in the same breath the HTTP listeners: a path that is    *)
(* taken would end the start, a port that is taken is left out.            *)
Listens(p) ==
  /\ IF sock = None
     THEN /\ Becomes(p, "noted", "up")
          /\ sock' = p /\ http' = IF http = None THEN p ELSE http
          /\ UNCHANGED lock
     ELSE /\ Becomes(p, "noted", "failed")
          /\ lock' = None
          /\ UNCHANGED <<sock, http>>
  /\ UNCHANGED <<pid, clientVars, left, troubled>>

-----------------------------------------------------------------------------
(* Its graceful stop (shutdownDaemon, releaseDaemonResources).             *)

(* The launches under way and the HTTP listeners end first, which may take *)
(* as long as they have.                                                   *)
StopsHttp(p) ==
  /\ Becomes(p, "draining", "unbound")
  /\ http' = IF http = p THEN None ELSE http
  /\ UNCHANGED <<lock, sock, pid, clientVars, left, troubled>>

RemovesPid(p) ==
  /\ Becomes(p, "unbound", "unnoted")
  /\ pid' = None
  /\ UNCHANGED <<lock, sock, http, clientVars, left, troubled>>

ReleasesLock(p) ==
  /\ Becomes(p, "unnoted", "unlocked")
  /\ lock' = None
  /\ UNCHANGED <<sock, pid, http, clientVars, left, troubled>>

(* Mutated form: the socket's name is removed with the listener. *)
StopsUds_Unlinks(p) ==
  /\ Becomes(p, "unlocked", "closed")
  /\ sock' = None
  /\ UNCHANGED <<lock, pid, http, clientVars, left, troubled>>

(* The socket closes last and its name stays.                              *)
StopsUds(p) ==
  /\ Becomes(p, "unlocked", "closed")
  /\ UNCHANGED <<resourceVars, clientVars, left, troubled>>

Exits(p) ==
  /\ Becomes(p, "closed", "ended")
  /\ UNCHANGED <<resourceVars, clientVars, left, troubled>>

(* A daemon that was asked to stop already goes on stopping.               *)
ShutsDown(p) ==
  IF Is(p, "up")
  THEN /\ procs' = [procs EXCEPT ![p].state = "draining"]
       /\ troubled' = troubled \cup Counting
  ELSE UNCHANGED <<procs, troubled>>

(* daemon stop, or a signal.                                               *)
Stopped(p) ==
  /\ left > 0 /\ left' = left - 1
  /\ Is(p, "up") /\ ShutsDown(p)
  /\ UNCHANGED <<resourceVars, clientVars>>

Killed(p) ==
  /\ left > 0 /\ left' = left - 1
  /\ procs[p].state \notin Over
  /\ procs' = [procs EXCEPT ![p].state = "killed"]
  /\ lock' = IF lock = p THEN None ELSE lock
  /\ http' = IF http = p THEN None ELSE http
  /\ troubled' = troubled \cup Counting
  /\ UNCHANGED <<sock, pid, clientVars>>

-----------------------------------------------------------------------------
(* A client.                                                               *)

(* The process that connecting reaches.                                    *)
Reached == {p \in Proc : sock = p /\ procs[p].state \in Accepting}

Goes(c, to) == phase' = [phase EXCEPT ![c] = to]

(* tryConnect finds one; it may be one on its way out.                     *)
Connects(c, to) ==
  \E p \in Reached :
    /\ conn' = [conn EXCEPT ![c] = p]
    /\ Goes(c, to)
    /\ troubled' = IF procs[p].state \in Leaving THEN troubled \cup {c} ELSE troubled

(* runDaemonRestart shuts a running daemon down, and goes on with          *)
(* ensureDaemon as every other command begins.                             *)
Begins(c) ==
  /\ phase[c] = "start"
  /\ IF Reached # {}
     THEN Connects(c, "restart")
     ELSE Goes(c, "ensure") /\ UNCHANGED <<conn, troubled>>
  /\ UNCHANGED <<daemonVars, spawned, again, left>>

(* connectWithSpawn.                                                       *)
ConnectsWithSpawn(c) ==
  /\ phase[c] = "ensure"
  /\ IF Reached # {}
     THEN Connects(c, "hello") /\ UNCHANGED <<procs, spawned>>
     ELSE /\ procs' = Append(procs, [by |-> c, state |-> "spawned"])
          /\ spawned' = [spawned EXCEPT ![c] = Len(procs) + 1]
          /\ Goes(c, "retrying")
          /\ UNCHANGED <<conn, troubled>>
  /\ UNCHANGED <<resourceVars, again, left>>

Retries(c) ==
  /\ phase[c] = "retrying"
  /\ Connects(c, "hello")
  /\ spawned' = [spawned EXCEPT ![c] = None]
  /\ UNCHANGED <<daemonVars, again, left>>

(* The daemon it spawned failed, or the retries have run out.              *)
SpawnFails(c) ==
  /\ phase[c] = "retrying" /\ Reached = {}
  /\ \/ procs[spawned[c]].state \in {"failed", "killed"}
     \/ \A p \in Proc : procs[p].state \notin Starting
  /\ Goes(c, "error")
  /\ spawned' = [spawned EXCEPT ![c] = None]
  /\ UNCHANGED <<daemonVars, conn, again, left, troubled>>

(* Mutated form: a daemon of another version is replaced. *)
Outdated_Differs(c, p) == Version[c] # Version[procs[p].by]

(* compareVersions: the client is strictly newer than the daemon.          *)
Outdated(c, p) == Version[c] > Version[procs[p].by]

(* The hello is answered. One upgrade is tried.                            *)
HelloAnswered(c) ==
  /\ phase[c] = "hello"
  /\ procs[conn[c]].state \in Serving
  /\ IF Outdated(c, conn[c]) /\ c \notin again
     THEN Goes(c, "upgrade") /\ UNCHANGED conn
     ELSE Goes(c, "done") /\ conn' = [conn EXCEPT ![c] = None]
  /\ UNCHANGED <<daemonVars, spawned, again, left, troubled>>

HelloLost(c) ==
  /\ phase[c] = "hello" /\ procs[conn[c]].state \in Over
  /\ Goes(c, "error")
  /\ conn' = [conn EXCEPT ![c] = None]
  /\ UNCHANGED <<daemonVars, spawned, again, left, troubled>>

(* The shutdown request is taken, or its connection is lost. Then          *)
(* waitDaemonGone waits until nothing is reached or its tries have run     *)
(* out, so that the next connect may come at any time.                     *)
ShutdownEnds(c) ==
  /\ phase[c] \in {"restart", "upgrade"}
  /\ \/ procs[conn[c]].state \in Serving /\ ShutsDown(conn[c])
     \/ procs[conn[c]].state \in Over /\ UNCHANGED <<procs, troubled>>
  /\ Goes(c, "ensure")
  /\ conn' = [conn EXCEPT ![c] = None]
  /\ again' = IF phase[c] = "upgrade" THEN again \cup {c} ELSE again
  /\ UNCHANGED <<resourceVars, spawned, left>>

-----------------------------------------------------------------------------
StartStep(p) ==
  \/ TryAcquireLock(p) \/ RemovesStaleSocket(p) \/ WritesPid(p) \/ Listens(p)
StopStep(p) == StopsHttp(p) \/ RemovesPid(p) \/ ReleasesLock(p) \/ StopsUds(p) \/ Exits(p)
DaemonStep(p) == StartStep(p) \/ StopStep(p)
ClientStep(c) ==
  \/ ConnectsWithSpawn(c) \/ Retries(c) \/ SpawnFails(c)
  \/ HelloAnswered(c) \/ HelloLost(c) \/ ShutdownEnds(c)

Next ==
  \/ \E p \in Proc : DaemonStep(p) \/ ConfigFails(p) \/ Stopped(p) \/ Killed(p)
  \/ \E c \in Clients : Begins(c) \/ ClientStep(c)

Spec == Init /\ [][Next]_vars

(* A process goes on with its start and its stop, a client with what it    *)
(* awaits; a restart may not be asked for.                                 *)
FairSpec ==
  /\ Spec
  /\ WF_vars(\E p \in Proc : DaemonStep(p))
  /\ \A c \in Clients : WF_vars(ClientStep(c))

-----------------------------------------------------------------------------
(* Properties.                                                             *)

(* "Release every resource that can block its successor before closing     *)
(* UDS" (shutdownDaemon): whatever a predecessor still does on its way     *)
(* out, or left behind when it was killed, a daemon that is up is the one  *)
(* the path leads to and the pid file names, and has its port.             *)
HasAll == \A p \in Proc : Is(p, "up") => lock = p /\ sock = p /\ pid = p /\ http = p

(* "newer-wins" (ensureDaemon): clients of different versions do not fight *)
(* over the daemon. One that no client is newer than goes on, unless it is *)
(* killed, or a person stops or restarts it.                               *)
NewestStays ==
  [][\A p \in Proc :
       \/ ~Is(p, "up") \/ \E c \in Clients : Version[c] > Version[procs[p].by]
       \/ procs'[p].state = "up" \/ left' < left
       \/ \E c \in Restarters : phase[c] = "restart" /\ phase'[c] = "ensure" /\ conn[c] = p]_vars

(* Commands that all start at once, that lose the lock to one another or   *)
(* find what a killed daemon left: each gets its connection, unless a      *)
(* daemon fails, is killed or is shut down meanwhile.                      *)
EachIsServed == \A c \in Clients : phase[c] = "ensure" ~> phase[c] = "done" \/ c \in troubled
=============================================================================
