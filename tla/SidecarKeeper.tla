----------------------------- MODULE SidecarKeeper -----------------------------
(***************************************************************************)
(* The keeping of a session's sidecar: the hooks module starts one, starts  *)
(* it again when it dies and replaces it when the session changes its id    *)
(* (hooks/sidecar.ts); the sidecar binds the run's socket under that id and *)
(* names the run to whichever daemon listens                                *)
(* (packages/cli/src/sidecar.ts). What the daemon makes of the runs named   *)
(* to it is SidecarRuns; what the requests do is PromptSend.                *)
(*                                                                          *)
(* The delay of a respawn is left out: a death is answered some time later. *)
(***************************************************************************)
EXTENDS Integers, Sequences, FiniteSets

CONSTANTS
  MaxId,       (* bound: the ids the session has, one after another        *)
  Scenarios,   (* bounds: how often the session's id changes, a sidecar    *)
               (* dies and the daemon stops                                *)
  None

Ids == 1..MaxId
Left == [changes: Nat, deaths: Nat, stops: Nat]

ASSUME KeeperAssumption ==
  /\ MaxId \in Nat
  /\ Scenarios \subseteq Left /\ \A s \in Scenarios : s.changes < MaxId
ASSUME NoneAssumption == None \notin Nat

VARIABLES
  (* the hooks module *)
  id,        (* the session's id                                           *)
  commanded, (* the command that changed it has still to be told of        *)
  starts,    (* the starts in state.starting's line, the running one first *)
  step,      (* where the running one is: "none", "asked" or "returning"   *)
  under,     (* the id it read                                             *)
  sidecar,   (* state.sidecar: the sidecar that is kept, or None           *)
  timers,    (* the respawns that wait                                     *)
  (* the sidecars *)
  kids,      (* the sidecars in the order they were started                *)
  sock,      (* the sidecar whose socket is at the path of an id, or None  *)
  (* the daemon *)
  daemon,    (* whether one listens                                        *)
  named,     (* the sidecars whose connection names the run to it          *)
  left,      (* of the scenario's changes, deaths and stops                *)
  met        (* for the properties: how often a sidecar was run while      *)
             (* another start's was about to be spawned, or kept           *)

moduleVars == <<id, commanded, starts, step, under, sidecar, timers>>
kidVars == <<kids, sock>>
daemonVars == <<daemon, named>>
vars == <<moduleVars, kidVars, daemonVars, left, met>>

(* "argv": about to be spawned. A sidecar then unlinks the path, listens,  *)
(* looks at which file is its own, and is up. "leaving": its output is     *)
(* closed and its socket still has to be let go of. read: the module reads *)
(* it. ino: the file it took for its own.                                  *)
Kid == [sid: Ids, read: BOOLEAN, ino: Nat,
        proc: {"argv", "new", "unlinked", "listening", "up", "leaving", "gone"}]

Living == {"new", "unlinked", "listening", "up"}

TypeOK ==
  /\ id \in Ids /\ id + left.changes \in Ids /\ commanded \in BOOLEAN
  /\ starts \in Nat /\ step \in {"none", "asked", "returning"} /\ under \in Ids
  /\ kids \in Seq(Kid)
  /\ sidecar \in DOMAIN kids \cup {None} /\ timers \in Nat
  /\ sock \in [Ids -> DOMAIN kids \cup {None}]
  /\ daemon \in BOOLEAN /\ left \in Left
  /\ named \subseteq {c \in DOMAIN kids : kids[c].proc = "up"}
  /\ named # {} => daemon
  /\ met \in Nat
  /\ step # "none" => starts > 0
  /\ sidecar # None => kids[sidecar].read

(* A session with a composer has started.                                  *)
Init ==
  /\ id = 1 /\ commanded = FALSE
  /\ starts = 1 /\ step = "none" /\ under = 1 /\ sidecar = None /\ timers = 0
  /\ kids = <<>> /\ sock = [i \in Ids |-> None]
  /\ daemon = TRUE /\ named = {} /\ left \in Scenarios /\ met = 0

-----------------------------------------------------------------------------
(* The hooks module.                                                       *)

(* /clear or /resume gives the session another id (session.end), and the   *)
(* module hears of it again when the command has gone through.             *)
ChangesId ==
  /\ left.changes > 0 /\ left' = [left EXCEPT !.changes = @ - 1]
  /\ ~commanded
  /\ id' = id + 1 /\ commanded' = TRUE
  /\ UNCHANGED <<starts, step, under, sidecar, timers, kidVars, daemonVars, met>>

CommandRun ==
  /\ commanded
  /\ commanded' = FALSE
  /\ starts' = starts + 1
  /\ UNCHANGED <<id, step, under, sidecar, timers, kidVars, daemonVars, left, met>>

(* replaceSidecar asks the session for its id ...                          *)
AsksId ==
  /\ starts > 0 /\ step = "none"
  /\ step' = "asked"
  /\ UNCHANGED <<id, commanded, starts, under, sidecar, timers, kidVars, daemonVars, left, met>>

(* Nothing keeps this one from being run beside the one that an earlier    *)
(* start ran and that is not spawned yet.                                  *)
Launched(sid) ==
  /\ kids' = Append(kids, [sid |-> sid, proc |-> "argv", read |-> FALSE, ino |-> 0])
  /\ met' = IF sidecar # None \/ \E c \in DOMAIN kids : kids[c].proc = "argv"
            THEN met + 1 ELSE met

(* ... and keeps the sidecar it has for that id.                           *)
Keeps ==
  /\ step = "asked"
  /\ sidecar # None /\ kids[sidecar].sid = id
  /\ step' = "none" /\ starts' = starts - 1
  /\ UNCHANGED <<id, commanded, under, sidecar, timers, kidVars, daemonVars, left, met>>

(* With none, another is run; the start is over before that is spawned.    *)
Runs ==
  /\ step = "asked" /\ sidecar = None
  /\ Launched(id)
  /\ step' = "none" /\ starts' = starts - 1
  /\ UNCHANGED <<id, commanded, under, sidecar, timers, sock, daemonVars, left>>

(* Mutated form: the sidecar of the old id is left running. *)
Returns_LeaveOld ==
  /\ step = "asked" /\ sidecar # None /\ kids[sidecar].sid # id
  /\ step' = "returning" /\ under' = id
  /\ sidecar' = None
  /\ UNCHANGED <<id, commanded, starts, timers, kidVars, daemonVars, left, met>>

(* The sidecar of another id is let go of, and its child ended first.      *)
Returns ==
  /\ step = "asked" /\ sidecar # None /\ kids[sidecar].sid # id
  /\ step' = "returning" /\ under' = id
  /\ sidecar' = None
  /\ kids' = [kids EXCEPT ![sidecar].proc = IF @ \in Living THEN "leaving" ELSE @]
  /\ named' = named \ {sidecar}
  /\ UNCHANGED <<id, commanded, starts, timers, sock, daemon, left, met>>

Returned ==
  /\ step = "returning"
  /\ Launched(under)
  /\ step' = "none" /\ starts' = starts - 1
  /\ UNCHANGED <<id, commanded, under, sidecar, timers, sock, daemonVars, left>>

(* runSidecar, once it has its arguments.                                  *)
Spawns(c) ==
  /\ kids[c].proc = "argv"
  /\ kids' = [kids EXCEPT ![c].proc = "new", ![c].read = TRUE]
  /\ sidecar' = c
  /\ UNCHANGED <<id, commanded, starts, step, under, timers, sock, daemonVars, left, met>>

(* Its output ends: the next start waits, unless it was replaced.          *)
SeesEnd(c) ==
  /\ kids[c].read /\ kids[c].proc \in {"leaving", "gone"}
  /\ kids' = [kids EXCEPT ![c].read = FALSE]
  /\ sidecar' = IF sidecar = c THEN None ELSE sidecar
  /\ timers' = IF sidecar = c THEN timers + 1 ELSE timers
  /\ UNCHANGED <<id, commanded, starts, step, under, sock, daemonVars, left, met>>

(* The wait is over: started again unless there is one by now.             *)
Respawns ==
  /\ timers > 0
  /\ timers' = timers - 1
  /\ starts' = IF sidecar = None THEN starts + 1 ELSE starts
  /\ UNCHANGED <<id, commanded, step, under, sidecar, kidVars, daemonVars, left, met>>

-----------------------------------------------------------------------------
(* A sidecar (cli/sidecar.ts).                                             *)

Path(c) == kids[c].sid

Becomes(c, from, to) ==
  /\ kids[c].proc = from
  /\ kids' = [kids EXCEPT ![c].proc = to]

(* Whatever is at the path is this run's own, and goes.                    *)
Unlinks(c) ==
  /\ Becomes(c, "new", "unlinked")
  /\ sock' = [sock EXCEPT ![Path(c)] = None]
  /\ UNCHANGED <<moduleVars, daemonVars, left, met>>

Listens(c) ==
  /\ sock[Path(c)] = None
  /\ Becomes(c, "unlinked", "listening")
  /\ sock' = [sock EXCEPT ![Path(c)] = c]
  /\ UNCHANGED <<moduleVars, daemonVars, left, met>>

(* The path was bound meanwhile, or is gone again: it ends by throwing.    *)
Fails(c) ==
  /\ \/ sock[Path(c)] # None /\ Becomes(c, "unlinked", "gone")
     \/ sock[Path(c)] = None /\ Becomes(c, "listening", "gone")
  /\ UNCHANGED <<moduleVars, sock, daemonVars, left, met>>

(* Which file is its own.                                                  *)
Stats(c) ==
  /\ kids[c].proc = "listening" /\ sock[Path(c)] # None
  /\ kids' = [kids EXCEPT ![c].proc = "up", ![c].ino = sock[Path(c)]]
  /\ UNCHANGED <<moduleVars, sock, daemonVars, left, met>>

(* keepNamed: to the daemon that listens, and again to the next.           *)
Names(c) ==
  /\ kids[c].proc = "up" /\ c \notin named /\ daemon
  /\ named' = named \cup {c}
  /\ UNCHANGED <<moduleVars, kidVars, daemon, left, met>>

(* Mutated form: a sidecar that leaves removes whatever is at its path. *)
Leaves_ByName(c) ==
  /\ Becomes(c, "leaving", "gone")
  /\ sock' = [sock EXCEPT ![Path(c)] = None]
  /\ UNCHANGED <<moduleVars, daemonVars, left, met>>

(* It leaves: the socket goes only while it is still its own.              *)
Leaves(c) ==
  /\ Becomes(c, "leaving", "gone")
  /\ sock' = [sock EXCEPT ![Path(c)] = IF @ = kids[c].ino THEN None ELSE @]
  /\ UNCHANGED <<moduleVars, daemonVars, left, met>>

(* It dies, with its socket left there or with the time to let go of it.   *)
Dies(c) ==
  /\ left.deaths > 0 /\ left' = [left EXCEPT !.deaths = @ - 1]
  /\ kids[c].proc \in Living
  /\ \E how \in {"leaving", "gone"} : kids' = [kids EXCEPT ![c].proc = how]
  /\ named' = named \ {c}
  /\ UNCHANGED <<moduleVars, sock, daemon, met>>

-----------------------------------------------------------------------------
DaemonStops ==
  /\ left.stops > 0 /\ left' = [left EXCEPT !.stops = @ - 1]
  /\ daemon /\ daemon' = FALSE /\ named' = {}
  /\ UNCHANGED <<moduleVars, kidVars, met>>

DaemonStarts ==
  /\ ~daemon
  /\ daemon' = TRUE
  /\ UNCHANGED <<moduleVars, kidVars, named, left, met>>

-----------------------------------------------------------------------------
ModuleStep == AsksId \/ Keeps \/ Runs \/ Returns \/ Returned \/ CommandRun \/ Respawns
KidStep(c) ==
  \/ Spawns(c) \/ SeesEnd(c) \/ Unlinks(c) \/ Listens(c) \/ Fails(c) \/ Stats(c)
  \/ Names(c) \/ Leaves(c)

Next ==
  \/ ModuleStep \/ ChangesId
  \/ \E c \in DOMAIN kids : KidStep(c) \/ Dies(c)
  \/ DaemonStops \/ DaemonStarts

Spec == Init /\ [][Next]_vars

(* The module's calls return, its timers fire and a process goes on; a     *)
(* daemon is brought up again (sidecar begin, any client).                 *)
FairSpec ==
  /\ Spec
  /\ WF_vars(ModuleStep) /\ WF_vars(DaemonStarts)
  /\ WF_vars(\E c \in DOMAIN kids : KidStep(c))

-----------------------------------------------------------------------------
(* Properties.                                                             *)

(* The sidecars that run or are about to.                                  *)
Live == {c \in DOMAIN kids : kids[c].proc \in Living \cup {"argv"}}

(* "Keep one sidecar, bound under the session's current id"                *)
(* (replaceSidecar): a sidecar is started only when the one before it has  *)
(* ended, whether it died, is replaced or waits for its respawn; each two  *)
(* starts that meet cost one sidecar too many, and no more than that.      *)
OneSidecar == Cardinality(Live) <= 1 + met

(* A request for the session gets to the module: a sidecar that is read    *)
(* holds the socket of the session's id and is named to the daemon.        *)
Served ==
  \E c \in named : /\ kids[c].sid = id /\ kids[c].read
                   /\ sock[id] = c

(* Whatever dies, is cleared or restarts on the way, the session is served *)
(* in the end: no death goes unanswered, and no sidecar that leaves late   *)
(* takes its successor's socket with it. Two sidecars that starts which    *)
(* met have run take the path from each other.                             *)
ServedInTheEnd == <>[](Served \/ met > 0)
=============================================================================
