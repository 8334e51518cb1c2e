----------------------------- MODULE SidecarRuns -----------------------------
(***************************************************************************)
(* The daemon's register of the live runs of each session                  *)
(* (packages/daemon/src/sidecar-runs.ts), together with what drives it: the *)
(* connections on which sidecars name runs (sidecar_hello), their closing,  *)
(* and the rounds of the agents poll that tie a run to its harness process  *)
(* and drop the runs whose harness is gone.                                 *)
(*                                                                          *)
(* The environment is the harness processes: each serves one session at a   *)
(* time, records it in its state file sessions/<pid>.json some time later,  *)
(* may move to another session (/clear, /resume) and may exit, leaving its  *)
(* sidecar connected.                                                       *)
(***************************************************************************)
EXTENDS Integers, FiniteSets

CONSTANTS
  Sids,       (* session ids                                               *)
  RunIds,     (* one per load of a hooks module                            *)
  Pids,       (* harness processes; a pid is not used twice                *)
  Dirs,       (* Claude Code config dirs                                   *)
  Owners,     (* connections to the daemon                                 *)
  Harness,    (* the process each module was loaded in                     *)
  DirOf,      (* the config dir each process runs with                     *)
  NamesDir,   (* the runs that name their config dir in the hello          *)
  StartedAt,  (* when each run and each process started                    *)
  None,
  MayServe,   (* bound: the sessions each process may come to serve        *)
  MaxClock    (* bound: the clock stops here                               *)

Keys == Sids \X RunIds
Held == [owner: Owners, pid: Pids \cup {None}, namedAt: Nat]
Served == [sids: (SUBSET Sids) \ {{}}, leftAt: Nat \cup {None}]
Row == [pid: Pids, sid: Sids]
Round == [began: Nat, agents: SUBSET Row, answered: SUBSET Dirs, cached: BOOLEAN]

ASSUME HarnessAssumption ==
  /\ Harness \in [RunIds -> Pids]
  /\ DirOf \in [Pids -> Dirs]
  /\ NamesDir \subseteq RunIds
  /\ StartedAt \in [RunIds \cup Pids -> Nat]
  /\ MayServe \in [Pids -> SUBSET Sids]
  /\ MaxClock \in Nat
ASSUME NoneAssumption ==
  /\ None \notin Pids /\ None \notin Sids /\ None \notin Keys
  /\ None \notin Nat /\ None \notin Held /\ None \notin Served /\ None \notin Round

VARIABLES
  runs,          (* #runs: the run each key holds, or None                 *)
  byOwner,       (* #byOwner: the key each connection named, or None       *)
  served,        (* #served: what each run id has served, or None          *)
  rows,          (* agentsPoller.cache: the pids with their session        *)
  agentsRoundAt, (* daemon.agentsRoundAt                                   *)
  round,         (* the round of the agents poll in flight                 *)
  clock,         (* Date.now()                                             *)
  sidOf,         (* the session each process serves; None: not started     *)
  dead,          (* the processes that exited                              *)
  file,          (* the session each process's state file names            *)
  launched,      (* the keys a module ever started a sidecar for           *)
  steady         (* history: the named runs whose state file has named     *)
                 (* their session ever since they were named               *)

daemonVars == <<runs, byOwner, served>>
pollVars == <<rows, agentsRoundAt, round>>
worldVars == <<sidOf, dead, file, launched>>
vars == <<runs, byOwner, served, rows, agentsRoundAt, round, clock,
          sidOf, dead, file, launched, steady>>


TypeOK ==
  /\ runs \in [Keys -> Held \cup {None}]
  /\ byOwner \in [Owners -> Keys \cup {None}]
  /\ served \in [RunIds -> Served \cup {None}]
  /\ rows \in SUBSET Row
  /\ agentsRoundAt \in Nat
  /\ round \in Round \cup {None}
  /\ clock \in Nat
  /\ sidOf \in [Pids -> Sids \cup {None}]
  /\ dead \in SUBSET Pids
  /\ file \in [Pids -> Sids \cup {None}]
  /\ launched \in SUBSET Keys
  /\ steady \in SUBSET Keys

Init ==
  /\ runs = [k \in Keys |-> None]
  /\ byOwner = [o \in Owners |-> None]
  /\ served = [r \in RunIds |-> None]
  /\ rows = {}
  /\ agentsRoundAt = 0
  /\ round = None
  /\ clock = 0
  /\ sidOf = [p \in Pids |-> None]
  /\ dead = {}
  /\ file = [p \in Pids |-> None]
  /\ launched = {}
  /\ steady = {}

-----------------------------------------------------------------------------
(* What the register answers.                                              *)

Named(k) == runs[k] # None
NamedKeys == {k \in Keys : Named(k)}

(* deps.isAlive(run.pid), which an untied run passes.                      *)
RunAlive(k) == runs[k].pid \notin dead

(* liveOf: the runs user_prompt asks, in the order of StartedAt.           *)
LiveOf(s) == {k \in NamedKeys : k[1] = s /\ RunAlive(k)}

(* The runs named under another id that once served s.                     *)
MovedRuns(s) ==
  {k \in NamedKeys : /\ k[1] # s
                     /\ RunAlive(k)
                     /\ served[k[2]] # None
                     /\ s \in served[k[2]].sids}

(* movedOn: the session has no live run, and a run that once served it is  *)
(* live under another id.                                                  *)
MovedOn(s) == LiveOf(s) = {} /\ MovedRuns(s) # {}

Distance(a, b) == IF a < b THEN b - a ELSE a - b

(* #pidAmong: the processes nearest to run k's start among the rows of its *)
(* session and config dir that are not taken; None when there is no such   *)
(* row. Rows equally near are told apart by their order in the poll, which *)
(* is left open.                                                           *)
Candidates(k, agents, taken) ==
  {row.pid : row \in {a \in agents :
                        /\ a.sid = k[1]
                        /\ k[2] \in NamesDir => DirOf[a.pid] = DirOf[Harness[k[2]]]
                        /\ a.pid \notin taken}}

PidAmong(k, agents, taken) ==
  LET cands == Candidates(k, agents, taken)
  IN  IF cands = {} THEN {None}
      ELSE {p \in cands : \A q \in cands :
              Distance(StartedAt[p], StartedAt[k[2]])
                <= Distance(StartedAt[q], StartedAt[k[2]])}

(* The other named runs of k's session: they hold the pids k cannot take.  *)
Rivals(k) == {l \in NamedKeys : l[1] = k[1] /\ l[2] # k[2]}

-----------------------------------------------------------------------------
(* The register's own steps, shared by the operations below.               *)

(* #drop for every key of gone: the runs left in the map are after.        *)
ServedAfterDrop(gone, after) ==
  [r \in RunIds |->
     IF /\ served[r] # None
        /\ \E k \in gone : k[2] = r
        /\ \A s \in Sids : after[<<s, r>>] = None
     THEN [served[r] EXCEPT !.leftAt = clock]
     ELSE served[r]]

(* leave(owner): what the register holds after it. A connection whose run  *)
(* a newer one took over names nothing any more.                          *)
KeyLeft(o) ==
  IF byOwner[o] # None /\ runs[byOwner[o]] # None /\ runs[byOwner[o]].owner = o
  THEN {byOwner[o]} ELSE {}
RunsAfterLeave(o) == [k \in Keys |-> IF k \in KeyLeft(o) THEN None ELSE runs[k]]
ServedAfterLeave(o) == ServedAfterDrop(KeyLeft(o), RunsAfterLeave(o))

(* The filed runs: the harness is alive and its state file names k's       *)
(* session.                                                                *)
Filed(k, filed, gone) == Harness[k[2]] \notin gone /\ filed[Harness[k[2]]] = k[1]
StillSteady(filed, gone) == {k \in steady : Filed(k, filed, gone)}

-----------------------------------------------------------------------------
(* Mutated form: what the run id served before is not kept. *)
ServedNamed_Anew(k, before) ==
  [before EXCEPT ![k[2]] = [sids |-> {k[1]}, leftAt |-> None]]

(* announce: the run id serves k's session now, and has a sidecar named.   *)
ServedNamed(k, before) ==
  [before EXCEPT ![k[2]] =
     [sids |-> (IF @ = None THEN {} ELSE @.sids) \cup {k[1]}, leftAt |-> None]]

(* Mutated form: the older connection keeps its name. *)
OwnersAfterAnnounce_OldKept(o, k, left) == [byOwner EXCEPT ![o] = k]

(* The connection names k alone; the one that named k names nothing.       *)
OwnersAfterAnnounce(o, k, left) ==
  [x \in Owners |->
     IF x = o THEN k
     ELSE IF left[k] # None /\ left[k].owner = x THEN None
     ELSE byOwner[x]]

(* Mutated form: the pids other runs hold are not left out. *)
TakenAtAnnounce_None(k, left) == {}

(* The pids that the other runs of k's session hold.                       *)
TakenAtAnnounce(k, left) ==
  {left[l].pid : l \in {x \in Keys : left[x] # None /\ x[1] = k[1] /\ x[2] # k[2]}}

(* sidecar_hello: announce on connection o, with the rows the poll cached. *)
(* A sidecar connects again on its own whenever its connection was lost,   *)
(* whether or not its harness still runs.                                  *)
Announce(o, k) ==
  /\ k \in launched
  /\ byOwner[o] # None => byOwner[o][1] = k[1]
  /\ LET left == RunsAfterLeave(o)
     IN  /\ \E pid \in PidAmong(k, rows, TakenAtAnnounce(k, left)) :
              runs' = [left EXCEPT ![k] = [owner |-> o, pid |-> pid, namedAt |-> clock]]
         /\ byOwner' = OwnersAfterAnnounce(o, k, left)
         /\ served' = ServedNamed(k, ServedAfterLeave(o))
  /\ steady' = ((steady \ KeyLeft(o)) \ {k}) \cup {x \in {k} : Filed(x, file, dead)}
  /\ UNCHANGED <<pollVars, clock, worldVars>>

(* removeConn: the connection closes, from either end.                     *)
Leave(o) ==
  /\ byOwner[o] # None
  /\ runs' = RunsAfterLeave(o)
  /\ byOwner' = [byOwner EXCEPT ![o] = None]
  /\ served' = ServedAfterLeave(o)
  /\ steady' = steady \ KeyLeft(o)
  /\ UNCHANGED <<pollVars, clock, worldVars>>

-----------------------------------------------------------------------------
(* The agents poll: one round at a time.                                   *)

(* A round reads the state files. The dirs that could be read whole answer *)
(* it; each lists the processes that run and have a state file. What is    *)
(* read is some time old when the round's callback runs.                   *)
RoundRead ==
  /\ round = None
  /\ \E answered \in SUBSET Dirs :
       round' = [began |-> clock,
                 answered |-> answered,
                 cached |-> FALSE,
                 agents |-> {a \in Row : /\ a.pid \notin dead
                                         /\ file[a.pid] = a.sid
                                         /\ DirOf[a.pid] \in answered}]
  /\ UNCHANGED <<daemonVars, rows, agentsRoundAt, clock, worldVars, steady>>

(* The rows are cached once the registry took them; reconcile comes after    *)
(* one more await.                                                         *)
RoundCached ==
  /\ round # None /\ ~round.cached
  /\ rows' = round.agents
  /\ round' = [round EXCEPT !.cached = TRUE]
  /\ UNCHANGED <<daemonVars, agentsRoundAt, clock, worldVars, steady>>

(* reconcile(round, begunAt). It visits the runs in one order (the map's,  *)
(* left open here): a run tied to a process goes when the process is dead, *)
(* an untied one takes the nearest row that is still free, or goes when a  *)
(* round begun after it was named should have listed it and did not.       *)
Tied(k) == runs[k].pid # None
HarnessGone(k) == Tied(k) /\ ~RunAlive(k)

Untied == {k \in NamedKeys : ~Tied(k)}

(* The pids other runs of k's session hold when the loop comes to k.       *)
TakenAt(k, order, tie) ==
  {IF Tied(l) THEN runs[l].pid ELSE tie[l] :
     l \in {x \in Rivals(k) :
              IF Tied(x) THEN ~(HarnessGone(x) /\ order[x] < order[k])
                         ELSE order[x] < order[k]}}

Listed(k) ==
  \E a \in round.agents :
    /\ a.sid = k[1]
    /\ k[2] \in NamesDir => DirOf[a.pid] = DirOf[Harness[k[2]]]

DirAnswered(k) ==
  IF k[2] \in NamesDir THEN DirOf[Harness[k[2]]] \in round.answered
                       ELSE round.answered # {}

(* Mutated form: a round under way when the run was named counts. *)
Unlisted_AnyRound(k, begunAt) == DirAnswered(k) /\ ~Listed(k)

Unlisted(k, begunAt) == runs[k].namedAt < begunAt /\ DirAnswered(k) /\ ~Listed(k)

Dropped(tie, begunAt) ==
  {k \in NamedKeys : \/ HarnessGone(k)
                     \/ ~Tied(k) /\ tie[k] = None /\ Unlisted(k, begunAt)}

RunsAfterReconcile(tie, gone) ==
  [k \in Keys |-> IF k \in gone THEN None
                  ELSE IF k \in Untied THEN [runs[k] EXCEPT !.pid = tie[k]]
                  ELSE runs[k]]

(* Served runs unnamed since before begunAt are forgotten. *)
ServedAfterReconcile(before, begunAt) ==
  [r \in RunIds |->
     IF before[r] # None /\ before[r].leftAt # None /\ before[r].leftAt < begunAt
     THEN None ELSE before[r]]

(* Mutated form: the time of the callback is taken for the round's start. *)
BegunAfter_Now == clock

(* The round a run or a served id is held against began no earlier than    *)
(* the callback of the round before it.                                    *)
BegunAfter == agentsRoundAt

RoundEnd ==
  /\ round # None /\ round.cached
  /\ \E order \in [NamedKeys -> 1..Cardinality(NamedKeys)],
        tie \in [Untied -> Pids \cup {None}] :
       /\ \A k, l \in NamedKeys : k # l => order[k] # order[l]
       /\ \A k \in Untied : tie[k] \in PidAmong(k, round.agents, TakenAt(k, order, tie))
       /\ LET gone == Dropped(tie, BegunAfter)
          IN  /\ runs' = RunsAfterReconcile(tie, gone)
              /\ byOwner' = [o \in Owners |-> IF byOwner[o] \in gone THEN None
                                              ELSE byOwner[o]]
              /\ served' = ServedAfterReconcile(
                             ServedAfterDrop(gone, RunsAfterReconcile(tie, gone)),
                             BegunAfter)
  /\ agentsRoundAt' = clock
  /\ round' = None
  /\ UNCHANGED <<rows, clock, worldVars, steady>>

-----------------------------------------------------------------------------
(* The harness processes and time.                                         *)

(* A process starts on a session, or moves to another (/clear, /resume);   *)
(* its module starts a sidecar for the session it now serves.              *)
Serve(p, s) ==
  /\ p \notin dead
  /\ s \in MayServe[p]
  /\ sidOf[p] # s
  /\ sidOf' = [sidOf EXCEPT ![p] = s]
  /\ launched' = launched \cup {k \in Keys : k[1] = s /\ Harness[k[2]] = p}
  /\ UNCHANGED <<daemonVars, pollVars, clock, dead, file, steady>>

(* Claude Code writes the session the process serves to its state file.    *)
WriteFile(p) ==
  /\ p \notin dead
  /\ file[p] # sidOf[p]
  /\ file' = [file EXCEPT ![p] = sidOf[p]]
  /\ steady' = StillSteady(file', dead)
  /\ UNCHANGED <<daemonVars, pollVars, clock, sidOf, dead, launched>>

Exit(p) ==
  /\ p \notin dead
  /\ sidOf[p] # None
  /\ dead' = dead \cup {p}
  /\ sidOf' = [sidOf EXCEPT ![p] = None]
  /\ file' = [file EXCEPT ![p] = None]
  /\ steady' = StillSteady(file', dead')
  /\ UNCHANGED <<daemonVars, pollVars, clock, launched>>

Tick ==
  /\ clock < MaxClock
  /\ clock' = clock + 1
  /\ UNCHANGED <<daemonVars, pollVars, worldVars, steady>>

Next ==
  \/ \E o \in Owners, k \in Keys : Announce(o, k)
  \/ \E o \in Owners : Leave(o)
  \/ RoundRead
  \/ RoundCached
  \/ RoundEnd
  \/ \E p \in Pids, s \in Sids : Serve(p, s)
  \/ \E p \in Pids : WriteFile(p)
  \/ \E p \in Pids : Exit(p)
  \/ Tick

Spec == Init /\ [][Next]_vars

-----------------------------------------------------------------------------
(* Properties.                                                             *)

(* The two maps name each other: a run is held by exactly the connection   *)
(* that names it. A takeover by a newer connection, the late close of the  *)
(* older one and a drop by the poll all keep it (announce, leave,          *)
(* reconcile).                                                             *)
OwnersAgree ==
  /\ \A k \in Keys : runs[k] # None => byOwner[runs[k].owner] = k
  /\ \A o \in Owners : byOwner[o] # None =>
       /\ runs[byOwner[o]] # None
       /\ runs[byOwner[o]].owner = o

(* What movedOn reads is in step with the register: a named run is served, *)
(* with its session and no leftAt; a run id with no sidecar named has one. *)
ServedAgree ==
  /\ \A k \in NamedKeys : /\ served[k[2]] # None
                          /\ k[1] \in served[k[2]].sids
                          /\ served[k[2]].leftAt = None
  /\ \A r \in RunIds :
       served[r] # None /\ (\A s \in Sids : runs[<<s, r>>] = None)
         => served[r].leftAt # None

(* A run id is said to have served only what its module was started for.   *)
ServedWasLaunched ==
  \A r \in RunIds : served[r] # None =>
    \A s \in served[r].sids : <<s, r>> \in launched

RegistryAgrees == OwnersAgree /\ ServedAgree /\ ServedWasLaunched

(* No two runs of a session are tied to one process (#pidAmong), however   *)
(* announces and rounds interleave.                                        *)
PidsApart ==
  \A k, l \in NamedKeys :
    k # l /\ k[1] = l[1] /\ runs[k].pid = runs[l].pid => runs[k].pid = None

(* Once user_prompt is told that a session changed its id (movedOn) it is  *)
(* not told that the session has no module, as long as a run that served   *)
(* the session is named and not known dead under any other id: sidecars    *)
(* started again, moves there and back and rounds in between keep the      *)
(* answer. It goes by names: whether the module that holds one still       *)
(* serves the id it names is not known to the daemon.                      *)
MovedOnStays ==
  [][\A s \in Sids :
       MovedOn(s) =>
         \/ MovedOn(s)'
         \/ LiveOf(s)' # {}
         \/ \A k \in MovedRuns(s), t \in Sids \ {s} :
              ~(Named(<<t, k[2]>>) /\ RunAlive(<<t, k[2]>>))']_vars

(* A poll does not lose a run that names its config dir, whose process     *)
(* runs and whose state file has named its session since the run was       *)
(* named, as long as the run is not tied to another process: a round that  *)
(* had begun before the run was named, or whose dir did not answer, says   *)
(* nothing of it. A run that names no dir (its session has no              *)
(* CLAUDE_CONFIG_DIR) may go when only another dir answered.               *)
SteadyRunKept ==
  [][\A k \in steady \cap steady' :
       /\ Named(k)
       /\ k[2] \in NamesDir
       /\ runs[k].pid \in {None, Harness[k[2]]}
       => Named(k)']_vars

(* What a run once served is forgotten only when its last sidecar left     *)
(* before the round that ends now began: a sidecar started again within a  *)
(* round is still known to have served the old id.                         *)
RememberedThroughARound ==
  [][\A r \in RunIds :
       served[r] # None /\ served'[r] = None
         => served[r].leftAt # None /\ served[r].leftAt < round.began]_vars
=============================================================================
