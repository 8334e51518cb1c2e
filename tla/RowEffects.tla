------------------------------- MODULE RowEffects -------------------------------
(***************************************************************************)
(* The rows of a conversation on their way from the hooks module to what    *)
(* the daemon does on them: the queue that pushes them                      *)
(* (hooks/transcript-push.ts), the handler of the push                      *)
(* (packages/daemon/src/server.ts, transcript_push), the says it speaks     *)
(* (packages/daemon/src/row-effects.ts), and the reading of the transcript  *)
(* it moves on (TranscriptRelay).                                           *)
(*                                                                          *)
(* Each row is a say, and stands for its own tool_use id. A row has its     *)
(* line written some time after it went in.                                 *)
(***************************************************************************)
EXTENDS TranscriptRelay

CONSTANTS
  SideRows,  (* the rows with no line in the session's file: a subagent's *)
  Budgets    (* bound: how often each of Kinds happens, in each scenario  *)

Kinds == {"again", "late", "throw", "down", "refresh", "restart", "refold", "tab",
          "fail", "rewrite", "move"}
ConvRows == Rows \cup SideRows

ASSUME SideAssumption == SideRows \cap Rows = {} /\ None \notin ConvRows
ASSUME BudgetAssumption == Budgets \subseteq [Kinds -> Nat]

VARIABLES
  went,      (* the rows that went into the conversation                   *)
  unpushed,  (* the rows not pushed yet, oldest first                      *)
  out,       (* the push that is out, or None                              *)
  late,      (* a push given up on that still arrives, or None             *)
  done,      (* the tool_use ids acted on, of this session                 *)
  left,      (* what is left of the budget                                 *)
  spoken,    (* for the properties: how often each say was spoken,         *)
  heard,     (* those spoken since the session was last made live,         *)
  taken,     (* the rows the daemon was pushed,                            *)
  missed     (* and those of a push that failed or was given up            *)

moduleVars == <<went, unpushed, out, late>>
pastVars == <<spoken, heard, taken, missed>>
effectVars == <<moduleVars, done, left, pastVars>>
relayVars == vars
allVars == <<relayVars, effectVars>>

(* A push: asked until the daemon takes it or it fails, then answered.     *)
PushOut == [rows: Seq(ConvRows), at: {"asked", "answered"}]
ASSUME PushAssumption == None \notin PushOut /\ None \notin Seq(ConvRows)

EffectsTypeOK ==
  /\ TypeOK
  /\ went \subseteq ConvRows
  /\ unpushed \in Seq(ConvRows) /\ (unpushed # <<>> => out # None)
  /\ out \in PushOut \cup {None} /\ (out # None => out.rows # <<>>)
  /\ late \in Seq(ConvRows) \cup {None}
  /\ done \subseteq went /\ heard \subseteq went
  /\ left \in [Kinds -> Nat]
  /\ spoken \in [ConvRows -> Nat]
  /\ taken \subseteq went /\ missed \subseteq went

(* The session has said hello by the time a row goes in.                   *)
EffectsInit ==
  /\ files = [p \in Paths |-> None] /\ made = 0 /\ written = 0
  /\ cur = (CHOOSE p \in Paths : TRUE) /\ named = cur
  /\ relay = None /\ gens = 0 /\ scans = {}
  /\ went = {} /\ unpushed = <<>> /\ out = None /\ late = None
  /\ done = {} /\ left \in Budgets
  /\ spoken = [u \in ConvRows |-> 0] /\ heard = {} /\ taken = {} /\ missed = {}

Spend(kind) == left[kind] > 0 /\ left' = [left EXCEPT ![kind] = @ - 1]
IsLive(r) == r # None /\ r.live

-----------------------------------------------------------------------------
(* The hooks module's queue.                                               *)

Asked(rows) == [rows |-> rows, at |-> "asked"]

(* Mutated form: a row starts a push though one is out. *)
RowAppended_Always(row) ==
  IF out = None THEN out' = Asked(<<row>>) /\ UNCHANGED <<unpushed, late>>
  ELSE late = None /\ late' = out.rows /\ out' = Asked(<<row>>) /\ UNCHANGED unpushed

(* rowAppended: the row is pushed, or taken by the push that follows the   *)
(* one that is out.                                                        *)
RowAppended(row) ==
  IF out = None THEN out' = Asked(<<row>>) /\ UNCHANGED <<unpushed, late>>
  ELSE unpushed' = Append(unpushed, row) /\ UNCHANGED <<out, late>>

(* A row goes in, a row of the main thread in its order.                   *)
GoesIn ==
  /\ \E row \in ConvRows \ went :
       /\ row \in Rows => \A before \in Rows : before < row => before \in went
       /\ went' = went \cup {row}
       /\ RowAppended(row)
  /\ UNCHANGED <<relayVars, done, left, pastVars>>

(* A compaction: a row it keeps is appended again under its uuid.          *)
GoesInAgain ==
  /\ Spend("again")
  /\ \E row \in went \cap Rows : RowAppended(row)
  /\ UNCHANGED <<relayVars, went, done, pastVars>>

(* Mutated form: what came meanwhile is left for the next row. *)
NextPush_Once == out' = None /\ UNCHANGED unpushed

(* pushAll goes on with what came meanwhile, until nothing did.            *)
NextPush ==
  IF unpushed = <<>> THEN out' = None /\ UNCHANGED unpushed
  ELSE out' = Asked(unpushed) /\ unpushed' = <<>>

(* The daemon's reply is in.                                               *)
PushAnswered ==
  /\ out # None /\ out.at = "answered"
  /\ NextPush
  /\ UNCHANGED <<relayVars, went, late, done, left, pastVars>>

(* No daemon takes the request, or the host gives up on the fetch. What    *)
(* went out may still arrive.                                              *)
PushGivenUp ==
  /\ Spend("late")
  /\ out # None /\ out.at = "asked"
  /\ NextPush
  /\ IF late = None THEN late' \in {None, out.rows} ELSE UNCHANGED late
  /\ missed' = missed \cup ToSet(out.rows)
  /\ UNCHANGED <<relayVars, went, done, spoken, heard, taken>>

(* Mutated form: the rows that came meanwhile stay. *)
PushThrows_Left ==
  /\ Spend("throw")
  /\ out # None /\ out.at = "asked"
  /\ out' = None
  /\ missed' = missed \cup ToSet(out.rows)
  /\ UNCHANGED <<relayVars, went, unpushed, late, done, spoken, heard, taken>>

(* daemonOp rejects, the engine having refused what the hello is read      *)
(* from: the rows that came meanwhile are dropped too.                     *)
PushThrows ==
  /\ Spend("throw")
  /\ out # None /\ out.at = "asked"
  /\ out' = None /\ unpushed' = <<>>
  /\ missed' = missed \cup ToSet(out.rows) \cup ToSet(unpushed)
  /\ UNCHANGED <<relayVars, went, late, done, spoken, heard, taken>>

-----------------------------------------------------------------------------
(* The daemon: the handler of transcript_push.                             *)

(* Mutated form: rows read off the file are acted on again. *)
Fresh_All(rows) == rows

(* Those not read off the file yet (relayHasRead), asked before the read.  *)
Fresh(rows) == IF relay = None THEN rows ELSE rows \ relay.read

(* Mutated form: the ids are not kept. *)
ActOnPushedRows_Forgets(fresh) ==
  LET new == fresh \ done
  IN  /\ UNCHANGED done
      /\ spoken' = [u \in ConvRows |-> spoken[u] + (IF u \in new THEN 1 ELSE 0)]
      /\ heard' = IF IsLive(relay) THEN heard \cup new ELSE heard

ActOnPushedRows(fresh) ==
  LET new == fresh \ done
  IN  /\ done' = done \cup new
      /\ spoken' = [u \in ConvRows |-> spoken[u] + (IF u \in new THEN 1 ELSE 0)]
      /\ heard' = IF IsLive(relay) THEN heard \cup new ELSE heard

(* The says are spoken, then the file is read on for the main thread's     *)
(* rows (relayPushed).                                                     *)
TakePush(rows) ==
  /\ ActOnPushedRows(Fresh(rows))
  /\ IF relay = None \/ rows \cap Rows = {} THEN UNCHANGED relayVars
     ELSE Push(rows \cap Rows)
  /\ taken' = taken \cup rows
  /\ UNCHANGED <<went, unpushed, left, missed>>

Take ==
  /\ out # None /\ out.at = "asked"
  /\ TakePush(ToSet(out.rows))
  /\ out' = [out EXCEPT !.at = "answered"]
  /\ UNCHANGED late

TakeLate ==
  /\ late # None
  /\ TakePush(ToSet(late))
  /\ late' = None
  /\ UNCHANGED out

-----------------------------------------------------------------------------
(* The daemon: the session live or not (refreshReadiness), a restart, and  *)
(* the relay's own steps.                                                  *)

(* keepRowEffectsOf: the ids of a session that is not live go.             *)
KeepRowEffectsOf(live) == done' = IF live THEN done ELSE {}

MadeLive ==
  /\ GoesLive
  /\ KeepRowEffectsOf(TRUE)
  /\ heard' = {}
  /\ UNCHANGED <<moduleVars, left, spoken, taken, missed>>

MadeDown ==
  /\ Spend("down")
  /\ GoesDown
  /\ KeepRowEffectsOf(FALSE)
  /\ UNCHANGED <<moduleVars, pastVars>>

(* Another session's run was named or went.                                *)
Refreshed ==
  /\ Spend("refresh")
  /\ KeepRowEffectsOf(IsLive(relay))
  /\ UNCHANGED <<relayVars, moduleVars, pastVars>>

(* The daemon ends with what it was sent, and another begins.              *)
Restarted ==
  /\ Spend("restart")
  /\ relay' = None /\ scans' = {} /\ done' = {}
  /\ late' = None
  /\ out' = IF out # None /\ out.at = "asked" THEN [out EXCEPT !.at = "answered"] ELSE out
  /\ missed' = missed \cup (IF out # None /\ out.at = "asked" THEN ToSet(out.rows) ELSE {})
                      \cup (IF late # None THEN ToSet(late) ELSE {})
  /\ UNCHANGED <<worldVars, named, gens, went, unpushed, spoken, heard, taken>>

(* A row's line is written, whole, once the row went in.                   *)
LineWritten ==
  /\ written + 1 \in went
  /\ WriteLine
  /\ ~files'[cur].torn

(* A hello names the transcript the session writes to by then.              *)
RelayStep ==
  /\ LineWritten \/ Tick \/ GiveUp \/ ScanStep \/ Hello
  /\ UNCHANGED effectVars

(* The read of a catch-up throws with lines still to come.                 *)
CatchUpFails ==
  /\ Spend("fail")
  /\ \E s \in scans : ScanFails(s)
  /\ UNCHANGED <<moduleVars, done, pastVars>>

(* The file is replaced or goes, or the session writes to another one.     *)
FileStep ==
  /\ \/ Spend("rewrite") /\ Rewrite
     \/ Spend("move") /\ Moves
  /\ UNCHANGED <<moduleVars, done, pastVars>>

TabStep ==
  /\ Spend("tab")
  /\ Subscribe \/ Unsubscribe
  /\ UNCHANGED <<moduleVars, done, pastVars>>

Refolded ==
  /\ Spend("refold")
  /\ Refold
  /\ UNCHANGED <<moduleVars, done, pastVars>>

DaemonStep == Take \/ TakeLate

EffectsNext ==
  \/ GoesIn \/ GoesInAgain \/ PushAnswered \/ PushGivenUp \/ PushThrows
  \/ DaemonStep \/ MadeLive \/ MadeDown \/ Refreshed \/ Restarted
  \/ RelayStep \/ CatchUpFails \/ FileStep \/ TabStep \/ Refolded

EffectsSpec == EffectsInit /\ [][EffectsNext]_allVars

(* The module's code runs, and a push that is out is taken, or given up by *)
(* the host.                                                               *)
FairEffectsSpec ==
  EffectsSpec /\ WF_allVars(PushAnswered) /\ WF_allVars(Take \/ PushGivenUp)

-----------------------------------------------------------------------------
(* Properties.                                                             *)

(* One push is out at a time: the daemon is pushed a row of the main       *)
(* thread after every row that went in before it, but for those of a push  *)
(* that failed, whatever comes meanwhile (pushAll).                        *)
TakenInOrder ==
  [][\A u \in Rows : u \in taken' \ taken =>
       \A before \in Rows : before < u => before \in taken' \cup missed']_allVars

(* No say is spoken twice while its session stays live, whatever a         *)
(* compaction pushes again, and none whose line the live session's reading *)
(* has gone past, unless the read of its catch-up threw: what that read    *)
(* left behind does not count as read (actOnPushedRows, startCatchUp).     *)
SpokenOnce ==
  [][\A u \in ConvRows :
       IsLive(relay) /\ spoken'[u] > spoken[u] =>
         /\ u \notin heard
         /\ OnFile /\ ~relay.catchUp /\ ~relay.partial =>
              u \notin ToSet(SubSeq(FileOf(relay).lines, 1, relay.end \div 2))]_allVars

(* What waits for a push goes out, and the queue comes to rest (pushAll).  *)
QueueDrains == unpushed # <<>> ~> unpushed = <<>>
=============================================================================
