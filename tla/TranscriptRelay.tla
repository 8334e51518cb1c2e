---------------------------- MODULE TranscriptRelay ----------------------------
(***************************************************************************)
(* The daemon's one reading of a session's jsonl                            *)
(* (packages/daemon/src/transcript-relay.ts): read on when the session's    *)
(* module pushes rows, read again while a pushed row's line is not written, *)
(* caught up from the first byte when the session becomes live, its file is *)
(* replaced or its folds must be made again. The lines go to the daemon's   *)
(* folds and to the tabs that follow the Timeline.                          *)
(*                                                                          *)
(* Rows are numbered in the order they are written. A file of n lines is 2n *)
(* long, and one longer while the line after them is half written. The      *)
(* folds are all handed the same lines: one sequence stands for them.       *)
(***************************************************************************)
EXTENDS Integers, Sequences, SequencesExt

CONSTANTS
  MaxRows,   (* bound: the rows the session writes                         *)
  Paths,     (* the transcripts the session may name                       *)
  None,
  Faults,    (* what goes wrong below: "read" and "scan" are reads that    *)
             (* throw, "cut" a reading that starts in a half-written line  *)
  MaxFiles,  (* bound: how many files are made                             *)
  MaxGens    (* bound: from so many catch-ups on, none is asked for        *)

Rows == 1..MaxRows

ASSUME RelayAssumption ==
  /\ Paths # {}
  /\ MaxRows \in Nat /\ MaxFiles \in Nat /\ MaxGens \in Nat
  /\ Faults \subseteq {"read", "scan", "cut"}

VARIABLES
  files,    (* the file at each path, or None                              *)
  made,     (* how many files were made: their identities                  *)
  written,  (* the rows written so far                                     *)
  cur,      (* the path the session writes to                              *)
  named,    (* the transcript the session named in its hello, or None      *)
  relay,    (* the session's relay, or None                                *)
  gens,     (* the catch-ups started                                       *)
  scans     (* the catch-up reads in flight, superseded ones too           *)

worldVars == <<files, made, written, cur>>
readVars == <<relay, gens, scans>>
vars == <<worldVars, named, readVars>>

(* What is read of a line: its row, or the rest of a row's line.           *)
RestOf(row) == 0 - row
Read == Rows \cup {RestOf(row) : row \in Rows}

File == [id: 1..MaxFiles, lines: Seq(Rows), torn: BOOLEAN]
(* A relay. retry is the wait under way, told by the rows that waited when *)
(* it began, or None. Kept for the properties: misread, the last reading   *)
(* threw; partial, the catch-up its folds come from did.                   *)
Tab == [base: Nat, got: Seq(Read)]
Relay == [file: Paths \cup {None}, end: Nat, seen: 1..MaxFiles \cup {None},
          live: BOOLEAN, fold: Seq(Read), read: SUBSET Rows, waiting: SUBSET Rows,
          retry: (SUBSET Rows) \cup {None}, catchUp: BOOLEAN, gen: Nat,
          tab: Tab \cup {None}, misread: BOOLEAN, partial: BOOLEAN]
ASSUME NoneAssumption ==
  /\ None \notin Paths /\ None \notin Nat /\ None \notin Seq(Rows)
  /\ None \notin File /\ None \notin Tab /\ None \notin Relay

Scan == [gen: Nat, path: Paths, end: Nat, left: Seq(Rows) \cup {None}]

TypeOK ==
  /\ files \in [Paths -> File \cup {None}]
  /\ made \in 0..MaxFiles /\ written \in 0..MaxRows
  /\ cur \in Paths /\ named \in Paths \cup {None}
  /\ relay \in Relay \cup {None}
  /\ gens \in Nat
  /\ scans \subseteq Scan
  /\ relay # None => /\ relay.live \/ relay.tab # None
                     /\ relay.catchUp => relay.live /\ relay.retry = None
                     /\ relay.retry # None => relay.waiting # {}

Init ==
  /\ files = [p \in Paths |-> None] /\ made = 0 /\ written = 0
  /\ cur = (CHOOSE p \in Paths : TRUE) /\ named = None
  /\ relay = None /\ gens = 0 /\ scans = {}

-----------------------------------------------------------------------------
(* The file.                                                               *)

Size(f) == IF f = None THEN 0 ELSE 2 * Len(f.lines) + (IF f.torn THEN 1 ELSE 0)
IdOf(f) == IF f = None THEN None ELSE f.id
FileOf(r) == IF r.file = None THEN None ELSE files[r.file]

(* readCompleteLines: the complete lines from an offset on. From within a  *)
(* line, the first is the rest of that line, which has the row's uuid.     *)
LinesFrom(f, from) ==
  LET whole == SubSeq(f.lines, from \div 2 + 1, Len(f.lines))
  IN  IF from % 2 = 1 /\ whole # <<>> THEN [whole EXCEPT ![1] = RestOf(@)] ELSE whole

(* scanTranscriptLines: the complete lines up to an offset.                *)
LinesUpTo(f, end) ==
  IF f = None THEN <<>> ELSE SubSeq(f.lines, 1, Min({end \div 2, Len(f.lines)}))

Uuids(lines) == {IF x < 0 THEN RestOf(x) ELSE x : x \in ToSet(lines)}

-----------------------------------------------------------------------------
(* The relay's own steps. Each takes the relay as it is and gives it as it *)
(* becomes; ok: a read of the file does not throw. The identity is exact:  *)
(* sawMissing covers what the inode and the birthtime may not tell apart.  *)

(* What the tab is sent: lines, or an empty event with the new size.       *)
Sent(tab, lines) == IF tab = None THEN None ELSE [tab EXCEPT !.got = @ \o lines]
SentSize(tab, size) == IF tab = None THEN None ELSE [base |-> size, got |-> <<>>]

Replaced(r) ==
  LET f == FileOf(r)
  IN  \/ r.seen # None /\ f.id # r.seen
      \/ Size(f) < r.end

(* The file shrank or was replaced: start over at its end. The folds catch *)
(* up; with an empty file the catch-up lands at once.                      *)
StartOver(r) ==
  LET size == Size(FileOf(r))
      over == [r EXCEPT !.seen = FileOf(r).id, !.end = size, !.waiting = {},
                        !.read = {}, !.tab = SentSize(@, size)]
  IN  IF ~r.live THEN over
      ELSE [over EXCEPT !.fold = <<>>, !.retry = None, !.gen = gens + 1,
                        !.partial = FALSE, !.catchUp = size > 0]

ReadLines(r, ok) ==
  LET new == LinesFrom(FileOf(r), r.end)
      seen == [r EXCEPT !.seen = FileOf(r).id, !.misread = ~ok /\ new # <<>>]
  IN  IF ~ok \/ new = <<>> THEN seen
      ELSE [seen EXCEPT !.end = 2 * Len(FileOf(r).lines),
                        !.waiting = @ \ Uuids(new),
                        !.read = @ \cup Uuids(new),
                        !.tab = Sent(@, new),
                        !.fold = IF r.live THEN @ \o new ELSE @]

ReadOn(r, ok) ==
  IF r.catchUp \/ FileOf(r) = None THEN r
  ELSE IF Replaced(r) THEN StartOver(r)
  ELSE ReadLines(r, ok)

(* One deadline, from when the wait began: rows that join it later share   *)
(* it.                                                                     *)
WaitForRows(r) ==
  IF r.waiting = {} THEN [r EXCEPT !.retry = None]
  ELSE IF r.retry # None THEN r
  ELSE [r EXCEPT !.retry = r.waiting]

(* The catch-up landed: read on for what was pushed meanwhile.             *)
Landed(r, ok) ==
  WaitForRows(ReadOn([r EXCEPT !.catchUp = FALSE, !.waiting = @ \ r.read], ok))

(* With nothing to read, the catch-up lands within the call.               *)
StartCatchUp(r, ok) ==
  IF ~r.live THEN r
  ELSE LET started == [r EXCEPT !.fold = <<>>, !.retry = None, !.gen = gens + 1,
                                     !.partial = FALSE]
       IN  IF r.file = None \/ r.end = 0 THEN Landed(started, ok)
           ELSE [started EXCEPT !.catchUp = TRUE]

(* A relay of the file from its end now; from its first byte when there is *)
(* none yet.                                                               *)
OpenRelay ==
  LET f == IF named = None THEN None ELSE files[named]
  IN  [file |-> named, end |-> Size(f), seen |-> IdOf(f), live |-> FALSE,
       fold |-> <<>>, read |-> {}, waiting |-> {}, retry |-> None,
       catchUp |-> FALSE, gen |-> gens, tab |-> None,
       misread |-> FALSE, partial |-> FALSE]

RelayOf == IF relay = None THEN OpenRelay ELSE relay

(* Mutated form: the timer is left running. *)
Retarget_Timer(r, path, ok) ==
  LET f == files[path]
  IN  StartCatchUp([r EXCEPT !.file = path, !.end = Size(f), !.seen = IdOf(f),
                             !.waiting = {}, !.read = {},
                             !.tab = SentSize(@, Size(f))], ok)

(* Mutated form: the tabs are not told. *)
Retarget_Untold(r, path, ok) ==
  LET f == files[path]
  IN  StartCatchUp([r EXCEPT !.retry = None, !.file = path, !.end = Size(f),
                             !.seen = IdOf(f), !.waiting = {}, !.read = {}], ok)

(* Another transcript, read on from its end now.                           *)
Retarget(r, path, ok) ==
  LET f == files[path]
  IN  StartCatchUp([r EXCEPT !.retry = None, !.file = path, !.end = Size(f),
                             !.seen = IdOf(f), !.waiting = {}, !.read = {},
                             !.tab = SentSize(@, Size(f))], ok)

DropIfUnused(r) == IF r.live \/ r.tab # None THEN r ELSE None

(* The relay becomes r; a catch-up it started is in flight beside the scans *)
(* that stay. Unless "cut" is among the faults, no line is half written at  *)
(* the moment a reading starts at the end of the file.                     *)
Becomes(r, staying) ==
  /\ relay' = r
  /\ IF r = None \/ "cut" \in Faults THEN TRUE ELSE r.end % 2 = 0
  /\ IF r # None /\ r.gen > gens
     THEN /\ gens' = r.gen
          /\ scans' = staying \cup {[gen |-> r.gen, path |-> r.file, end |-> r.end,
                                     left |-> None] : x \in {y \in {1} : r.catchUp}}
     ELSE gens' = gens /\ scans' = staying

Oks == IF "read" \in Faults THEN BOOLEAN ELSE {TRUE}

-----------------------------------------------------------------------------
(* What the daemon does.                                                   *)

(* syncLiveRelays: the session's module named a run.                       *)
GoesLive ==
  /\ gens < MaxGens
  /\ IF relay = None THEN TRUE ELSE ~relay.live
  /\ \E ok \in Oks : Becomes(StartCatchUp([RelayOf EXCEPT !.live = TRUE], ok), scans)
  /\ UNCHANGED <<worldVars, named>>

(* syncLiveRelays: its last run went. A tab may still follow.              *)
GoesDown ==
  /\ relay # None /\ relay.live
  /\ Becomes(DropIfUnused([relay EXCEPT !.live = FALSE, !.catchUp = FALSE,
                                        !.read = {}, !.fold = <<>>]), scans)
  /\ UNCHANGED <<worldVars, named>>

(* relayRefold: the session said hello from another directory.             *)
Refold ==
  /\ gens < MaxGens
  /\ relay # None
  /\ \E ok \in Oks : Becomes(StartCatchUp(relay, ok), scans)
  /\ UNCHANGED <<worldVars, named>>

Subscribe ==
  /\ named # None /\ files[named] # None
  /\ IF relay = None THEN TRUE ELSE relay.tab = None
  /\ \E ok \in Oks :
       LET r == IF RelayOf.file # named THEN Retarget(RelayOf, named, ok) ELSE RelayOf
       IN  Becomes([r EXCEPT !.tab = [base |-> r.end, got |-> <<>>]], scans)
  /\ UNCHANGED <<worldVars, named>>

Unsubscribe ==
  /\ relay # None /\ relay.tab # None
  /\ Becomes(DropIfUnused([relay EXCEPT !.tab = None]), scans)
  /\ UNCHANGED <<worldVars, named>>

(* relayPushed: rows of the conversation, some written and some not, some  *)
(* pushed before (compaction pushes again the rows it keeps).              *)
Push(rows) ==
  /\ relay # None
  /\ \E ok \in Oks :
       LET names == relay.file = None /\ named # None
           r == [relay EXCEPT !.file = IF names THEN named ELSE @,
                              !.waiting = @ \cup (rows \ relay.read)]
       IN  Becomes(IF names /\ r.live THEN StartCatchUp(r, ok)
                   ELSE IF r.catchUp THEN r
                   ELSE WaitForRows(ReadOn(r, ok)), scans)
  /\ UNCHANGED <<worldVars, named>>

(* The file is read again while rows wait.                                 *)
Tick ==
  /\ relay # None /\ relay.retry # None
  /\ \E ok \in Oks :
       LET r == ReadOn(relay, ok)
       IN  Becomes(IF r.waiting = {} \/ r.catchUp THEN [r EXCEPT !.retry = None] ELSE r, scans)
  /\ UNCHANGED <<worldVars, named>>

(* Mutated form: the file is not read a last time. *)
GiveUp_Unread ==
  /\ relay # None /\ relay.retry # None
  /\ Becomes([relay EXCEPT !.retry = None, !.waiting = {}], scans)
  /\ UNCHANGED <<worldVars, named>>

(* Mutated form: the wait has no end. *)
GiveUp_Never == FALSE /\ UNCHANGED vars

(* The deadline: the file is read a last time and the wait ends.           *)
GiveUp ==
  /\ relay # None /\ relay.retry # None
  /\ \E ok \in Oks :
       LET r == ReadOn(relay, ok)
       IN  Becomes([r EXCEPT !.retry = None,
                             !.waiting = IF r.catchUp THEN @ ELSE {}], scans)
  /\ UNCHANGED <<worldVars, named>>

-----------------------------------------------------------------------------
(* The catch-up read.                                                      *)

(* Mutated form: a superseded catch-up hands its lines on too. *)
Current_Any(s) == relay # None /\ relay.live

(* No later catch-up began, and the folds are those it began with.         *)
Current(s) == relay # None /\ relay.live /\ s.gen = relay.gen

(* The file is opened: what is at the path by then, if anything.           *)
ScanOpens(s) ==
  /\ s.left = None
  /\ scans' = (scans \ {s}) \cup {[s EXCEPT !.left = LinesUpTo(files[s.path], s.end)]}
  /\ UNCHANGED <<worldVars, named, relay, gens>>

ScanTakes(s) ==
  /\ s.left # None /\ s.left # <<>>
  /\ scans' = (scans \ {s}) \cup {[s EXCEPT !.left = Tail(@)]}
  /\ relay' = IF ~Current(s) THEN relay
              ELSE [relay EXCEPT !.fold = Append(@, Head(s.left)),
                                 !.read = @ \cup {Head(s.left)}]
  /\ UNCHANGED <<worldVars, named, gens>>

(* It throws: what was folded so far is all the catch-up gives.            *)
ScanFails(s) ==
  /\ "scan" \in Faults
  /\ s.left # <<>>
  /\ scans' = (scans \ {s}) \cup {[s EXCEPT !.left = <<>>]}
  /\ relay' = IF Current(s) THEN [relay EXCEPT !.partial = TRUE] ELSE relay
  /\ UNCHANGED <<worldVars, named, gens>>

ScanLands(s) ==
  /\ s.left = <<>>
  /\ IF Current(s)
     THEN \E ok \in Oks : Becomes(Landed(relay, ok), scans \ {s})
     ELSE scans' = scans \ {s} /\ UNCHANGED <<relay, gens>>
  /\ UNCHANGED <<worldVars, named>>

ScanStep == \E s \in scans : ScanOpens(s) \/ ScanTakes(s) \/ ScanLands(s)

-----------------------------------------------------------------------------
(* The session: its lines, its file and its hello.                         *)

(* A line is begun, in a new file when there is none at the path.          *)
WriteLine ==
  /\ written < MaxRows
  /\ written' = written + 1
  /\ \E torn \in BOOLEAN :
       LET lines == IF torn THEN <<>> ELSE <<written + 1>>
       IN  IF files[cur] = None
           THEN /\ made < MaxFiles /\ made' = made + 1
                /\ files' = [files EXCEPT ![cur] = [id |-> made + 1, lines |-> lines,
                                                    torn |-> torn]]
           ELSE /\ ~files[cur].torn /\ UNCHANGED made
                /\ files' = [files EXCEPT ![cur].lines = @ \o lines, ![cur].torn = torn]
  /\ UNCHANGED <<cur, named, readVars>>

FinishLine ==
  /\ files[cur] # None /\ files[cur].torn
  /\ files' = [files EXCEPT ![cur].lines = Append(@, written), ![cur].torn = FALSE]
  /\ UNCHANGED <<made, written, cur, named, readVars>>

(* The file is rewritten under another identity, or goes.                  *)
Rewrite ==
  /\ files[cur] # None /\ ~files[cur].torn
  /\ \/ /\ made < MaxFiles /\ made' = made + 1
        /\ \E n \in 0..Len(files[cur].lines) :
             files' = [files EXCEPT ![cur].id = made + 1, ![cur].lines = SubSeq(@, 1, n)]
     \/ files' = [files EXCEPT ![cur] = None] /\ UNCHANGED made
  /\ UNCHANGED <<written, cur, named, readVars>>

Moves ==
  /\ gens < MaxGens
  /\ named = cur
  /\ IF files[cur] = None THEN TRUE ELSE ~files[cur].torn
  /\ cur' \in {p \in Paths : files[p] = None}
  /\ cur' # cur
  /\ UNCHANGED <<files, made, written, named, readVars>>

(* A hello that names the transcript: relayRetarget when it named another. *)
Hello ==
  /\ named # cur
  /\ named' = cur
  /\ IF named # None /\ relay # None /\ relay.file # cur
     THEN \E ok \in Oks : Becomes(Retarget(relay, cur, ok), scans)
     ELSE UNCHANGED readVars
  /\ UNCHANGED worldVars

Next ==
  \/ GoesLive \/ GoesDown \/ Refold \/ Subscribe \/ Unsubscribe
  \/ \E rows \in (SUBSET Rows) \ {{}} : Push(rows)
  \/ Tick \/ GiveUp
  \/ ScanStep \/ \E s \in scans : ScanFails(s)
  \/ WriteLine \/ FinishLine \/ Rewrite \/ Moves \/ Hello

Spec == Init /\ [][Next]_vars

(* The timers fire, the reads of a catch-up come back, and a line that is   *)
(* half written is finished.                                               *)
FairSpec == Spec /\ WF_vars(GiveUp) /\ WF_vars(ScanStep) /\ WF_vars(FinishLine)

-----------------------------------------------------------------------------
(* Properties.                                                             *)

(* The relay reads the file that is there.                                 *)
OnFile == relay # None /\ FileOf(relay) # None /\ FileOf(relay).id = relay.seen

(* The folds of a live session hold every complete line up to where the    *)
(* reading stands, once and in file order, whatever pushes, rewrites,      *)
(* refolds and superseded catch-ups came before (LineFold, startCatchUp).  *)
FoldsExact ==
  OnFile /\ relay.live /\ ~relay.catchUp /\ ~relay.partial =>
    relay.fold = SubSeq(FileOf(relay).lines, 1, relay.end \div 2)

(* A tab was sent every line from where its following began, or its file's *)
(* size was last told, to where the reading stands (send, relaySubscribe). *)
TabExact ==
  OnFile /\ relay.tab # None =>
    relay.tab.got = SubSeq(FileOf(relay).lines, relay.tab.base \div 2 + 1,
                           relay.end \div 2)

(* A row stops waiting unread only when its line is not in the file from   *)
(* where the reading stood, or the file is not the one read so far, or the *)
(* last reading threw.                                                     *)
GivenUpUnwritten ==
  [][\A u \in Rows :
       /\ OnFile /\ relay' # None /\ ~relay'.misread
       /\ u \in relay.waiting /\ u \notin relay'.waiting /\ u \notin relay'.read
       => u \notin Uuids(LinesFrom(FileOf(relay), relay.end)) \/ relay'.file # relay.file]_vars

(* Every wait of a live session comes to an end, catch-ups included.       *)
EveryWaitEnds ==
  relay # None /\ relay.live /\ (relay.waiting # {} \/ relay.catchUp)
    ~> relay = None \/ ~relay.live \/ (relay.waiting = {} /\ ~relay.catchUp)
=============================================================================
