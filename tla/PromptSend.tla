------------------------------ MODULE PromptSend ------------------------------
(***************************************************************************)
(* prompt.send in the hooks module of one run (hooks/prompt-send.ts,        *)
(* hooks/session-lifecycle.ts, the id handling of hooks/sidecar.ts): the    *)
(* queue of requests, the composer they fill over the person's draft, the   *)
(* Enter pressed through hyoui, the submit that accepts a request, and the  *)
(* draft put back afterwards.                                               *)
(*                                                                          *)
(* Every await of the code is a step boundary: the person, the harness and  *)
(* the module's other handlers may act between two awaits. What the         *)
(* composer holds is a sequence of pieces of text; a request's text is one  *)
(* piece, what the person typed are others. Session ids and generations     *)
(* are counted from 0.                                                      *)
(***************************************************************************)
EXTENDS Integers, Sequences, FiniteSets, SequencesExt

CONSTANTS
  Requests,   (* the prompt.sends that may arrive                          *)
  Text,       (* the text of each request                                  *)
  Bash,       (* the requests with mode "bash"                             *)
  Draft,      (* what the person had half typed                            *)
  Typed,      (* what the person may type next                             *)
  None,
  MaxActs,    (* bound: Enters the person presses, edits they make,        *)
              (* sidecars respawned within a /clear                        *)
  MaxMoves,   (* bound: times the session changes its id                   *)
  MaxClears   (* bound: clears of the composer not yet told                *)

Texts == {Text[r] : r \in Requests}
Pieces == Texts \cup {Draft, Typed}

ASSUME BoundAssumption ==
  /\ MaxActs \in Nat /\ MaxMoves \in Nat /\ MaxClears \in Nat
  /\ IsFiniteSet(Requests)
  /\ Bash \subseteq Requests
  /\ Draft \notin Texts /\ Typed \notin Texts

VARIABLES
  (* the module *)
  queue,      (* state.queue: the requests not begun                       *)
  cur,        (* the request handlePromptSend runs, or None                *)
  pc,         (* the await it is at                                        *)
  draft,      (* its local draft                                           *)
  accepted,   (* its accepted promise is resolved with true                *)
  awaiting,   (* state.awaiting is set, for cur                            *)
  restoring,  (* state.restoring: a request and its draft, or None         *)
  putBacks,   (* the putBackDraft calls under way                          *)
  modSid, generation,   (* state.sid, state.generation                     *)
  stamp,      (* the sid and generation each request arrived under         *)
  answer,     (* what each request was answered                            *)
  (* the harness and the person *)
  composer, bashMode,
  keys,       (* Enters hyoui delivered that the harness has not taken     *)
  submits,    (* prompt.submits whose next has not settled                 *)
  entered,    (* what went in, and into which session                      *)
  realSid,    (* the session's id                                          *)
  moving,     (* a /clear or /resume between its session.end and its id    *)
  clears,     (* prompt.changes of a cleared composer not yet told         *)
  gone,       (* what the person cleared, or the debug log took            *)
  acts,       (* how often the person acted, a sidecar respawned in a /clear *)
  typed,      (* history: the person typed more                            *)
  raced       (* history: what came between two steps of the module        *)

moduleVars == <<queue, cur, pc, draft, accepted, awaiting, restoring, putBacks,
                stamp, answer>>
lifeVars == <<modSid, generation, realSid, moving>>
boxVars == <<composer, bashMode, gone>>
worldVars == <<keys, clears, submits, entered, acts, typed>>
vars == <<moduleVars, lifeVars, boxVars, worldVars, raced>>

Outcomes == {"accepted", "not_delivered", "unconfirmed"}
Restoring == [req: Requests, draft: Seq(Pieces)]
PutBack == [req: Requests, draft: Seq(Pieces), phase: {"read", "fill"}]
Pcs == {"idle", "read", "fill", "switch", "append", "restore", "check", "enter",
        "wait", "backRead", "backFill", "backCheck"}
Stamp == [sid: 0..MaxMoves, generation: Nat]

ASSUME NoneAssumption ==
  /\ None \notin Requests /\ None \notin Outcomes /\ None \notin 0..MaxMoves
  /\ None \notin Stamp /\ None \notin Restoring

TypeOK ==
  /\ queue \in Seq(Requests)
  /\ cur \in Requests \cup {None}
  /\ pc \in Pcs /\ (pc = "idle") = (cur = None)
  /\ draft \in Seq(Pieces)
  /\ accepted \in BOOLEAN /\ awaiting \in BOOLEAN
  /\ restoring \in Restoring \cup {None}
  /\ putBacks \subseteq PutBack
  /\ modSid \in 0..MaxMoves \cup {None}
  /\ generation \in Nat
  /\ stamp \in [Requests -> Stamp \cup {None}]
  /\ answer \in [Requests -> Outcomes \cup {None}]
  /\ composer \in Seq(Pieces)
  /\ bashMode \in BOOLEAN
  /\ keys \in 0..Cardinality(Requests)
  /\ submits \in Seq(Seq(Pieces))
  /\ entered \in Seq([text: Seq(Pieces), sid: 0..MaxMoves])
  /\ realSid \in 0..MaxMoves
  /\ moving \in {"no", "ended"}
  /\ clears \in 0..MaxClears
  /\ gone \subseteq Pieces
  /\ acts \in 0..MaxActs /\ typed \in BOOLEAN
  /\ raced \subseteq {"enter", "edit", "overlap", "command", "refused", "rebound"}

Init ==
  /\ queue = <<>> /\ cur = None /\ pc = "idle" /\ draft = <<>>
  /\ accepted = FALSE /\ awaiting = FALSE /\ restoring = None /\ putBacks = {}
  /\ modSid = 0 /\ generation = 0 /\ realSid = 0 /\ moving = "no"
  /\ clears = 0
  /\ stamp = [r \in Requests |-> None]
  /\ answer = [r \in Requests |-> None]
  /\ composer = <<Draft>> /\ bashMode = FALSE
  /\ keys = 0 /\ submits = <<>> /\ entered = <<>>
  /\ gone = {} /\ acts = 0 /\ typed = FALSE /\ raced = {}

Holds(content, piece) == piece \in ToSet(content)
IsBash(r) == r \in Bash

-----------------------------------------------------------------------------
(* What the steps share.                                                   *)

(* A replacing fill leaves bash mode.                                      *)
Fill(content) == composer' = content /\ bashMode' = FALSE

(* The generation and the sid the request arrived under are the module's.  *)
SameSession(r) == stamp[r].generation = generation /\ stamp[r].sid = modSid

(* Mutated form: the request stays the current one. *)
Answer_CurLeft(r, outcome) ==
  /\ answer' = [answer EXCEPT ![r] = outcome]
  /\ pc' = "idle" /\ draft' = <<>> /\ accepted' = FALSE /\ UNCHANGED cur

(* handlePromptSend returns: the next queued request may start.            *)
Answer(r, outcome) ==
  /\ answer' = [answer EXCEPT ![r] = outcome]
  /\ cur' = None /\ pc' = "idle" /\ draft' = <<>> /\ accepted' = FALSE

GoTo(next) ==
  /\ pc' = next
  /\ UNCHANGED <<answer, cur, draft, accepted>>

(* Where the request goes once its text is in the composer: stillCurrent   *)
(* compares the generation and the sid before it asks the session its id.  *)
AfterFill == IF SameSession(cur) THEN "check" ELSE "backRead"

keepQueue == UNCHANGED <<queue, stamp>>
keepWaits == UNCHANGED <<awaiting, restoring, putBacks>>
keepWorld == UNCHANGED <<lifeVars, worldVars>>

-----------------------------------------------------------------------------
(* The requests.                                                           *)

(* A request line read from the sidecar of sid: it is stamped with that    *)
(* sid and the generation as it is now, and queued. The sidecar of an      *)
(* earlier id may still have lines in its pipe.                            *)
Arrive(r) ==
  /\ stamp[r] = None
  /\ \E sid \in 0..realSid :
       stamp' = [stamp EXCEPT ![r] = [sid |-> sid, generation |-> generation]]
  /\ queue' = Append(queue, r)
  /\ UNCHANGED <<cur, pc, draft, accepted, awaiting, restoring, putBacks, answer,
                 lifeVars, boxVars, worldVars, raced>>

(* promptSend: a request of another session, or of a session with no       *)
(* terminal, is turned away before the composer is touched.                *)
Start ==
  /\ cur = None /\ queue # <<>>
  /\ queue' = Tail(queue)
  /\ LET r == Head(queue)
     IN  \/ Answer(r, "not_delivered")
         \/ /\ SameSession(r)
            /\ cur' = r /\ pc' = "read"
            /\ UNCHANGED <<answer, draft, accepted>>
  /\ keepWaits /\ keepWorld
  /\ UNCHANGED <<stamp, boxVars, raced>>

ReadDraft ==
  /\ pc = "read"
  /\ draft' = composer /\ pc' = "fill"
  /\ raced' = raced \cup {x \in {"overlap"} : putBacks # {}}
  /\ keepQueue /\ keepWaits /\ keepWorld
  /\ UNCHANGED <<cur, accepted, answer, boxVars>>

(* fillPrompt, or the emptying fill of fillBashCommand.                    *)
FillText ==
  /\ pc = "fill"
  /\ \/ Answer(cur, "not_delivered") /\ UNCHANGED boxVars
     \/ /\ ~IsBash(cur)
        /\ Fill(<<Text[cur]>>) /\ GoTo(AfterFill)
        /\ UNCHANGED gone
     \/ /\ IsBash(cur)
        /\ Fill(<<>>) /\ GoTo("switch")
        /\ UNCHANGED gone
  /\ keepQueue /\ keepWaits /\ keepWorld /\ UNCHANGED raced

(* hyoui presses `!` and waits for the switch to show: it fails, with the  *)
(* key delivered or not, or it shows. A `!` pressed into a composer that   *)
(* is not empty is text; nothing shows then.                               *)
SwitchToBash ==
  /\ pc = "switch"
  /\ \/ GoTo("restore") /\ bashMode' = bashMode
     \/ composer = <<>> /\ bashMode' = TRUE /\ pc' \in {"append", "restore"}
        /\ UNCHANGED <<answer, cur, draft, accepted>>
  /\ keepQueue /\ keepWaits /\ keepWorld /\ UNCHANGED <<composer, gone, raced>>

AppendCommand ==
  /\ pc = "append"
  /\ \/ GoTo("restore") /\ UNCHANGED boxVars
     \/ /\ composer' = Append(composer, Text[cur])
        /\ GoTo(AfterFill)
        /\ UNCHANGED <<bashMode, gone>>
  /\ keepQueue /\ keepWaits /\ keepWorld /\ UNCHANGED raced

(* restoreDraft: what a refused fill cannot put back goes to the log.      *)
RestoreDraft ==
  /\ pc = "restore"
  /\ \/ Fill(draft) /\ UNCHANGED gone
     \/ gone' = gone \cup ToSet(draft) /\ UNCHANGED <<composer, bashMode>>
  /\ Answer(cur, "not_delivered")
  /\ keepQueue /\ keepWaits /\ keepWorld /\ UNCHANGED raced

(* Mutated form: the generation is not compared. *)
StaleAtWait_Not == FALSE

(* Enter went out under an id that is no longer the session's.             *)
StaleAtWait == stamp[cur].generation # generation

(* The session's id is as it was: the request is awaited, its draft kept   *)
(* for the submit, and Enter is pressed.                                   *)
CheckId ==
  /\ pc = "check"
  /\ IF realSid = stamp[cur].sid
     THEN /\ GoTo("enter")
          /\ awaiting' = TRUE
          /\ restoring' = [req |-> cur, draft |-> draft]
          /\ raced' = raced \cup {x \in {"command"} : IsBash(cur) /\ clears > 0}
     ELSE GoTo("backRead") /\ UNCHANGED <<awaiting, restoring, raced>>
  /\ keepQueue /\ keepWorld /\ UNCHANGED <<putBacks, boxVars>>

(* `hyoui input` comes back, whatever its exit code; the key is delivered  *)
(* or it is not.                                                           *)
PressEnter ==
  /\ pc = "enter"
  /\ keys' \in {keys, keys + 1}
  /\ GoTo("wait")
  /\ keepQueue /\ keepWaits
  /\ UNCHANGED <<lifeVars, boxVars, clears, submits, entered, acts, typed, raced>>

(* Mutated form: no timer ends the wait. *)
EndWait_NoTimer ==
  /\ pc = "wait"
  /\ awaiting' = FALSE
  /\ \/ StaleAtWait /\ Answer(cur, "unconfirmed")
     \/ ~StaleAtWait /\ accepted /\ Answer(cur, "accepted")
  /\ keepQueue /\ keepWorld /\ UNCHANGED <<restoring, putBacks, boxVars, raced>>

(* accepted.promise settles, by accept() or by the timer of 3 s.           *)
EndWait ==
  /\ pc = "wait"
  /\ awaiting' = FALSE
  /\ \/ StaleAtWait /\ Answer(cur, "unconfirmed") /\ UNCHANGED restoring
     \/ ~StaleAtWait /\ accepted /\ Answer(cur, "accepted") /\ UNCHANGED restoring
     \/ ~StaleAtWait /\ ~accepted /\ restoring' = None /\ GoTo("backRead")
  /\ keepQueue /\ keepWorld /\ UNCHANGED <<putBacks, boxVars, raced>>

(* putBackUnsent.                                                          *)
BackRead ==
  /\ pc = "backRead"
  /\ IF composer = <<Text[cur]>> THEN GoTo("backFill") ELSE Answer(cur, "unconfirmed")
  /\ keepQueue /\ keepWaits /\ keepWorld /\ UNCHANGED <<boxVars, raced>>

(* Mutated form: a refused put-back counts as one that went in. *)
BackFill_RefusedIsBack ==
  /\ pc = "backFill"
  /\ \/ GoTo("backCheck") /\ Fill(draft)
     \/ Answer(cur, "not_delivered") /\ UNCHANGED <<composer, bashMode>>
  /\ keepQueue /\ keepWaits /\ keepWorld /\ UNCHANGED <<gone, raced>>

BackFill ==
  /\ pc = "backFill"
  /\ \/ GoTo("backCheck") /\ Fill(draft)
     \/ Answer(cur, "unconfirmed") /\ UNCHANGED <<composer, bashMode>>
  /\ keepQueue /\ keepWaits /\ keepWorld /\ UNCHANGED <<gone, raced>>

BackCheck ==
  /\ pc = "backCheck"
  /\ Answer(cur, IF Holds(composer, Text[cur]) THEN "unconfirmed" ELSE "not_delivered")
  /\ keepQueue /\ keepWaits /\ keepWorld /\ UNCHANGED <<boxVars, raced>>

(* An await of the request's own throws: replyTo answers internal, which   *)
(* leaves it unknown whether the text went in.                             *)
EngineFails ==
  /\ pc \in {"read", "fill", "append", "restore", "check",
             "backRead", "backFill", "backCheck"}
  /\ Answer(cur, "unconfirmed")
  /\ keepQueue /\ keepWaits /\ keepWorld /\ UNCHANGED <<boxVars, raced>>

-----------------------------------------------------------------------------
(* The submits.                                                            *)

(* Whose draft a submit or a clear puts back: an empty draft is not.       *)
PutBacksWith(rest) ==
  putBacks \cup {[req |-> x.req, draft |-> x.draft, phase |-> "read"] :
                   x \in {y \in {rest} : y.draft # <<>>}}

(* Between a read of the composer and the fill made by it.                 *)
Overwritten == pc \in {"fill", "backFill"} \/ \E b \in putBacks : b.phase = "fill"

(* Enter reaches the composer: a bash command goes in, a prompt is raised  *)
(* as a prompt.submit; either way the composer is cleared, which is told   *)
(* in a later step.                                                        *)
EnterTaken ==
  IF composer = <<>>
  THEN UNCHANGED <<composer, bashMode, clears, submits, entered, raced>>
  ELSE /\ composer' = <<>> /\ bashMode' = FALSE
       /\ clears < MaxClears /\ clears' = clears + 1
       /\ raced' = raced \cup {x \in {"enter"} : Overwritten}
       /\ IF bashMode
          THEN /\ entered' = Append(entered, [text |-> composer, sid |-> realSid])
               /\ UNCHANGED submits
          ELSE submits' = Append(submits, composer) /\ UNCHANGED entered

HarnessTakesKey ==
  /\ keys > 0
  /\ keys' = keys - 1
  /\ EnterTaken
  /\ UNCHANGED <<moduleVars, lifeVars, gone, acts, typed>>

PersonEnters ==
  /\ acts < MaxActs
  /\ acts' = acts + 1
  /\ EnterTaken
  /\ UNCHANGED <<moduleVars, lifeVars, gone, keys, typed>>

(* composerCleared: whatever command is awaited by then is accepted.       *)
Cleared ==
  /\ IF awaiting /\ IsBash(cur)
     THEN awaiting' = FALSE /\ accepted' = TRUE
     ELSE UNCHANGED <<awaiting, accepted>>
  /\ IF restoring # None /\ IsBash(restoring.req)
     THEN restoring' = None /\ putBacks' = PutBacksWith(restoring)
     ELSE UNCHANGED <<restoring, putBacks>>

(* The prompt.change of a composer emptied by other than an edit, after it *)
(* was emptied: the hook's `after` step.                                   *)
ClearTold ==
  /\ clears > 0
  /\ clears' = clears - 1
  /\ Cleared
  /\ keepQueue
  /\ UNCHANGED <<cur, pc, draft, answer, lifeVars, boxVars, keys, submits, entered,
                 acts, typed, raced>>

(* The submit is the one awaited: a bash mode command is not taken by one. *)
TakesAwaited(text) == awaiting /\ ~IsBash(cur) /\ text = <<Text[cur]>>

TakesRestoring(text) ==
  restoring # None /\ ~IsBash(restoring.req) /\ text = <<Text[restoring.req]>>

(* The next of a prompt.submit settles: the prompt entered the session, or *)
(* was dropped on the way (promptSubmitted).                               *)
SettleSubmit(i) ==
  /\ submits' = RemoveAt(submits, i)
  /\ \/ UNCHANGED <<entered, awaiting, accepted, restoring, putBacks>>
        /\ gone' = gone \cup ToSet(submits[i])
     \/ /\ entered' = Append(entered, [text |-> submits[i], sid |-> realSid])
        /\ UNCHANGED gone
        /\ IF TakesAwaited(submits[i])
           THEN awaiting' = FALSE /\ accepted' = TRUE
           ELSE UNCHANGED <<awaiting, accepted>>
        /\ IF TakesRestoring(submits[i])
           THEN restoring' = None /\ putBacks' = PutBacksWith(restoring)
           ELSE UNCHANGED <<restoring, putBacks>>
  /\ keepQueue
  /\ UNCHANGED <<cur, pc, draft, answer, lifeVars, composer, bashMode,
                 keys, clears, acts, typed, raced>>

(* Mutated form: what the composer holds is not looked at. *)
PutBackReads_Always(b) ==
  /\ b.phase = "read"
  /\ putBacks' = (putBacks \ {b}) \cup {[b EXCEPT !.phase = "fill"]}
  /\ UNCHANGED <<queue, cur, pc, draft, accepted, awaiting, restoring, stamp,
                 answer, boxVars, raced>>
  /\ keepWorld

(* putBackDraft: what the person is typing is not overwritten; the draft   *)
(* goes to the log then.                                                   *)
PutBackReads(b) ==
  /\ b.phase = "read"
  /\ IF composer \in {<<>>, <<Text[b.req]>>}
     THEN putBacks' = (putBacks \ {b}) \cup {[b EXCEPT !.phase = "fill"]}
          /\ UNCHANGED gone
     ELSE putBacks' = putBacks \ {b} /\ gone' = gone \cup ToSet(b.draft)
  /\ UNCHANGED <<queue, cur, pc, draft, accepted, awaiting, restoring, stamp,
                 answer, composer, bashMode, raced>>
  /\ keepWorld

(* Its fill, whose refusal is not looked at.                               *)
PutBackFills(b) ==
  /\ b.phase = "fill"
  /\ putBacks' = putBacks \ {b}
  /\ \/ /\ Fill(b.draft)
        /\ raced' = raced \cup {x \in {"overlap"} : pc \notin {"idle", "read"}}
     \/ UNCHANGED <<composer, bashMode>> /\ raced' = raced \cup {"refused"}
  /\ UNCHANGED <<queue, cur, pc, draft, accepted, awaiting, restoring, stamp,
                 answer, gone>>
  /\ keepWorld

(* Its read or its fill throws: the draft goes nowhere (composerCleared    *)
(* logs the error, promptSubmitted leaves it to the event).                *)
PutBackThrows(b) ==
  /\ putBacks' = putBacks \ {b}
  /\ raced' = raced \cup {"refused"}
  /\ UNCHANGED <<queue, cur, pc, draft, accepted, awaiting, restoring, stamp,
                 answer, boxVars>>
  /\ keepWorld

-----------------------------------------------------------------------------
(* The person edits the composer; /clear and /resume.                      *)

(* An edit is overwritten as well while the composer is emptied for a      *)
(* command; one made to a command that waits for its Enter changes it.     *)
EditRace ==
  {x \in {"edit"} : Overwritten \/ pc \in {"switch", "append", "restore"}}
    \cup {x \in {"command"} : pc \in {"check", "enter", "wait"} /\ IsBash(cur)}

PersonTypes ==
  /\ acts < MaxActs
  /\ acts' = acts + 1 /\ typed' = TRUE
  /\ composer' = Append(composer, Typed)
  /\ raced' = raced \cup EditRace
  /\ UNCHANGED <<moduleVars, lifeVars, bashMode, gone, keys, clears, submits, entered>>

(* The person clears or stashes what the composer holds.                   *)
PersonClears ==
  /\ acts < MaxActs
  /\ composer # <<>>
  /\ acts' = acts + 1
  /\ composer' = <<>> /\ bashMode' = FALSE
  /\ gone' = gone \cup ToSet(composer)
  /\ clears < MaxClears /\ clears' = clears + 1
  /\ raced' = raced \cup EditRace
  /\ UNCHANGED <<moduleVars, lifeVars, keys, submits, entered, typed>>

(* session.end for /clear or /resume: sessionCleared.                      *)
SessionEnds ==
  /\ moving = "no" /\ realSid < MaxMoves
  /\ moving' = "ended"
  /\ IF modSid = None
     THEN UNCHANGED <<modSid, generation, awaiting>>
     ELSE modSid' = None /\ generation' = generation + 1 /\ awaiting' = FALSE
  /\ UNCHANGED <<queue, cur, pc, draft, accepted, restoring, putBacks, stamp,
                 answer, realSid, boxVars, worldVars, raced>>

IdMoves ==
  /\ moving = "ended"
  /\ moving' = "no" /\ realSid' = realSid + 1
  /\ UNCHANGED <<moduleVars, modSid, generation, boxVars, worldVars, raced>>

(* replaceSidecar serves the id it asked the session for.                  *)
Bind(sid) ==
  /\ modSid' = sid
  /\ IF modSid \notin {None, sid}
     THEN generation' = generation + 1 /\ awaiting' = FALSE
     ELSE UNCHANGED <<generation, awaiting>>
  /\ UNCHANGED <<queue, cur, pc, draft, accepted, restoring, putBacks, stamp,
                 answer, realSid, moving, boxVars, keys, clears, submits, entered, typed>>

(* After the command went through, or at the session's start.              *)
SidecarReplaced ==
  /\ moving = "no"
  /\ Bind(realSid)
  /\ UNCHANGED <<acts, raced>>

(* The sidecar ended and its respawn timer fired within a /clear: the id   *)
(* it asked for is the old one, and may be so no more when it is served.   *)
SidecarRebound ==
  /\ acts < MaxActs
  /\ acts' = acts + 1
  /\ \E sid \in 0..realSid :
       /\ sid # realSid \/ moving = "ended"
       /\ modSid # None => modSid <= sid
       /\ Bind(sid)
  /\ raced' = raced \cup {"rebound"}

-----------------------------------------------------------------------------
ModuleStep ==
  \/ Start \/ ReadDraft \/ FillText \/ SwitchToBash \/ AppendCommand
  \/ RestoreDraft \/ CheckId \/ PressEnter \/ EndWait
  \/ BackRead \/ BackFill \/ BackCheck \/ EngineFails

Next ==
  \/ \E r \in Requests : Arrive(r)
  \/ ModuleStep
  \/ HarnessTakesKey \/ PersonEnters \/ ClearTold
  \/ \E i \in 1..Len(submits) : SettleSubmit(i)
  \/ \E b \in putBacks : PutBackReads(b) \/ PutBackFills(b) \/ PutBackThrows(b)
  \/ PersonTypes \/ PersonClears
  \/ SessionEnds \/ IdMoves \/ SidecarReplaced \/ SidecarRebound

Spec == Init /\ [][Next]_vars

(* The engine answers every call of the module, and the timer fires.       *)
FairSpec == Spec /\ WF_vars(ModuleStep)

-----------------------------------------------------------------------------
(* Properties.                                                             *)

EnteredWith(t) == {i \in 1..Len(entered) : Holds(entered[i].text, t)}

(* Requests of a text that may be in, as far as their answers say.         *)
MayBeIn(t) ==
  {r \in Requests : Text[r] = t /\ stamp[r] # None /\ answer[r] # "not_delivered"}

(* A request answered not_delivered is out (handlePromptSend,              *)
(* putBackUnsent): what entered with a text is never more than the requests *)
(* of that text not so answered, so a retry of a not_delivered request puts *)
(* no second copy in. Left out: an Enter between a read of the composer    *)
(* and the fill made by it (NotDeliveredNeverIn).                          *)
NotDeliveredIsOut ==
  "enter" \notin raced =>
    \A t \in Texts : Cardinality(EnteredWith(t)) <= Cardinality(MayBeIn(t))

(* Accepted requests went in, as they are and into the session they were   *)
(* sent to: as many entered with exactly the text as were accepted         *)
(* (promptSubmitted, composerCleared, the generation check after the wait). *)
(* Left out: a person who edits a command that waits for its Enter or      *)
(* clears it, an earlier clear told while one waits, a draft put back over *)
(* the next request, and a sidecar bound to the old id within a /clear:    *)
(* its requests are accepted into the session that follows.                *)
AcceptedIsIn ==
  raced \cap {"command", "edit", "overlap", "rebound"} = {} =>
    \A t \in Texts, s \in 0..MaxMoves :
      Cardinality({r \in Requests : /\ Text[r] = t /\ answer[r] = "accepted"
                                    /\ stamp[r].sid = s})
        <= Cardinality({i \in 1..Len(entered) :
                          entered[i] = [text |-> <<t>>, sid |-> s]})

(* Where what a person typed may be: in the composer or on its way in, in  *)
(* the hands of the module, or gone by the person's act or to the log.     *)
Kept(piece) ==
  \/ piece \in gone
  \/ Holds(composer, piece)
  \/ \E i \in 1..Len(submits) : Holds(submits[i], piece)
  \/ EnteredWith(piece) # {}
  \/ Holds(draft, piece)
  \/ restoring # None /\ Holds(restoring.draft, piece)
  \/ \E b \in putBacks : Holds(b.draft, piece)

NoneUnconfirmed == \A r \in Requests : answer[r] # "unconfirmed"

(* What the person typed is never lost to requests answered for sure       *)
(* (putBackDraft, putBackUnsent, restoreDraft). Left out: an edit between  *)
(* a read and its fill, a put-back of a draft that the composer refused,   *)
(* that threw, or that overlaps the next request.                          *)
PersonTextKept ==
  raced \cap {"edit", "refused", "overlap"} = {} /\ NoneUnconfirmed =>
    Kept(Draft) /\ (typed => Kept(Typed))

(* Every request that arrived is answered, whatever the person, the        *)
(* harness and the session do meanwhile (queuePromptSend, ACCEPT_WAIT_MS): *)
(* a failed one does not hold up the next.                                 *)
EveryRequestAnswered ==
  \A r \in Requests : stamp[r] # None ~> answer[r] # None

(* "True only when the text is known to be out of the composer": a request *)
(* answered not_delivered put nothing in, whenever Enters come.            *)
NotDeliveredNeverIn ==
  \A t \in Texts : Cardinality(EnteredWith(t)) <= Cardinality(MayBeIn(t))
=============================================================================
