---------------------------- MODULE RequestOverride ----------------------------
(***************************************************************************)
(* The overrides of a session's requests: the session override, which the   *)
(* daemon holds by session id and hands to the hooks module                 *)
(* (packages/daemon/src/request-override.ts), the one-shot override that    *)
(* comes with a prompt (hooks/request-override.ts), and the facts through   *)
(* which the tabs are shown what they come to (hooks/facts.ts,              *)
(* packages/daemon/src/session-facts.ts).                                   *)
(*                                                                          *)
(* One conversation, whose id /clear changes. One sidecar at a time writes *)
(* to the module: SidecarKeeper has the starts that meet. The filling of a *)
(* prompt is PromptSend's. The session's own model and effort do not       *)
(* change, no two readings of the clock are the same, and a turn ends only *)
(* once the hooks of its requests are through.                             *)
(***************************************************************************)
EXTENDS Integers, Sequences, FiniteSets, SequencesExt

CONSTANTS
  Fields,      (* the fields of an override: model, effort                 *)
  Values,      (* what a person sets one to                                *)
  Patches,     (* the changes a person makes: a value or Null for a field  *)
  OneShots,    (* the overrides that come with the prompts, the last first *)
  Null, Absent,
  Budgets      (* bounds: how often what comes from outside happens, in a  *)
               (* behaviour; see Outside                                   *)

(* A person's changes, prompts with a one-shot, turns of the main thread,  *)
(* /clears, ends of the sidecar, reloads of the module, stops of the       *)
(* daemon.                                                                 *)
Outside == {"change", "submit", "turn", "clear", "death", "reload", "stop"}

Override == [Fields -> Values \cup {Absent}]
Unset == [f \in Fields |-> Absent]

(* The bounds of the ids and of the counts in use.                         *)
Most(what) == UNION {0..b[what] : b \in Budgets}
Ids == {n + 1 : n \in Most("clear")}

ASSUME OverrideAssumption ==
  /\ Budgets \subseteq [Outside -> Nat]
  /\ Absent \notin Values \cup {Null} \cup Nat /\ Null \notin Values
  /\ \A p \in Patches : DOMAIN p \subseteq Fields /\ \A f \in DOMAIN p : p[f] \in Values \cup {Null}
  /\ OneShots \in Seq(Override \ {Unset})
  /\ \A b \in Budgets : b["submit"] <= Len(OneShots)

VARIABLES
  (* the session and the hooks module *)
  sid,        (* the session's id                                          *)
  clearing,   (* "no"; "ended": session.end was told; "changed": the id is *)
              (* new and command.run has still to be told                  *)
  session,    (* overrides.session                                         *)
  once,       (* overrides.once: which one-shot, its fields, bound; Absent *)
  queued,     (* factsSend.queued                                          *)
  (* the engine *)
  turn,       (* the main thread's turn, or Absent                         *)
  stepping,   (* a main-thread request waits for its hooks (turn.step)     *)
  submitting, (* the prompt whose prompt.submit is under way, or Absent    *)
  carried,    (* history: the turns with a request that carried a one-shot *)
  early,      (* history: the one-shots armed while a request waited       *)
  (* between them *)
  carrier,    (* the id the sidecar is bound under, or Absent              *)
  lines,      (* the request lines that have still to come to the module,  *)
              (* in the order they were written                            *)
  missed,     (* history: the newest override written was lost, or an      *)
              (* older one came after it                                   *)
  posts,      (* the facts on their way to the daemon, in the order of at  *)
  unheard,    (* history: the newest facts, or a request for them, were    *)
              (* lost or refused                                           *)
  (* the daemon and a tab *)
  up,
  filed,      (* the id in the session's state file, which follows sid     *)
  link,       (* the id the run is named under, or Absent                  *)
  held,       (* SessionOverrides                                          *)
  states,     (* RequestOverrideStates                                     *)
  tab,        (* what a tab shows, Absent while it is not connected        *)
  left        (* of the budget                                             *)

hookVars == <<sid, clearing, session, once, queued>>
engineVars == <<turn, stepping, submitting, carried, early>>
lineVars == <<lines, missed>>
postVars == <<posts, unheard>>
betweenVars == <<carrier, lineVars, postVars>>
daemonVars == <<up, filed, link, held, states, tab>>
overrideVars == <<hookVars, engineVars, betweenVars, daemonVars, left>>

Shown == [session: Override, once: Override]

OverrideTypeOK ==
  /\ sid \in Ids /\ clearing \in {"no", "ended", "changed"}
  /\ session \in Override /\ queued \in BOOLEAN
  /\ once = Absent \/ once \in [no: DOMAIN OneShots, override: Override \ {Unset}, bound: BOOLEAN]
  /\ turn \in Most("turn") \cup {Absent}
  /\ stepping \in BOOLEAN /\ (stepping => turn # Absent)
  /\ submitting \in DOMAIN OneShots \cup {Absent}
  /\ carried \in [DOMAIN OneShots -> SUBSET Most("turn")]
  /\ early \subseteq DOMAIN OneShots
  /\ carrier \in 1..sid \cup {Absent} /\ link \in {Absent, carrier} /\ (link # Absent => up)
  /\ lines \in Seq([op: {"set"}, over: Override, clear: SUBSET Fields, late: BOOLEAN]
                   \cup [op: {"facts"}, life: Most("stop")])
  /\ posts \in Seq([kind: {"send", "reply"}, step: {"timed", "composed", "going"}, left: BOOLEAN,
                    vals: Shown \cup {Absent}, to: Ids \cup {Absent}, life: Most("stop"),
                    late: SUBSET Ids])
  /\ missed \in BOOLEAN /\ unheard \in BOOLEAN
  /\ up \in BOOLEAN /\ filed \in 1..sid
  /\ held \in [Ids -> Override]
  /\ states \in [Ids -> Shown \cup {Absent}]
  /\ tab = Absent \/ tab \in [Ids -> Shown \cup {Absent}]
  /\ left \in [Outside -> Nat]
  /\ once # Absent => (once.bound => turn # Absent)

OverrideInit ==
  /\ sid = 1 /\ clearing = "no" /\ session = Unset /\ once = Absent /\ queued = TRUE
  /\ turn = Absent /\ stepping = FALSE /\ submitting = Absent
  /\ carried = [n \in DOMAIN OneShots |-> {}] /\ early = {}
  /\ carrier = 1 /\ lines = <<>> /\ posts = <<>>
  /\ missed = FALSE /\ unheard = FALSE
  /\ up = TRUE /\ filed = 1 /\ link = Absent
  /\ held = [i \in Ids |-> Unset]
  /\ states = [i \in Ids |-> Absent] /\ tab = [i \in Ids |-> Absent]
  /\ left \in Budgets

(* One of what comes from outside happens; nothing of it does.             *)
Spend(what) == left[what] > 0 /\ left' = [left EXCEPT ![what] = @ - 1]
Life == left["stop"]

-----------------------------------------------------------------------------
(* The overrides in the module.                                            *)

(* requestOverrideState, less the session's own values.                    *)
ValuesOf(s, o) == [session |-> s, once |-> IF o = Absent THEN Unset ELSE o.override]

(* Mutated form: a change while facts are on their way is not sent. *)
Changed_OneAtATime(s, o) ==
  /\ session' = s /\ once' = o
  /\ queued' = (queued \/ (ValuesOf(s, o) # ValuesOf(session, once) /\ posts = <<>>))

(* changeOverrides: the facts are sent when the values moved.              *)
Changed(s, o) ==
  /\ session' = s /\ once' = o
  /\ queued' = (queued \/ ValuesOf(s, o) # ValuesOf(session, once))

(* A one-shot override without the fields that changed.                    *)
Without(o, fields) ==
  LET kept == [f \in Fields |-> IF f \in fields THEN Absent ELSE o.override[f]]
  IN IF kept = Unset THEN Absent ELSE [o EXCEPT !.override = kept]

(* requestOverrideSet.                                                     *)
Set(over, clear) ==
  LET fields == clear \cup {f \in Fields : over[f] # session[f]}
  IN Changed(over, IF once = Absent THEN Absent ELSE Without(once, fields))

(* promptSubmitting: the prompt's one-shot is armed ahead of its submit.   *)
PromptSubmitting ==
  /\ submitting = Absent /\ Spend("submit")
  /\ submitting' = left["submit"]
  /\ early' = IF stepping THEN early \cup {submitting'} ELSE early
  /\ Changed(session, [no |-> submitting', override |-> OneShots[submitting'], bound |-> FALSE])
  /\ UNCHANGED <<sid, clearing, turn, stepping, carried, betweenVars, daemonVars>>

(* promptSubmitSettled: a dropped one takes its one-shot back.             *)
PromptSubmitSettled ==
  /\ submitting # Absent
  /\ submitting' = Absent
  /\ \E dropped \in BOOLEAN :
       Changed(session, IF dropped /\ once # Absent /\ ~once.bound /\ once.no = submitting
                        THEN Absent ELSE once)
  /\ UNCHANGED <<sid, clearing, turn, stepping, carried, early, betweenVars, daemonVars, left>>

(* mainTurnMoved: the one-shot is this turn's.                             *)
Bound == IF once = Absent THEN Absent ELSE [once EXCEPT !.bound = TRUE]

TurnStarts ==
  /\ turn = Absent /\ Spend("turn")
  /\ turn' = left["turn"]
  /\ once' = Bound
  /\ UNCHANGED <<sid, clearing, session, queued, stepping, submitting, carried, early, betweenVars,
                 daemonVars>>

(* Mutated form: only a turn's start binds. *)
StepBegins_Unbound ==
  /\ turn # Absent /\ ~stepping
  /\ stepping' = TRUE
  /\ UNCHANGED <<hookVars, turn, submitting, carried, early, betweenVars, daemonVars, left>>

(* turn.step: a request of the turn; its hooks are waited for (runAll).    *)
StepBegins ==
  /\ turn # Absent /\ ~stepping
  /\ stepping' = TRUE
  /\ once' = Bound
  /\ UNCHANGED <<sid, clearing, session, queued, turn, submitting, carried, early, betweenVars,
                 daemonVars, left>>

(* The hooks are through: the request goes, with the one-shot of this      *)
(* moment laid over it (overriddenStep), bound or not.                     *)
StepGoes ==
  /\ stepping /\ stepping' = FALSE
  /\ carried' = IF once = Absent THEN carried ELSE [carried EXCEPT ![once.no] = @ \cup {turn}]
  /\ UNCHANGED <<hookVars, turn, submitting, early, betweenVars, daemonVars, left>>

(* Mutated form: the one-shot stays until its prompt's submit settles. *)
TurnCompletes_Kept ==
  /\ turn # Absent /\ ~stepping
  /\ turn' = Absent
  /\ Changed(session, IF once # Absent /\ once.bound /\ submitting = Absent THEN Absent ELSE once)
  /\ UNCHANGED <<sid, clearing, stepping, submitting, carried, early, betweenVars, daemonVars, left>>

(* mainTurnEnded. The engine starts no turn before its hook is through.    *)
TurnCompletes ==
  /\ turn # Absent /\ ~stepping
  /\ turn' = Absent
  /\ Changed(session, IF once # Absent /\ once.bound THEN Absent ELSE once)
  /\ UNCHANGED <<sid, clearing, stepping, submitting, carried, early, betweenVars, daemonVars, left>>

(* /clear: overridesDropped ahead of session.end. No turn is under way.    *)
OverridesDropped ==
  /\ clearing = "no" /\ turn = Absent /\ Spend("clear")
  /\ clearing' = "ended"
  /\ Changed(Unset, Absent)
  /\ UNCHANGED <<sid, engineVars, betweenVars, daemonVars>>

IdChanges ==
  /\ clearing = "ended"
  /\ clearing' = "changed" /\ sid' = sid + 1
  /\ UNCHANGED <<session, once, queued, engineVars, betweenVars, daemonVars, left>>

(* command.run: a sidecar of another id is replaced, with the lines it     *)
(* had, and the facts are sent (replaceSidecar, sessionBegan).             *)
CommandRun ==
  /\ clearing = "changed"
  /\ clearing' = "no" /\ queued' = TRUE
  /\ \/ carrier = sid /\ UNCHANGED <<carrier, link, lines>>
     \/ carrier # sid /\ carrier' = sid /\ link' = Absent /\ lines' = <<>>
  /\ UNCHANGED <<sid, session, once, engineVars, missed, postVars, up, filed, held, states, tab, left>>

(* The module is loaded anew: session.start sends the facts. What the old  *)
(* one was about to send is left, what it sent may still arrive.           *)
ModuleReloads ==
  /\ Spend("reload")
  /\ session' = Unset /\ once' = Absent /\ queued' = TRUE
  /\ stepping' = FALSE /\ submitting' = Absent
  /\ carrier' = Absent /\ link' = Absent /\ lines' = <<>>
  /\ posts' = [k \in DOMAIN posts |-> [posts[k] EXCEPT !.left = TRUE]]
  /\ UNCHANGED <<sid, clearing, turn, carried, early, missed, unheard, up, filed, held, states, tab>>

-----------------------------------------------------------------------------
(* The facts on their way.                                                 *)

(* Facts whose `at` was read last stand last. left: of a module that was   *)
(* reloaded since. late: the sessions of which facts put together later    *)
(* are held.                                                               *)
Post(kind, to, life) ==
  [kind |-> kind, step |-> "timed", left |-> FALSE, vals |-> Absent, to |-> to, life |-> life, late |-> {}]

(* sendFacts: behind any send still running, and a change after that       *)
(* queues another.                                                         *)
SendStarts ==
  /\ queued
  /\ \A k \in DOMAIN posts : posts[k].kind = "reply" \/ posts[k].left
  /\ queued' = FALSE
  /\ posts' = Append(posts, Post("send", Absent, Life)) /\ unheard' = FALSE
  /\ UNCHANGED <<sid, clearing, session, once, engineVars, carrier, lineVars, daemonVars, left>>

(* currentFacts: the values are read after the clock.                      *)
Composes(k) ==
  /\ posts[k].step = "timed" /\ ~posts[k].left
  /\ posts' = [posts EXCEPT ![k].vals = ValuesOf(session, once),
                            ![k].step = IF posts[k].kind = "send" THEN "composed" ELSE "going"]
  /\ UNCHANGED <<hookVars, engineVars, carrier, lineVars, unheard, daemonVars, left>>

(* daemonOp: a send is asked as the session's id by then (helloOf).        *)
Goes(k) ==
  /\ posts[k].step = "composed" /\ ~posts[k].left
  /\ posts' = [posts EXCEPT ![k].to = sid, ![k].step = "going"]
  /\ UNCHANGED <<hookVars, engineVars, carrier, lineVars, unheard, daemonVars, left>>

(* RequestOverrideStates.take: the tabs are told of the overrides that     *)
(* changed.                                                                *)
TabAfter(i, vals) ==
  IF tab = Absent THEN Absent
  ELSE [tab EXCEPT ![i] =
         IF states[i] = Absent \/ @ = Absent THEN vals
         ELSE [t \in {"session", "once"} |-> IF states[i][t] = vals[t] THEN @[t] ELSE vals[t]]]

(* Without the post at k; those before it are late for session i.          *)
Landed(k, i) ==
  RemoveAt([m \in DOMAIN posts |-> IF m < k THEN [posts[m] EXCEPT !.late = @ \cup i] ELSE posts[m]], k)

(* A send is taken under the id in the session's state file (sessionOf), a *)
(* reply for the request that waits for it under an id the process had     *)
(* (PeerSessions); and no facts that are older than those held             *)
(* (takeSessionFacts).                                                     *)
Taken(p) ==
  /\ IF p.kind = "reply" THEN p.life = Life /\ p.to <= filed ELSE p.to = filed
  /\ p.to \notin p.late

(* The post at k comes to nothing for the session: no other will tell of   *)
(* what it held.                                                           *)
Unheard(k) == unheard \/ (k = Len(posts) /\ sid \notin posts[k].late)

Lands(k) ==
  /\ posts[k].step = "going" /\ up
  /\ LET p == posts[k]
     IN IF Taken(p)
        THEN /\ states' = [states EXCEPT ![p.to] = p.vals]
             /\ tab' = TabAfter(p.to, p.vals)
             /\ posts' = Landed(k, {p.to})
             /\ unheard' = IF p.to = sid THEN unheard ELSE Unheard(k)
        ELSE posts' = Landed(k, {}) /\ unheard' = Unheard(k) /\ UNCHANGED <<states, tab>>
  /\ UNCHANGED <<hookVars, engineVars, carrier, lineVars, up, filed, link, held, left>>

(* No daemon, no answer in time, an HTTP error (daemonOp), a reply that    *)
(* comes too late, or a module that is gone; nothing of it is sent again.  *)
NotSent(k) ==
  /\ posts[k].step = "going" \/ posts[k].left
  /\ posts' = RemoveAt(posts, k) /\ unheard' = Unheard(k)
  /\ UNCHANGED <<hookVars, engineVars, carrier, lineVars, daemonVars, left>>

(* The engine writes the new id to the session's state file.               *)
FileFollows ==
  /\ filed < sid /\ filed' = sid
  /\ UNCHANGED <<hookVars, engineVars, betweenVars, up, link, held, states, tab, left>>

-----------------------------------------------------------------------------
(* The sidecar and its lines.                                              *)

(* Without the line at k, and with those before it marked as overtaken.    *)
Overtaken(k) ==
  RemoveAt([m \in DOMAIN lines |-> IF m < k /\ lines[m].op = "set" THEN [lines[m] EXCEPT !.late = TRUE]
                                   ELSE lines[m]], k)

(* answer, replyTo: a line is run. Each was written on a connection of its *)
(* own (callSidecar), so they come in any order.                           *)
RunsLine(k) ==
  /\ LET line == lines[k]
     IN IF line.op = "set"
        THEN /\ Set(line.over, line.clear)
             /\ lines' = Overtaken(k) /\ missed' = (missed \/ line.late)
             /\ UNCHANGED postVars
        ELSE /\ posts' = Append(posts, Post("reply", carrier, line.life)) /\ unheard' = FALSE
             /\ lines' = RemoveAt(lines, k)
             /\ UNCHANGED <<session, once, queued, missed>>
  /\ UNCHANGED <<sid, clearing, engineVars, carrier, daemonVars, left>>

(* A write that ends not written or uncertain is not made again            *)
(* (sendRequestOverride, askSessionFacts).                                 *)
LineLost(k) ==
  /\ lines' = RemoveAt(lines, k)
  /\ IF lines[k].op = "set"
     THEN /\ missed' = (missed \/ (~lines[k].late /\ \A m \in DOMAIN lines : m > k => lines[m].op # "set"))
          /\ UNCHANGED unheard
     ELSE unheard' = TRUE /\ UNCHANGED missed
  /\ UNCHANGED <<hookVars, engineVars, carrier, posts, daemonVars, left>>

SidecarDies ==
  /\ carrier # Absent /\ Spend("death")
  /\ carrier' = Absent /\ lines' = <<>> /\ link' = Absent
  /\ UNCHANGED <<hookVars, engineVars, missed, postVars, up, filed, held, states, tab>>

SidecarRespawns ==
  /\ carrier = Absent
  /\ carrier' = sid
  /\ UNCHANGED <<hookVars, engineVars, lineVars, postVars, daemonVars, left>>

AskLine == [op |-> "facts", life |-> Life]
SetLine(over, clear) == [op |-> "set", over |-> over, clear |-> clear, late |-> FALSE]

(* Mutated form: the override is not handed over again. *)
Named_NoResend ==
  /\ up /\ carrier # Absent /\ link = Absent
  /\ link' = carrier
  /\ lines' = Append(lines, AskLine)
  /\ UNCHANGED <<hookVars, engineVars, carrier, missed, postVars, up, filed, held, states, tab, left>>

(* sidecar_hello: the run is named; its facts are asked for, and the       *)
(* override of its session is handed over if there is one.                 *)
Named ==
  /\ up /\ carrier # Absent /\ link = Absent
  /\ link' = carrier
  /\ IF held[carrier] = Unset
     THEN lines' = Append(lines, AskLine) /\ UNCHANGED missed
     ELSE lines' = lines \o <<AskLine, SetLine(held[carrier], {})>> /\ missed' = FALSE
  /\ UNCHANGED <<hookVars, engineVars, carrier, postVars, up, filed, held, states, tab, left>>

-----------------------------------------------------------------------------
(* The daemon and a person at a tab.                                       *)

Patched(over, patch) ==
  [f \in Fields |-> IF f \notin DOMAIN patch THEN over[f]
                    ELSE IF patch[f] = Null THEN Absent ELSE patch[f]]

(* request_override: held, and handed whole to the run of that id.         *)
Change(i, patch) ==
  /\ up /\ tab # Absent /\ Spend("change")
  /\ held' = [held EXCEPT ![i] = Patched(@, patch)]
  /\ \/ link = i /\ lines' = Append(lines, SetLine(held'[i], DOMAIN patch)) /\ missed' = FALSE
     \/ link # i /\ UNCHANGED lineVars
  /\ UNCHANGED <<hookVars, engineVars, carrier, postVars, up, filed, link, states, tab>>

(* shutdownDaemon, or its end: what it held was its memory's.              *)
DaemonStops ==
  /\ up /\ Spend("stop")
  /\ up' = FALSE /\ link' = Absent
  /\ held' = [i \in Ids |-> Unset] /\ states' = [i \in Ids |-> Absent] /\ tab' = Absent
  /\ posts' = [k \in DOMAIN posts |-> [posts[k] EXCEPT !.late = {}]]
  /\ UNCHANGED <<hookVars, engineVars, carrier, lineVars, unheard, filed>>

DaemonStarts ==
  /\ ~up /\ up' = TRUE
  /\ UNCHANGED <<hookVars, engineVars, betweenVars, filed, link, held, states, tab, left>>

(* A tab subscribes again and is sent every session's (snapshot).          *)
Subscribes ==
  /\ up /\ tab = Absent
  /\ tab' = states
  /\ UNCHANGED <<hookVars, engineVars, betweenVars, up, filed, link, held, states, left>>

-----------------------------------------------------------------------------
Losses == (\E k \in DOMAIN posts : NotSent(k)) \/ (\E k \in DOMAIN lines : LineLost(k))
Arrivals ==
  \/ \E k \in DOMAIN posts : Composes(k) \/ Goes(k) \/ Lands(k)
  \/ \E k \in DOMAIN lines : RunsLine(k)
Progress ==
  \/ IdChanges \/ CommandRun \/ FileFollows \/ SendStarts \/ Arrivals \/ Losses
  \/ SidecarRespawns \/ Named \/ DaemonStarts \/ Subscribes

OverrideNext ==
  \/ Progress
  \/ PromptSubmitting \/ PromptSubmitSettled
  \/ TurnStarts \/ StepBegins \/ StepGoes \/ TurnCompletes \/ OverridesDropped
  \/ ModuleReloads \/ SidecarDies \/ DaemonStops
  \/ \E i \in 1..sid, patch \in Patches : Change(i, patch)

OverrideSpec == OverrideInit /\ [][OverrideNext]_overrideVars

(* What is sent arrives or fails, the sidecar is kept, a daemon is started *)
(* again. Nothing is assumed of the person and of the engine's turns.      *)
OverrideFairSpec == OverrideSpec /\ WF_overrideVars(Progress)

-----------------------------------------------------------------------------
(* Properties.                                                             *)

(* "Intent survives in a module started again" (sidecar_hello): whichever  *)
(* sidecars, modules and daemons were lost on the way, the override the    *)
(* daemon holds for the session is in the end the module's, unless the     *)
(* newest line with it was lost or overtaken and no hello handed it over   *)
(* again.                                                                  *)
HeldIsApplied == <>[](~missed /\ held[sid] # Unset => session = held[sid])

(* A one-shot override is one turn's only, whether its prompt starts the   *)
(* turn, joins a running one or comes between two (mainTurnMoved,          *)
(* mainTurnEnded). One that is armed while a request waits for its hooks   *)
(* goes with that request before it is bound, and then at most with one    *)
(* turn more.                                                              *)
OneTurnOnly ==
  \A n \in DOMAIN OneShots : Cardinality(carried[n]) <= IF n \in early THEN 2 ELSE 1

(* The tabs show in the end what the module puts on the requests: sends    *)
(* are coalesced, cross with replies, with restarts of the daemon and the  *)
(* module and with a change of the id, and all but the newest may fail.    *)
(* When the newest is lost or refused, or the daemon's request for it,     *)
(* nothing is said until facts are next put together.                      *)
ShownInTheEnd == <>[](~unheard => tab # Absent /\ tab[sid] = ValuesOf(session, once))
=============================================================================
