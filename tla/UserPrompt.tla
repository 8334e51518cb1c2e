------------------------------ MODULE UserPrompt ------------------------------
(***************************************************************************)
(* user_prompt in the daemon (packages/daemon/src/user-prompt.ts) with the  *)
(* requests and replies it goes through (sidecar-call.ts): the live runs of *)
(* the session are asked one at a time until one took the text or may have. *)
(*                                                                          *)
(* The module at the other end is taken at its word as far as it keeps it:  *)
(* a text that is answered not_delivered is out, one that is accepted is    *)
(* in, any other may go in at any time. Where PromptSend shows the word     *)
(* broken (what NotDeliveredIsOut and AcceptedIsIn leave out: an Enter      *)
(* within a put-back, a request accepted into another session or of an      *)
(* edited command) the module lapses, which is kept in lapsed.              *)
(***************************************************************************)
EXTENDS Integers, FiniteSets

CONSTANTS
  Prompts,   (* the user_prompts                                           *)
  Runs,      (* the runs of the session                                    *)
  None

Ids == Prompts \X Runs      (* callSidecar's id: one per prompt and run    *)

(* A module's reply. "try_next" is a not_delivered whose reason is in      *)
(* TRY_NEXT, "refused" one of another reason, "unconfirmed" also the reply *)
(* that is an error or is not of prompt.send's shape.                      *)
Replies == {"accepted", "try_next", "refused", "unconfirmed"}
Outcomes == {"accepted", "not_delivered", "unconfirmed"}

ASSUME NoneAssumption ==
  None \notin Outcomes /\ None \notin Replies /\ None \notin Runs

VARIABLES
  (* the daemon *)
  pc,        (* where each user_prompt is                                  *)
  left,      (* the runs of its snapshot of liveOf that it did not ask yet *)
  asking,    (* the run it asks                                            *)
  waiting,   (* SidecarReplies: "closed", "open", or the reply it took     *)
  answer,    (* what the person is told                                    *)
  (* the socket and the module of each run *)
  line,      (* the line of a request: "none", "sent" or "read"            *)
  reply,     (* what the module says of a request, or None                 *)
  arrived,   (* the requests whose reply reached the daemon                *)
  text,      (* the requests whose text is in the session                  *)
  lapsed     (* history: the requests whose text is not where their module *)
             (* said it is                                                 *)

daemonVars == <<pc, left, asking, waiting, answer>>
moduleVars == <<line, reply, arrived, text, lapsed>>
vars == <<daemonVars, moduleVars>>

TypeOK ==
  /\ pc \in [Prompts -> {"idle", "loop", "write", "wait", "done"}]
  /\ left \in [Prompts -> SUBSET Runs]
  /\ asking \in [Prompts -> Runs \cup {None}]
  /\ waiting \in [Ids -> Replies \cup {"closed", "open"}]
  /\ answer \in [Prompts -> Outcomes \cup {None}]
  /\ line \in [Ids -> {"none", "sent", "read"}]
  /\ reply \in [Ids -> Replies \cup {None}]
  /\ arrived \subseteq Ids
  /\ text \subseteq Ids
  /\ lapsed \subseteq Ids

Init ==
  /\ pc = [p \in Prompts |-> "idle"]
  /\ left = [p \in Prompts |-> {}]
  /\ asking = [p \in Prompts |-> None]
  /\ waiting = [i \in Ids |-> "closed"]
  /\ answer = [p \in Prompts |-> None]
  /\ line = [i \in Ids |-> "none"]
  /\ reply = [i \in Ids |-> None]
  /\ arrived = {}
  /\ text = {}
  /\ lapsed = {}

-----------------------------------------------------------------------------
(* The daemon.                                                             *)

Id(p) == <<p, asking[p]>>

Told(p, outcome) ==
  /\ answer' = [answer EXCEPT ![p] = outcome]
  /\ pc' = [pc EXCEPT ![p] = "done"]

Begin(p) ==
  /\ pc[p] = "idle"
  /\ \E live \in SUBSET Runs : left' = [left EXCEPT ![p] = live]
  /\ pc' = [pc EXCEPT ![p] = "loop"]
  /\ UNCHANGED <<asking, waiting, answer, moduleVars>>

(* The next run is asked: the id is open before the line is written.       *)
Ask(p) ==
  /\ pc[p] = "loop"
  /\ \E r \in left[p] :
       /\ left' = [left EXCEPT ![p] = @ \ {r}]
       /\ asking' = [asking EXCEPT ![p] = r]
       /\ waiting' = [waiting EXCEPT ![<<p, r>>] = "open"]
       /\ line' = [line EXCEPT ![<<p, r>>] = "sent"]
  /\ pc' = [pc EXCEPT ![p] = "write"]
  /\ UNCHANGED <<answer, reply, arrived, text, lapsed>>

(* The deadline passed between two runs.                                   *)
LoopExpires(p) ==
  /\ pc[p] = "loop" /\ left[p] # {}
  /\ Told(p, "unconfirmed")
  /\ UNCHANGED <<left, asking, waiting, moduleVars>>

(* Every run was asked. The reason (the last a run gave, or whether the    *)
(* session moved on) is left out.                                          *)
LoopEnds(p) ==
  /\ pc[p] = "loop" /\ left[p] = {}
  /\ Told(p, "not_delivered")
  /\ UNCHANGED <<left, asking, waiting, moduleVars>>

(* writeSocket: nothing of the line reached the sidecar.                   *)
NotWritten(p) ==
  /\ pc[p] = "write"
  /\ line[Id(p)] = "sent"
  /\ line' = [line EXCEPT ![Id(p)] = "none"]
  /\ waiting' = [waiting EXCEPT ![Id(p)] = "closed"]
  /\ pc' = [pc EXCEPT ![p] = "loop"]
  /\ UNCHANGED <<left, asking, answer, reply, arrived, text, lapsed>>

(* The line went in, or may have: an uncertain write may have lost it, and *)
(* so may a sidecar that dies with it.                                     *)
Written(p) ==
  /\ pc[p] = "write"
  /\ pc' = [pc EXCEPT ![p] = "wait"]
  /\ \/ UNCHANGED line
     \/ line[Id(p)] = "sent" /\ line' = [line EXCEPT ![Id(p)] = "none"]
  /\ UNCHANGED <<left, asking, waiting, answer, reply, arrived, text, lapsed>>

(* Mutated form: no reply in time lets the next run be asked. *)
WaitExpires_TryNext(p) ==
  /\ pc[p] = "wait" /\ waiting[Id(p)] = "open"
  /\ waiting' = [waiting EXCEPT ![Id(p)] = "closed"]
  /\ pc' = [pc EXCEPT ![p] = "loop"]
  /\ UNCHANGED <<left, asking, answer, moduleVars>>

(* Mutated form: nothing bounds the wait. *)
WaitExpires_Never(p) == FALSE /\ UNCHANGED vars

(* No reply came in time.                                                  *)
WaitExpires(p) ==
  /\ pc[p] = "wait" /\ waiting[Id(p)] = "open"
  /\ waiting' = [waiting EXCEPT ![Id(p)] = "closed"]
  /\ Told(p, "unconfirmed")
  /\ UNCHANGED <<left, asking, moduleVars>>

Replied(p) == pc[p] = "wait" /\ waiting[Id(p)] \in Replies

(* Only a run that cannot take input at all lets the next be asked.        *)
TryNext(p) ==
  /\ Replied(p) /\ waiting[Id(p)] = "try_next"
  /\ waiting' = [waiting EXCEPT ![Id(p)] = "closed"]
  /\ pc' = [pc EXCEPT ![p] = "loop"]
  /\ UNCHANGED <<left, asking, answer, moduleVars>>

(* Any other reply decides: the person is told not_delivered when the      *)
(* module refused, and else what it said.                                  *)
Decide(p) ==
  /\ Replied(p) /\ waiting[Id(p)] # "try_next"
  /\ waiting' = [waiting EXCEPT ![Id(p)] = "closed"]
  /\ Told(p, IF waiting[Id(p)] = "refused" THEN "not_delivered" ELSE waiting[Id(p)])
  /\ UNCHANGED <<left, asking, moduleVars>>

(* Mutated form: a reply decides whatever request waits on its run. *)
Take_ByRun(i) ==
  /\ reply[i] # None
  /\ \E j \in Ids : /\ j[2] = i[2] /\ waiting[j] = "open"
                    /\ waiting' = [waiting EXCEPT ![j] = reply[i]]
  /\ arrived' = arrived \cup {i}
  /\ UNCHANGED <<pc, left, asking, answer, line, reply, text, lapsed>>

(* take: a reply that finds its request waiting decides it, the first time *)
(* it comes. One that comes late, or again, changes nothing.               *)
Take(i) ==
  /\ reply[i] # None
  /\ i \notin arrived \/ waiting[i] = "open"
  /\ waiting' = [waiting EXCEPT ![i] = IF @ = "open" THEN reply[i] ELSE @]
  /\ arrived' = arrived \cup {i}
  /\ UNCHANGED <<pc, left, asking, answer, line, reply, text, lapsed>>

-----------------------------------------------------------------------------
(* The module of a run.                                                    *)

ModuleReads(i) ==
  /\ line[i] = "sent"
  /\ line' = [line EXCEPT ![i] = "read"]
  /\ UNCHANGED <<daemonVars, reply, arrived, text, lapsed>>

(* prompt.send ends: the text is in when it says accepted.                 *)
ModuleEnds(i) ==
  /\ line[i] = "read" /\ reply[i] = None
  /\ \E said \in Replies :
       /\ reply' = [reply EXCEPT ![i] = said]
       /\ text' = IF said = "accepted" THEN text \cup {i} ELSE text
  /\ UNCHANGED <<daemonVars, line, arrived, lapsed>>

(* It says accepted of a text that went in elsewhere, or changed.          *)
ModuleMistakes(i) ==
  /\ line[i] = "read" /\ reply[i] = None
  /\ reply' = [reply EXCEPT ![i] = "accepted"]
  /\ lapsed' = lapsed \cup {i}
  /\ UNCHANGED <<daemonVars, line, arrived, text>>

(* A text that could not be confirmed goes in after all.                   *)
TextEnters(i) ==
  /\ reply[i] = "unconfirmed"
  /\ i \notin text
  /\ text' = text \cup {i}
  /\ UNCHANGED <<daemonVars, line, reply, arrived, lapsed>>

(* A text answered not_delivered goes in: an Enter came between the read   *)
(* and the fill of putBackUnsent.                                          *)
TextSlips(i) ==
  /\ reply[i] \in {"try_next", "refused"}
  /\ i \notin text
  /\ text' = text \cup {i}
  /\ lapsed' = lapsed \cup {i}
  /\ UNCHANGED <<daemonVars, line, reply, arrived>>

-----------------------------------------------------------------------------
Handler(p) ==
  \/ Ask(p) \/ LoopExpires(p) \/ LoopEnds(p)
  \/ NotWritten(p) \/ Written(p)
  \/ WaitExpires(p) \/ TryNext(p) \/ Decide(p)

Next ==
  \/ \E p \in Prompts : Begin(p) \/ Handler(p)
  \/ \E i \in Ids : \/ Take(i) \/ ModuleReads(i) \/ ModuleEnds(i) \/ ModuleMistakes(i)
                   \/ TextEnters(i) \/ TextSlips(i)

Spec == Init /\ [][Next]_vars

(* The daemon's timers fire and its writes end (SIDECAR_WRITE_MS).         *)
FairSpec == Spec /\ \A p \in Prompts : WF_vars(Handler(p))

-----------------------------------------------------------------------------
(* Properties.                                                             *)

Copies(p) == {r \in Runs : <<p, r>> \in text}

(* Runs are asked one at a time so that the text never goes in twice       *)
(* (TRY_NEXT, userPrompt), whatever is lost or late: at most one copy is   *)
(* in besides those that slipped in after their module said they were out. *)
AtMostOneCopy ==
  \A p \in Prompts : Cardinality({r \in Copies(p) : <<p, r>> \notin lapsed}) <= 1

(* The promise to the person, as the specification PromptOnce states it:   *)
(* what userPrompt tells of a prompt is so as long as the modules it asked *)
(* told it right, whatever lines, replies and deadlines do.                *)
Once == INSTANCE PromptOnce
  WITH in <- {p \in Prompts : Copies(p) # {}},
       lapsed <- {p \in Prompts : \E r \in Runs : <<p, r>> \in lapsed}
KeepsPromise == Once!Spec

(* Every user_prompt is answered, whatever the runs do (the deadline).     *)
EveryPromptAnswered == \A p \in Prompts : pc[p] = "loop" ~> answer[p] # None
=============================================================================
