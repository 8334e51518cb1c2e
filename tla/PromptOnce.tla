------------------------------ MODULE PromptOnce ------------------------------
(***************************************************************************)
(* What user_prompt promises the person who sends a prompt (DR-0035,        *)
(* UserPromptOutcome): "accepted" is said of a text that is in;             *)
(* "not_delivered" is said of one that is not and never will be, so that    *)
(* sending it again is safe; anything else is "unconfirmed". A prompt a     *)
(* module reported wrong of is out of the promise: what the person is told  *)
(* is what the module said.                                                 *)
(***************************************************************************)
CONSTANTS Prompts, None

VARIABLES
  in,      (* the prompts whose text is in the session                     *)
  lapsed,  (* the prompts a module reported wrong of                       *)
  answer   (* what the person was told of each prompt                      *)

vars == <<in, lapsed, answer>>

Outcomes == {"accepted", "not_delivered", "unconfirmed"}

Init ==
  /\ in = {} /\ lapsed = {}
  /\ answer = [p \in Prompts |-> None]

(* A module's word of p turns out wrong.                                   *)
Lapse(p) ==
  /\ lapsed' = lapsed \cup {p}
  /\ in' \in {in, in \cup {p}}
  /\ UNCHANGED answer

Enter(p) ==
  /\ p \notin in
  /\ answer[p] \in {"accepted", "not_delivered"} => p \in lapsed
  /\ in' = in \cup {p}
  /\ UNCHANGED <<lapsed, answer>>

Tell(p, outcome) ==
  /\ answer[p] = None
  /\ outcome = "accepted" => p \in in \cup lapsed
  /\ outcome = "not_delivered" => p \notin in \ lapsed
  /\ answer' = [answer EXCEPT ![p] = outcome]
  /\ UNCHANGED <<in, lapsed>>

Next == \E p \in Prompts : Lapse(p) \/ Enter(p) \/ \E o \in Outcomes : Tell(p, o)

Spec == Init /\ [][Next]_vars
=============================================================================
