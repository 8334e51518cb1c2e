---------------------------- MODULE MCSessionWake ----------------------------
(* Two requests, of sessions or of the wake, to two sessions of two         *)
(* processes.                                                               *)
EXTENDS SessionWake, TLC

CONSTANTS s1, s2, r1, r2

ServesDef == r1 :> s1 @@ r2 :> s2
AsksDef ==
  {[from |-> s2, to |-> {s1, s2}, byId |-> FALSE, notice |-> FALSE],
   [from |-> s1, to |-> {s1}, byId |-> TRUE, notice |-> TRUE]}
=============================================================================
