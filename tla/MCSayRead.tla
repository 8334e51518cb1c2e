------------------------------ MODULE MCSayRead ------------------------------
(* Two sessions, three says, three requests.                                *)
EXTENDS SayRead, TLC

CONSTANTS s1, s2, x1, x2, x3, q1, q2, q3

MCSessionOf == (x1 :> s1) @@ (x2 :> s1) @@ (x3 :> s2)
MCSymmetry == Permutations({q1, q2, q3}) \cup Permutations({x1, x2})
=============================================================================
