---------------------------- MODULE MCUserPrompt ----------------------------
(* Two prompts to a session of two runs.                                    *)
EXTENDS UserPrompt, TLC

CONSTANTS p1, p2, r1, r2
=============================================================================
