---------------------------- MODULE MCPromptSend ----------------------------
(* A prompt and a bash mode command, or two prompts.                        *)
EXTENDS PromptSend, TLC

CONSTANTS a, b, ta, tb

MCText == (a :> ta) @@ (b :> tb)
MCSameText == (a :> ta) @@ (b :> ta)
=============================================================================
