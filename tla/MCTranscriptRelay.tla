--------------------------- MODULE MCTranscriptRelay ---------------------------
(* TranscriptRelay at a size TLC explores whole: the bounds are in the      *)
(* configurations.                                                          *)
EXTENDS TranscriptRelay
=============================================================================
