--------------------------- MODULE MCVoiceSession ---------------------------
(***************************************************************************)
(* A small call for TLC.                                                   *)
(***************************************************************************)
EXTENDS VoiceProperties

SomeChunks == {{}, {"audio", "text"}, {"audio", "text", "transcript"}}
=============================================================================
