---------------------------- MODULE MCVoiceTurn ----------------------------
(***************************************************************************)
(* A small instance of VoiceTurn: two sockets that may be open together.   *)
(***************************************************************************)
EXTENDS VoiceTurn
============================================================================
