-------------------------- MODULE MCVoiceReconnect --------------------------
(* Instances of VoiceReconnect for TLC. *)
EXTENDS VoiceReconnect

CONSTANTS heartbeat, clock
=============================================================================
