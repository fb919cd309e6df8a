---------------------------- MODULE MCWsChannels ----------------------------
(* WsChannels for TLC. *)
EXTENDS WsChannels
=============================================================================
