---------------------------- MODULE MCReconnect ----------------------------
(* Small instances of Reconnect for TLC. *)
EXTENDS Reconnect
============================================================================
