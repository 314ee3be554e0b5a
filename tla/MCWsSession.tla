---------------------------- MODULE MCWsSession -----------------------------
(* Small instances of WsSession: constants are given in the configurations. *)
EXTENDS WsSession
=============================================================================
