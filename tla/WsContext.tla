------------------------------ MODULE WsContext ------------------------------
(***************************************************************************)
(* The context of the web-socket client (wsclient_context), as far as its  *)
(* receiving side and the session loop both keep it: WsReceive follows one *)
(* open connection byte by byte, WsSession the connections of all sessions *)
(* message by message.                                                     *)
(***************************************************************************)

VARIABLE readyState     \* of the context in use
=============================================================================
