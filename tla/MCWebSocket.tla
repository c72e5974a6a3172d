----------------------------- MODULE MCWebSocket -----------------------------
(***************************************************************************)
(* Two ends with two messages each; the client is another program's, the   *)
(* server has a second coroutine that sends.                               *)
(***************************************************************************)
EXTENDS WebSocket

MCForeign == {"client"}
MCBroadcasting == {"server"}
==============================================================================
