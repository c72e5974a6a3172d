----------------------------- MODULE MCHttpClient -----------------------------
(***************************************************************************)
(* Four calls of one client, on descriptors that are given out again.     *)
(***************************************************************************)
EXTENDS HttpClient

MCOps == {"request", "requestClose", "upload", "connect", "close"}
MCMayFail == {"resolve", "socket", "connect", "handshake"}
===============================================================================
