----------------------------- MODULE MCHttpServer -----------------------------
(***************************************************************************)
(* A server of two threads with two connections besides those that stop it. *)
(***************************************************************************)
EXTENDS HttpServer

CONSTANTS t1, t2, k1, k2

MCThread == {t1, t2}
MCClient == {k1, k2}
===============================================================================
