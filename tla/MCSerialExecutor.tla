--------------------------- MODULE MCSerialExecutor ---------------------------
(***************************************************************************)
(* Three callers, two of which call serial() up to twice.                  *)
(***************************************************************************)
EXTENDS SerialExecutor

CONSTANTS c1, c2, c3

MCCaller == {c1, c2, c3}
MCMaxCalls == [c \in MCCaller |-> IF c = c3 THEN 1 ELSE 2]
===============================================================================
