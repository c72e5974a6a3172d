---------------------------- MODULE MCCombinators ----------------------------
(***************************************************************************)
(* Two coroutines, each awaiting one combinator with two branches.         *)
(***************************************************************************)
EXTENDS Combinators

CONSTANTS p1, p2

MCParent == {p1, p2}
MCKinds == {"any", "all", "link"}
MCWays == {"timer", "yield", "aio", "ready"}
==============================================================================
