---------------------------- MODULE MCHttpMessages ----------------------------
(***************************************************************************)
(* Two exchanges; a body is empty or takes two chunks.                     *)
(***************************************************************************)
EXTENDS HttpMessages

MCData == {"x", "y"}
MCNumber == [k \in 0..3 |-> <<"0", "1", "2", "3">>[k + 1]]
MCPayloads == {<<>>, <<"x", "y", "x">>}
MCReqFramings == {"none", "length", "chunked"}
MCResFramings == {"length", "chunked"}
===============================================================================
