------------------------------- MODULE Router -------------------------------
(***************************************************************************)
(* The route tree of HX::net::Router (router/Router.hpp, RouterTree.hpp):  *)
(* templates are inserted one after the other, a later one may replace an  *)
(* earlier, and a request is looked up with backtracking.  The endpoint    *)
(* found gets the parameters its template names (RequestParsing.hpp).      *)
(*                                                                         *)
(* A path is the sequence of its non-empty segments.  A template's         *)
(* segments are literals, members of Param ("{id}") or "**"; its first is  *)
(* the method, as in the link the code builds.                             *)
(***************************************************************************)
EXTENDS Integers, Sequences, SequencesExt

CONSTANTS
  Segment,      \* what may stand between two slashes
  Template,     \* the templates a program may add, each with its method in front
  Param,        \* the segments that begin with "{"
  MaxAdded      \* bound: templates added

Rest == "**"
Wild == "*"
Query == "?q"   \* a query behind a slash: a segment of its own for the router

ASSUME RouterAssumption ==
  /\ \A t \in Template : t # <<>> /\ t[1] \notin Param \cup {Rest}
  /\ \A t \in Template : Rest \in ToSet(t) => Last(t) = Rest
  /\ Template \subseteq Seq(Segment) /\ Param \cup {Rest, Wild, Query} \subseteq Segment
  /\ {Rest, Wild} \cap Param = {} /\ MaxAdded \in Nat

VARIABLES
  nodes,      \* the nodes of the tree, each as the path of keys from the root
  val,        \* the endpoint of the nodes that have one, as its template
  added       \* history: the templates added, in order

routerVars == <<nodes, val, added>>

RouterInit == nodes = {<<>>} /\ val = << >> /\ added = <<>>

-----------------------------------------------------------------------------
(* RouterTree::insert: "{...}" is stored as "*".                           *)
Key(s) == IF s \in Param THEN Wild ELSE s
Link(t) == [i \in DOMAIN t |-> Key(t[i])]

(* The endpoint of a node that was there is replaced.                      *)
Insert(t) ==
  /\ nodes' = nodes \cup Prefixes(Link(t))
  /\ val' = [l \in DOMAIN val \cup {Link(t)} |-> IF l = Link(t) THEN t ELSE val[l]]

AddEndpoint(t) ==
  /\ Len(added) < MaxAdded
  /\ Insert(t)
  /\ added' = Append(added, t)

None == <<>>
ValueAt(l) == IF l \in DOMAIN val THEN val[l] ELSE None

(* RouterTree::_find: the segment itself, then "*", each with everything   *)
(* below it, then "**".                                                    *)
TriesLiteralOnlyIfThere(l, s) ==   \* Mutant: no way back from a literal child
  IF Append(l, s) \in nodes THEN <<s>> ELSE <<Wild>>
Tries(l, s) == <<s, Wild>>

Find[at \in Seq(Segment) \X Seq(Segment)] ==   \* <<a node, what is left of the path>>
  LET l == at[1]
      path == at[2]
      below(k) == IF Append(l, k) \in nodes THEN Find[<<Append(l, k), Tail(path)>>] ELSE None
      ks == Tries(l, Head(path))
      hit == SelectInSeq(ks, LAMBDA k : below(k) # None)
  IN  IF path = <<>> THEN ValueAt(l)
      ELSE IF hit # 0 THEN below(ks[hit]) ELSE ValueAt(Append(l, Rest))

-----------------------------------------------------------------------------
(* What _addEndpoint prepares for the endpoint of a template: the indices  *)
(* of its parameters and of "**" in the path without the method and        *)
(* without the query.  An index past the end reads outside the array.      *)

IndexArrWithMethod(t) ==   \* Mutant: the indices of the link, not of the path
  LET upTo[i \in 0..Len(t)] ==
        IF i = 0 THEN <<>> ELSE IF t[i] \in Param THEN Append(upTo[i - 1], i) ELSE upTo[i - 1]
  IN  upTo[Len(t)]
IndexArr(t) ==
  LET upTo[i \in 0..Len(t) - 1] ==
        IF i = 0 THEN <<>> ELSE IF t[i + 1] \in Param THEN Append(upTo[i - 1], i) ELSE upTo[i - 1]
  IN  upTo[Len(t) - 1]

Outside == "outside"
WildcarData(t, path) ==
  [j \in DOMAIN IndexArr(t) |->
     IF IndexArr(t)[j] \in DOMAIN path THEN path[IndexArr(t)[j]] ELSE Outside]

UrlWildcard(t, path) ==
  IF Last(t) = Rest THEN SubSeq(path, Len(t) - 1, Len(path)) ELSE <<>>
=============================================================================
