----------------------------- MODULE FileServing -----------------------------
(***************************************************************************)
(* A server of files: endpoints are added, the router finds the one of a   *)
(* request, and the endpoint of a template that ends with "**" sends the   *)
(* file through useRangeTransferFile (server/ConnectionHandler.hpp, and    *)
(* the endpoints of README.md).                                            *)
(***************************************************************************)
EXTENDS Router, RangeTransfer

CONSTANTS
  Paths,        \* paths a request may ask for, without their query
  Methods       \* methods of requests

ASSUME ServingAssumption == Paths \subseteq Seq(Segment) /\ Methods \subseteq Segment

VARIABLES
  phase,        \* "setup", then "serve"
  request,      \* the request being answered: its method, path and query
  route,        \* the template of the endpoint found, None for the 404 endpoint
  data, rest    \* what the endpoint gets: the parameters, and the rest of the path

vars == <<routerVars, transferVars, phase, request, route, data, rest>>

NoRequest == [method |-> "", path |-> <<>>, query |-> FALSE]

Init ==
  /\ RouterInit /\ TransferInit
  /\ phase = "setup" /\ request = NoRequest /\ route = None /\ data = <<>> /\ rest = <<>>

(* ConnectionHandler gives the router the path with its query: behind a    *)
(* slash the query is a segment of its own.                                *)
FindLink(r) == <<r.method>> \o r.path \o (IF r.query THEN <<Query>> ELSE <<>>)

Setup ==
  /\ phase = "setup"
  /\ \/ \E t \in Template : AddEndpoint(t) /\ UNCHANGED phase
     \/ phase' = "serve" /\ UNCHANGED routerVars
  /\ UNCHANGED <<transferVars, request, route, data, rest>>

ServesFile(t) == t # None /\ Last(t) = Rest

(* Bound: one request, since only the tree and the file outlive one.       *)
Request(method, path, query) ==
  /\ phase = "serve" /\ request = NoRequest
  /\ request' = [method |-> method, path |-> path, query |-> query]
  /\ route' = Find[<< <<>>, FindLink(request') >>]
  /\ data' = IF route' = None THEN <<>> ELSE WildcarData(route', path)
  /\ rest' = IF route' = None THEN <<>> ELSE UrlWildcard(route', path)
  /\ \/ /\ ServesFile(route')
        /\ \E ranges \in Ranges \cup {<<>>} : BeginTransfer(method, ranges)
     \/ ~ServesFile(route') /\ UNCHANGED transferVars
  /\ UNCHANGED <<routerVars, phase>>

Serve ==
  /\ TransferStep \/ FileChanges
  /\ UNCHANGED <<routerVars, phase, request, route, data, rest>>

Next ==
  \/ Setup
  \/ \E m \in Methods, p \in Paths, q \in BOOLEAN : Request(m, p, q)
  \/ Serve

Spec == Init /\ [][Next]_vars

-----------------------------------------------------------------------------
(* Properties. *)

(* A template fits a link: every segment is equal or a parameter, and "**" *)
(* stands for one or more.                                                 *)
Fits(t, l) ==
  LET n == IF Last(t) = Rest THEN Len(t) - 1 ELSE Len(t)
  IN  /\ IF Last(t) = Rest THEN Len(l) > n ELSE Len(l) = n
      /\ \A i \in 1..n : t[i] \in Param \cup {l[i]}

Rank(s) == IF s = Rest THEN 3 ELSE IF s \in Param THEN 2 ELSE 1

(* Of two templates the one with the more specific segment at the first    *)
(* place they differ in kind is better.                                    *)
Better(t, u) ==
  \E i \in DOMAIN t \cap DOMAIN u :
     /\ Rank(t[i]) < Rank(u[i])
     /\ \A j \in 1..i - 1 : Rank(t[j]) = Rank(u[j])

(* The endpoint of a request is that of the best template that fits it,    *)
(* and of templates that differ in the names of parameters only, of the    *)
(* one added last; without a template that fits it is the 404 endpoint.    *)
(* A search that does not come back from a literal child, or that prefers  *)
(* another order, breaks it for some set of templates.                     *)
FindsBest ==
  LET l == FindLink(request)
      fits == {i \in DOMAIN added : Fits(added[i], l)}
      best == {i \in fits : \A j \in fits : ~Better(added[j], added[i])}
  IN  request # NoRequest => route = IF fits = {} THEN None ELSE added[Max(best)]

(* The template with its parameters and "**" filled in is the path of the  *)
(* request: the endpoint gets every parameter from its own place.  A query *)
(* behind a slash, which the router takes for a segment and the endpoint   *)
(* does not have, is left out.                                             *)
ParamsRebuildPath ==
  route # None /\ ~request.query =>
    LET fixed == IF Last(route) = Rest THEN Front(route) ELSE route
        nth(i) == Cardinality({j \in 1..i : fixed[j] \in Param})
        filled == [i \in DOMAIN fixed |->
                     IF fixed[i] \in Param THEN data[nth(i)] ELSE fixed[i]]
    IN  <<request.method>> \o request.path = filled \o rest
=============================================================================
