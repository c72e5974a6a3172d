------------------------------ MODULE HttpServer ------------------------------
(***************************************************************************)
(* HX::net::HttpServer (net/server/HttpServer.hpp) with its Acceptor and   *)
(* ConnectionHandler: every thread runs an event loop with a listening     *)
(* socket of its own on the same port (SO_REUSEPORT), each connection is   *)
(* a detached coroutine, and the server is stopped by clearing _isRun and  *)
(* requesting "/" until no thread is counted, because a thread looks at    *)
(* _isRun only after an accept.                                            *)
(*                                                                         *)
(* What a request is and does is left out, but for the endpoint that calls *)
(* asyncStop().                                                            *)
(***************************************************************************)
EXTENDS Integers, FiniteSets

CONSTANTS
  Thread,     \* the threads of asyncRun
  Client,     \* connections of other programs
  Owner,      \* the thread that runs and destroys the server
  AsyncStop,  \* the thread of asyncStop()
  RunNums,    \* values of the atomic_uint16_t _runNum
  Resolves,   \* what resolving "0.0.0.0" may give: TRUE, FALSE
  NoThread

ASSUME ServerAssumption ==
  /\ IsFiniteSet(Thread) /\ RunNums \in Nat \ {0} /\ Cardinality(Thread) < RunNums
  /\ Resolves \subseteq BOOLEAN
  /\ Owner \notin Client /\ AsyncStop \notin Client /\ Owner # AsyncStop
  /\ NoThread \notin Thread

Stopper == {Owner, AsyncStop}
Conn == Client \cup Stopper      \* a stopper has one connection at a time

VARIABLES
  isRun, runNum,
  tpc,          \* per thread: where _sync() is
  listening,    \* per thread: its listening socket is open
  conn, at,     \* per connection: its state, the thread that has it
  stop,         \* per stopper: where syncStop() is
  counted       \* history: threads that did ++_runNum before the last return of a stop

connVars == <<conn, at>>
serverVars == <<isRun, runNum, tpc, listening, connVars, stop, counted>>

ServerInit ==
  /\ isRun = TRUE /\ runNum = 0
  /\ tpc = [t \in Thread |-> "none"] /\ listening = [t \in Thread |-> FALSE]
  /\ conn = [c \in Conn |-> "none"] /\ at = [c \in Conn |-> NoThread]
  /\ stop = [s \in Stopper |-> "idle"]
  /\ counted = {}

Open == {"backlog", "reading", "serving", "closing"}
Handled(t) == {c \in Conn : at[c] = t /\ conn[c] \in Open \ {"backlog"}}
ThreadGoes(t, from, to) == tpc[t] = from /\ tpc' = [tpc EXCEPT ![t] = to]

-----------------------------------------------------------------------------
(* The threads: asyncRun and _sync. *)

AsyncRun ==
  /\ stop[Owner] = "idle"
  /\ \A t \in Thread : tpc[t] = "none"
  /\ tpc' = [t \in Thread |-> "start"]
  /\ UNCHANGED <<isRun, runNum, listening, connVars, stop, counted>>

(* ++_runNum comes after resolve; if that throws, --_runNum is still done. *)
CountIn(t) ==
  /\ \E resolved \in Resolves :
       /\ ThreadGoes(t, "start", IF resolved THEN "listen" ELSE "drain")
       /\ runNum' = IF resolved THEN (runNum + 1) % RunNums ELSE runNum
  /\ counted' = IF \E s \in Stopper : stop[s] = "returned" THEN counted ELSE counted \cup {t}
  /\ UNCHANGED <<isRun, listening, connVars, stop>>

(* makeServerFd, which may throw; nobody closes the socket then, but it is *)
(* not listening.                                                          *)
Listen(t) ==
  /\ \/ ThreadGoes(t, "listen", "accept") /\ listening' = [listening EXCEPT ![t] = TRUE]
     \/ ThreadGoes(t, "listen", "drain") /\ UNCHANGED listening
  /\ UNCHANGED <<isRun, runNum, connVars, stop, counted>>

(* _isRun is looked at after the new connection was handed to its handler. *)
AfterAccept(t) == IF isRun THEN "accept" ELSE "close"

Accept(t) ==
  \E c \in Conn :
    /\ conn[c] = "backlog" /\ at[c] = t
    /\ ThreadGoes(t, "accept", AfterAccept(t))
    /\ conn' = [conn EXCEPT ![c] = "reading"]
    /\ UNCHANGED <<isRun, runNum, listening, at, stop, counted>>

(* accept fails: the exception ends the acceptor, whose socket stays open  *)
(* with nobody to accept from it.                                          *)
AcceptFails(t) ==
  /\ ThreadGoes(t, "accept", "drain")
  /\ UNCHANGED <<isRun, runNum, listening, connVars, stop, counted>>

(* Closing the socket resets what is in its backlog.                       *)
CloseListener(t) ==
  /\ ThreadGoes(t, "close", "drain")
  /\ listening' = [listening EXCEPT ![t] = FALSE]
  /\ conn' = [c \in Conn |-> IF conn[c] = "backlog" /\ at[c] = t THEN "closed" ELSE conn[c]]
  /\ UNCHANGED <<isRun, runNum, at, stop, counted>>

(* Mutant: --_runNum is not reached when the acceptor threw.               *)
DecrementedUnlessThrown(t) == IF listening[t] THEN runNum ELSE (runNum - 1) % RunNums

(* An atomic_uint16_t, after the catch.                                    *)
Decremented(t) == (runNum - 1) % RunNums

(* Mutant: the thread is no longer counted once its acceptor has ended.    *)
DrainedAtOnce(t) == TRUE

(* EventLoop::run returns when no handler is left.                         *)
Drained(t) == Handled(t) = {}

CountOut(t) ==
  /\ Drained(t)
  /\ ThreadGoes(t, "drain", "ended")
  /\ runNum' = Decremented(t)
  /\ UNCHANGED <<isRun, listening, connVars, stop, counted>>

-----------------------------------------------------------------------------
(* ConnectionHandler::start. *)

ConnGoes(c, from, to) == conn[c] = from /\ conn' = [conn EXCEPT ![c] = to]
Keep == UNCHANGED <<isRun, runNum, tpc, listening, at, counted>>

(* A connection reaches one of the listening sockets, the kernel chooses.  *)
Arrive(c, t) ==
  /\ listening[t]
  /\ ConnGoes(c, "none", "backlog")
  /\ at' = [at EXCEPT ![c] = t]
  /\ UNCHANGED <<isRun, runNum, tpc, listening, counted>>

ClientConnects(c) == c \in Client /\ (\E t \in Thread : Arrive(c, t)) /\ UNCHANGED stop

RequestRead(c) == ConnGoes(c, "reading", "serving") /\ UNCHANGED stop /\ Keep

(* Every way out of the two try blocks leads to io.close().                *)
AfterFailure == "closing"

(* The peer is gone, or nothing came within Timeout; what the client does  *)
(* is the same to the handler.                                             *)
ReadEnds(c) == ConnGoes(c, "reading", AfterFailure) /\ UNCHANGED stop /\ Keep

(* Mutant: only the header ends a connection.                              *)
KeepsAliveHeader(close) == ~close

(* It is kept alive unless the request says close or the server stops.     *)
KeepsAlive(close) == ~close /\ isRun

(* The endpoint returns.  A stopper's request has "Connection: close".     *)
Served(c) ==
  /\ \E close \in (IF c \in Stopper THEN {TRUE} ELSE BOOLEAN) :
       ConnGoes(c, "serving", IF KeepsAlive(close) THEN "reading" ELSE "closing")
  /\ UNCHANGED stop /\ Keep

(* The endpoint, or the next read, throws.                                 *)
Throws(c) == ConnGoes(c, "serving", AfterFailure) /\ UNCHANGED stop /\ Keep

(* The endpoint calls asyncStop(), which is not re-entrant.                *)
CallAsyncStop(c) ==
  /\ conn[c] = "serving"
  /\ stop[AsyncStop] = "idle"
  /\ stop' = [stop EXCEPT ![AsyncStop] = "begin"]
  /\ UNCHANGED connVars
  /\ UNCHANGED <<isRun, runNum, tpc, listening, counted>>

CloseConn(c) == ConnGoes(c, "closing", "closed") /\ UNCHANGED stop /\ Keep

-----------------------------------------------------------------------------
(* syncStop, on the owner's thread or on asyncStop's. *)

StopGoes(s, from, to) == stop[s] = from /\ stop' = [stop EXCEPT ![s] = to]

(* ~HttpBaseServer, once the owner has called asyncRun.                    *)
Destroy ==
  /\ \E t \in Thread : tpc[t] # "none"
  /\ StopGoes(Owner, "idle", "begin")
  /\ UNCHANGED <<isRun, runNum, tpc, listening, connVars, counted>>

ClearIsRun(s) ==
  /\ StopGoes(s, "begin", "test")
  /\ isRun' = FALSE
  /\ UNCHANGED <<runNum, tpc, listening, connVars, counted>>

TestRunNum(s) ==
  /\ StopGoes(s, "test", IF runNum = 0 THEN "returned" ELSE "try")
  /\ UNCHANGED <<isRun, runNum, tpc, listening, connVars, counted>>

(* A new client connects; with no listener left it is refused.             *)
Try(s) ==
  /\ StopGoes(s, "try", IF \E t \in Thread : listening[t] THEN "wait" ELSE "test")
  /\ IF \E t \in Thread : listening[t]
     THEN \E t \in Thread : Arrive(s, t)
     ELSE UNCHANGED <<isRun, runNum, tpc, listening, connVars, counted>>

(* Its request is answered, or the connection was closed or reset.         *)
TryEnds(s) ==
  /\ conn[s] = "closed"
  /\ StopGoes(s, "wait", "test")
  /\ conn' = [conn EXCEPT ![s] = "none"]
  /\ at' = [at EXCEPT ![s] = NoThread]
  /\ UNCHANGED <<isRun, runNum, tpc, listening, counted>>

(* The client's own time-out: nobody accepts from a socket left behind.    *)
TryTimesOut(s) ==
  /\ conn[s] = "backlog" /\ tpc[at[s]] \in {"drain", "ended"}
  /\ conn' = [conn EXCEPT ![s] = "closed"]
  /\ UNCHANGED <<isRun, runNum, tpc, listening, at, stop, counted>>

-----------------------------------------------------------------------------
ThreadStep(t) ==
  CountIn(t) \/ Listen(t) \/ Accept(t) \/ CloseListener(t) \/ CountOut(t)

HandlerStep(c) ==
  RequestRead(c) \/ ReadEnds(c) \/ Served(c) \/ Throws(c) \/ CloseConn(c)

StopStep(s) == ClearIsRun(s) \/ TestRunNum(s) \/ TryEnds(s) \/ TryTimesOut(s)

ServerNext ==
  \/ AsyncRun \/ Destroy
  \/ \E t \in Thread : ThreadStep(t) \/ AcceptFails(t)
  \/ \E c \in Conn : ClientConnects(c) \/ HandlerStep(c) \/ CallAsyncStop(c)
  \/ \E s \in Stopper : StopStep(s) \/ Try(s)

ServerSpec == ServerInit /\ [][ServerNext]_serverVars

(* Threads and handlers run, reads time out, endpoints return.  The kernel *)
(* spreads connections over the listening sockets by a hash of their       *)
(* addresses: one tried for ever gets every listener at some time.         *)
FairSpec ==
  /\ ServerSpec
  /\ \A t \in Thread : WF_serverVars(ThreadStep(t))
  /\ \A c \in Conn : WF_serverVars(ReadEnds(c) \/ Served(c) \/ CloseConn(c))
  /\ \A s \in Stopper : WF_serverVars(StopStep(s)) /\ WF_serverVars(Try(s))
  /\ \A s \in Stopper, t \in Thread : SF_serverVars(Try(s) /\ Arrive(s, t))

-----------------------------------------------------------------------------
(* Properties *)

ThreadPc == {"none", "start", "listen", "accept", "close", "drain", "ended"}

(* Every variable has its type.                                            *)
ServerTypeOK ==
  /\ isRun \in BOOLEAN /\ runNum \in 0..(RunNums - 1)
  /\ tpc \in [Thread -> ThreadPc] /\ listening \in [Thread -> BOOLEAN]
  /\ conn \in [Conn -> Open \cup {"none", "closed"}]
  /\ at \in [Conn -> Thread \cup {NoThread}]
  /\ stop \in [Stopper -> {"idle", "begin", "test", "try", "wait", "returned"}]
  /\ counted \subseteq Thread

(* _runNum is the number of threads inside _sync() past their ++_runNum.   *)
InSync(t) == tpc[t] \in {"listen", "accept", "close", "drain"}
RunNumExact == runNum = Cardinality({t \in Thread : InSync(t)})

(* When syncStop() returns, the threads that had started by then have      *)
(* ended, and their connections are closed: nothing uses the router the    *)
(* destructor is about to destroy.  A thread not yet counted is missed.    *)
StoppedMeansStopped ==
  \A s \in Stopper :
    stop[s] = "returned" =>
      \A t \in counted : tpc[t] = "ended" /\ Handled(t) = {}

(* Stopping ends, although each thread must accept a connection to see     *)
(* _isRun and keep-alive connections are open, unless an unrelated thread  *)
(* is still to count itself.                                               *)
AllCounted == \A t \in Thread : tpc[t] # "start"
StopReturns == \A s \in Stopper : (stop[s] = "begin" /\ AllCounted) ~> (stop[s] = "returned")

===============================================================================
