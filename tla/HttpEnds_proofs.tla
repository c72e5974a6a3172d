---------------------------- MODULE HttpEnds_proofs ----------------------------
(***************************************************************************)
(* Proofs about the two ends of the HTTP connections.  HttpServer: for     *)
(* every finite set of threads (fewer than 2^16, the width of _runNum) and *)
(* every set of clients, as long as the address of the server resolves.    *)
(* HttpClient: for any number of calls and of descriptors, any operations  *)
(* and any steps of makeSocket that may fail.                              *)
(***************************************************************************)
EXTENDS HttpServer, HttpClient, SequenceTheorems, FiniteSetTheorems, WellFoundedInduction, TLAPS

USE ServerAssumption

LEMMA TypeInit == ServerInit => ServerTypeOK
BY DEF ServerInit, ServerTypeOK, ThreadPc, Open, Stopper

LEMMA TypeStep == ASSUME ServerTypeOK, [ServerNext]_serverVars PROVE ServerTypeOK'
<1> USE DEF ServerTypeOK, ThreadPc, Open, ThreadGoes, ConnGoes, StopGoes, Keep, connVars
<1>1. CASE AsyncRun BY <1>1 DEF AsyncRun
<1>2. CASE Destroy BY <1>2 DEF Destroy
<1>3. ASSUME NEW t \in Thread, ThreadStep(t) \/ AcceptFails(t) PROVE ServerTypeOK'
  <2>1. CASE CountIn(t)
    <3>1. runNum' \in 0..(RunNums - 1) BY <2>1 DEF CountIn
    <3>2. tpc' \in [Thread -> ThreadPc] BY <2>1 DEF CountIn
    <3>3. counted' \subseteq Thread BY <2>1 DEF CountIn
    <3>4. QED BY <2>1, <3>1, <3>2, <3>3 DEF CountIn
  <2>2. CASE Listen(t) BY <2>2 DEF Listen
  <2>3. CASE Accept(t)
    <3>1. PICK c \in Conn : conn' = [conn EXCEPT ![c] = "reading"] BY <2>3 DEF Accept
    <3>2. tpc' \in [Thread -> ThreadPc] BY <2>3 DEF Accept, AfterAccept
    <3>3. QED BY <2>3, <3>1, <3>2 DEF Accept
  <2>4. CASE CloseListener(t) BY <2>4 DEF CloseListener
  <2>5. CASE CountOut(t)
    <3>1. runNum' \in 0..(RunNums - 1) BY <2>5 DEF CountOut, Decremented
    <3>2. QED BY <2>5, <3>1 DEF CountOut
  <2>6. CASE AcceptFails(t) BY <2>6 DEF AcceptFails
  <2>7. QED BY <1>3, <2>1, <2>2, <2>3, <2>4, <2>5, <2>6 DEF ThreadStep
<1>4. ASSUME NEW c \in Conn, ClientConnects(c) \/ HandlerStep(c) \/ CallAsyncStop(c)
      PROVE  ServerTypeOK'
  <2>1. CASE ClientConnects(c) BY <2>1 DEF ClientConnects, Arrive
  <2>2. CASE HandlerStep(c)
    BY <2>2 DEF HandlerStep, RequestRead, ReadEnds, Served, Throws, CloseConn, AfterFailure
  <2>3. CASE CallAsyncStop(c) BY <2>3 DEF CallAsyncStop
  <2>4. QED BY <1>4, <2>1, <2>2, <2>3
<1>5. ASSUME NEW s \in Stopper, StopStep(s) \/ Try(s) PROVE ServerTypeOK'
  <2>1. CASE StopStep(s)
    BY <2>1 DEF StopStep, ClearIsRun, TestRunNum, TryEnds, TryTimesOut, Conn
  <2>2. CASE Try(s)
    <3>1. s \in Conn BY DEF Conn
    <3>2. QED BY <2>2, <3>1 DEF Try, Arrive
  <2>3. QED BY <1>5, <2>1, <2>2
<1>6. CASE UNCHANGED serverVars BY <1>6 DEF serverVars
<1>7. QED BY <1>1, <1>2, <1>3, <1>4, <1>5, <1>6 DEF ServerNext

-----------------------------------------------------------------------------
(* _runNum. *)

Counted == {t \in Thread : InSync(t)}

LEMMA CountedFinite ==
  /\ IsFiniteSet(Counted) /\ Cardinality(Counted) \in Nat
  /\ Cardinality(Counted) <= Cardinality(Thread)
  /\ Cardinality(Thread) \in Nat
<1>1. Counted \in SUBSET Thread BY DEF Counted
<1>2. QED BY <1>1, FS_Subset, FS_CardinalityType

(* If resolve() threw, a thread would be counted out that was not counted  *)
(* in.                                                                     *)
AddressResolves == Resolves \subseteq {TRUE}

LEMMA CountInExact ==
  ASSUME AddressResolves, ServerTypeOK, RunNumExact, NEW t \in Thread, CountIn(t)
  PROVE  RunNumExact'
<1>1. tpc \in [Thread -> ThreadPc] BY DEF ServerTypeOK
<1>2. tpc[t] = "start" /\ tpc' = [tpc EXCEPT ![t] = "listen"] /\ runNum' = (runNum + 1) % RunNums
  BY DEF CountIn, ThreadGoes, AddressResolves
<1>3. t \notin Counted BY <1>2 DEF Counted, InSync
<1>4. Counted' = Counted \cup {t} BY <1>1, <1>2 DEF Counted, InSync
<1>5. Cardinality(Counted') = Cardinality(Counted) + 1
  BY <1>3, <1>4, CountedFinite, FS_AddElement
<1>6. Counted' \in SUBSET Thread BY <1>4 DEF Counted
<1>7. Cardinality(Counted') <= Cardinality(Thread) BY <1>6, FS_Subset
<1>8. runNum = Cardinality(Counted) BY DEF RunNumExact, Counted
<1>9. runNum' = runNum + 1 BY <1>2, <1>5, <1>7, <1>8, CountedFinite
<1>10. QED BY <1>5, <1>8, <1>9 DEF RunNumExact, Counted

LEMMA CountOutExact ==
  ASSUME ServerTypeOK, RunNumExact, NEW t \in Thread, CountOut(t)
  PROVE  RunNumExact'
<1>1. tpc \in [Thread -> ThreadPc] BY DEF ServerTypeOK
<1>2. tpc[t] = "drain" /\ tpc' = [tpc EXCEPT ![t] = "ended"] /\ runNum' = (runNum - 1) % RunNums
  BY DEF CountOut, Decremented, ThreadGoes
<1>3. t \in Counted BY <1>2 DEF Counted, InSync
<1>4. Counted' = Counted \ {t} BY <1>1, <1>2 DEF Counted, InSync
<1>5. Cardinality(Counted') = Cardinality(Counted) - 1
  BY <1>3, <1>4, CountedFinite, FS_RemoveElement
<1>6. Cardinality(Counted) > 0 BY <1>3, CountedFinite, FS_EmptySet
<1>7. runNum = Cardinality(Counted) BY DEF RunNumExact, Counted
<1>8. runNum' = runNum - 1 BY <1>2, <1>6, <1>7, CountedFinite
<1>9. QED BY <1>5, <1>7, <1>8 DEF RunNumExact, Counted

(* Any other step leaves both sides alone.                                 *)
LEMMA SameCount ==
  ASSUME RunNumExact, runNum' = runNum, Counted' = Counted
  PROVE  RunNumExact'
BY DEF RunNumExact, Counted

LEMMA CountStep ==
  ASSUME AddressResolves, ServerTypeOK, RunNumExact, [ServerNext]_serverVars
  PROVE  RunNumExact'
<1> USE DEF ServerTypeOK, ThreadGoes, Keep, Counted, InSync
<1>1. CASE AsyncRun BY <1>1, SameCount DEF AsyncRun
<1>2. CASE Destroy BY <1>2, SameCount DEF Destroy
<1>3. ASSUME NEW t \in Thread, ThreadStep(t) \/ AcceptFails(t) PROVE RunNumExact'
  <2>1. CASE CountIn(t) BY <2>1, CountInExact
  <2>2. CASE Listen(t) BY <2>2, SameCount DEF Listen
  <2>3. CASE Accept(t)
    <3>1. runNum' = runNum /\ tpc[t] = "accept"
          /\ \E to \in {"accept", "close"} : tpc' = [tpc EXCEPT ![t] = to]
      BY <2>3 DEF Accept, AfterAccept
    <3>2. QED BY <3>1, SameCount
  <2>4. CASE CloseListener(t) BY <2>4, SameCount DEF CloseListener
  <2>5. CASE CountOut(t) BY <2>5, CountOutExact
  <2>6. CASE AcceptFails(t) BY <2>6, SameCount DEF AcceptFails
  <2>7. QED BY <1>3, <2>1, <2>2, <2>3, <2>4, <2>5, <2>6 DEF ThreadStep
<1>4. ASSUME NEW c \in Conn, ClientConnects(c) \/ HandlerStep(c) \/ CallAsyncStop(c)
      PROVE  RunNumExact'
  BY <1>4, SameCount DEF ClientConnects, Arrive, HandlerStep, RequestRead, ReadEnds, Served,
     Throws, CloseConn, CallAsyncStop
<1>5. ASSUME NEW s \in Stopper, StopStep(s) \/ Try(s) PROVE RunNumExact'
  <2>1. runNum' = runNum /\ tpc' = tpc
    BY <1>5 DEF StopStep, ClearIsRun, TestRunNum, TryEnds, TryTimesOut, Try, Arrive
  <2>2. QED BY <2>1, SameCount
<1>6. CASE UNCHANGED serverVars BY <1>6, SameCount DEF serverVars
<1>7. QED BY <1>1, <1>2, <1>3, <1>4, <1>5, <1>6 DEF ServerNext

-----------------------------------------------------------------------------
(* When syncStop() has returned. *)

(* A thread counts itself at its first step and ends without handlers.     *)
CountedStarted == \A t \in counted : tpc[t] \notin {"none", "start"}
EndedDrained == \A t \in Thread : tpc[t] = "ended" => Handled(t) = {}

SInv == ServerTypeOK /\ CountedStarted /\ EndedDrained /\ StoppedMeansStopped

LEMMA SInvInit == ServerInit => SInv
BY TypeInit DEF ServerInit, SInv, CountedStarted, EndedDrained, StoppedMeansStopped, Handled, Open

(* A step in which no thread moves, no handler begins and no syncStop()    *)
(* returns.                                                                *)
LEMMA SInvSame ==
  ASSUME SInv, ServerTypeOK', counted' = counted, tpc' = tpc,
         \A t \in Thread : Handled(t)' \subseteq Handled(t),
         \A s \in Stopper : stop'[s] = "returned" => stop[s] = "returned"
  PROVE  SInv'
BY DEF SInv, CountedStarted, EndedDrained, StoppedMeansStopped, ServerTypeOK

(* A step of a thread that has not ended.                                  *)
LEMMA SInvThread ==
  ASSUME SInv, ServerTypeOK', NEW t \in Thread, NEW to,
         tpc[t] \notin {"none", "ended"}, tpc' = [tpc EXCEPT ![t] = to],
         to \notin {"none", "start"}, to = "ended" => Handled(t) = {},
         counted' = counted \/ (counted' = counted \cup {t} /\ tpc[t] = "start"
                                /\ ~\E s \in Stopper : stop[s] = "returned"),
         \A u \in Thread : Handled(u)' \subseteq Handled(u) \/ (u = t /\ to # "ended"),
         stop' = stop
  PROVE  SInv'
<1> USE DEF SInv, ServerTypeOK
<1>1. CountedStarted' BY DEF CountedStarted
<1>2. EndedDrained' BY DEF EndedDrained
<1>3. StoppedMeansStopped'
  <2> SUFFICES ASSUME NEW s \in Stopper, stop[s] = "returned", NEW u \in counted
               PROVE  tpc'[u] = "ended" /\ Handled(u)' = {}
    BY DEF StoppedMeansStopped
  <2>1. tpc[u] = "ended" /\ Handled(u) = {} /\ u \in Thread BY DEF StoppedMeansStopped
  <2>2. u # t BY <2>1
  <2>3. QED BY <2>1, <2>2
<1>4. QED BY <1>1, <1>2, <1>3

LEMMA SInvStep ==
  ASSUME SInv, RunNumExact, [ServerNext]_serverVars
  PROVE  SInv'
<1>0. ServerTypeOK' BY TypeStep DEF SInv
<1> USE <1>0 DEF ThreadGoes, ConnGoes, StopGoes, Keep, connVars, Handled, Open
<1>1. CASE AsyncRun
  <2>1. counted = {} BY <1>1 DEF AsyncRun, SInv, CountedStarted, ServerTypeOK
  <2>2. CountedStarted' /\ StoppedMeansStopped'
    BY <1>1, <2>1 DEF AsyncRun, CountedStarted, StoppedMeansStopped
  <2>3. EndedDrained' BY <1>1 DEF AsyncRun, EndedDrained
  <2>4. QED BY <2>2, <2>3 DEF SInv
<1>2. CASE Destroy BY <1>2, SInvSame DEF Destroy, SInv, ServerTypeOK
<1>3. ASSUME NEW t \in Thread, ThreadStep(t) \/ AcceptFails(t) PROVE SInv'
  <2>1. CASE CountIn(t)
    <3>1. PICK to \in {"listen", "drain"} : tpc[t] = "start" /\ tpc' = [tpc EXCEPT ![t] = to]
      BY <2>1 DEF CountIn
    <3>2. QED BY <2>1, <3>1, SInvThread DEF CountIn
  <2>2. CASE Listen(t)
    <3>1. PICK to \in {"accept", "drain"} : tpc[t] = "listen" /\ tpc' = [tpc EXCEPT ![t] = to]
      BY <2>2 DEF Listen
    <3>2. QED BY <2>2, <3>1, SInvThread DEF Listen
  <2>3. CASE Accept(t)
    <3>1. PICK c \in Conn :
            at[c] = t /\ tpc[t] = "accept" /\ tpc' = [tpc EXCEPT ![t] = AfterAccept(t)]
            /\ conn' = [conn EXCEPT ![c] = "reading"]
            /\ UNCHANGED <<at, stop, counted>>
      BY <2>3 DEF Accept
    <3>2. PICK to \in {"accept", "close"} : to = AfterAccept(t) BY DEF AfterAccept
    <3>3. \A u \in Thread : Handled(u)' \subseteq Handled(u) \/ u = t
      BY <3>1 DEF SInv, ServerTypeOK
    <3> HIDE DEF Handled
    <3>4. QED BY <3>1, <3>2, <3>3, SInvThread
  <2>4. CASE CloseListener(t)
    <3>1. \A u \in Thread : Handled(u)' \subseteq Handled(u)
      BY <2>4 DEF CloseListener
    <3>2. /\ tpc[t] = "close" /\ tpc' = [tpc EXCEPT ![t] = "drain"]
          /\ counted' = counted /\ stop' = stop
      BY <2>4 DEF CloseListener
    <3> HIDE DEF Handled
    <3>3. QED BY <3>1, <3>2, SInvThread
  <2>5. CASE CountOut(t)
    <3>1. /\ tpc[t] = "drain" /\ tpc' = [tpc EXCEPT ![t] = "ended"]
          /\ counted' = counted /\ stop' = stop
      BY <2>5 DEF CountOut
    <3>2. Handled(t) = {} /\ \A u \in Thread : Handled(u)' \subseteq Handled(u)
      BY <2>5 DEF CountOut, Drained
    <3> HIDE DEF Handled
    <3>3. QED BY <3>1, <3>2, SInvThread
  <2>6. CASE AcceptFails(t) BY <2>6, SInvThread DEF AcceptFails
  <2>7. QED BY <1>3, <2>1, <2>2, <2>3, <2>4, <2>5, <2>6 DEF ThreadStep
<1>4. ASSUME NEW c \in Conn, ClientConnects(c) \/ HandlerStep(c) \/ CallAsyncStop(c)
      PROVE  SInv'
  <2>1. CASE ClientConnects(c)
    BY <2>1, SInvSame DEF ClientConnects, Arrive, SInv, ServerTypeOK
  <2>2. CASE HandlerStep(c)
    BY <2>2, SInvSame DEF HandlerStep, RequestRead, ReadEnds, Served, Throws, CloseConn,
       AfterFailure, SInv, ServerTypeOK
  <2>3. CASE CallAsyncStop(c) BY <2>3, SInvSame DEF CallAsyncStop, SInv, ServerTypeOK
  <2>4. QED BY <1>4, <2>1, <2>2, <2>3
<1>5. ASSUME NEW s \in Stopper, StopStep(s) \/ Try(s) PROVE SInv'
  <2>1. CASE ClearIsRun(s) BY <2>1, SInvSame DEF ClearIsRun, SInv, ServerTypeOK
  <2>2. CASE TestRunNum(s) /\ runNum # 0
    BY <2>2, SInvSame DEF TestRunNum, SInv, ServerTypeOK
  <2>3. CASE TestRunNum(s) /\ runNum = 0
    <3>1. Counted = {} BY <2>3, CountedFinite, FS_EmptySet DEF RunNumExact, Counted
    <3>2. \A t \in Thread : tpc[t] \in {"none", "start", "ended"}
      BY <3>1 DEF Counted, InSync, SInv, ServerTypeOK, ThreadPc
    <3>3. \A t \in counted : tpc[t] = "ended" /\ Handled(t) = {}
      BY <3>2 DEF SInv, CountedStarted, EndedDrained, ServerTypeOK
    <3>4. UNCHANGED <<tpc, conn, at, counted>> BY <2>3 DEF TestRunNum
    <3>5. QED BY <3>3, <3>4 DEF SInv, CountedStarted, EndedDrained, StoppedMeansStopped
  <2>4. CASE TryEnds(s) BY <2>4, SInvSame DEF TryEnds, SInv, ServerTypeOK, Conn
  <2>5. CASE TryTimesOut(s) BY <2>5, SInvSame DEF TryTimesOut, SInv, ServerTypeOK, Conn
  <2>6. CASE Try(s)
    <3>1. \A u \in Stopper : stop'[u] = "returned" => stop[u] = "returned"
      BY <2>6 DEF Try, SInv, ServerTypeOK
    <3>2. tpc' = tpc /\ counted' = counted BY <2>6 DEF Try, Arrive
    <3>3. \A u \in Thread : Handled(u)' \subseteq Handled(u)
      BY <2>6 DEF Try, Arrive, SInv, ServerTypeOK, Conn
    <3>4. QED BY <3>1, <3>2, <3>3, SInvSame
  <2>7. QED BY <1>5, <2>1, <2>2, <2>3, <2>4, <2>5, <2>6 DEF StopStep
<1>6. CASE UNCHANGED serverVars BY <1>6, SInvSame DEF serverVars
<1>7. QED BY <1>1, <1>2, <1>3, <1>4, <1>5, <1>6 DEF ServerNext

-----------------------------------------------------------------------------
(* Every variable of the server has its type. *)
THEOREM ServerTypeCorrect == ServerSpec => []ServerTypeOK
<1>1. QED BY TypeInit, TypeStep, PTL DEF ServerSpec

(* _runNum counts the threads inside _sync() past ++_runNum: the atomic    *)
(* neither loses a thread that failed nor wraps.                           *)
THEOREM RunNumberExact == AddressResolves => (ServerSpec => []RunNumExact)
<1>1. ServerInit => RunNumExact
  <2>1. ServerInit => Counted = {} BY DEF ServerInit, Counted, InSync
  <2>2. QED BY <2>1, FS_EmptySet DEF ServerInit, RunNumExact, Counted
<1>2. SUFFICES ASSUME AddressResolves PROVE ServerSpec => []RunNumExact
  OBVIOUS
<1>3. ServerTypeOK /\ RunNumExact /\ [ServerNext]_serverVars => RunNumExact' BY <1>2, CountStep
<1>4. QED BY <1>1, <1>3, ServerTypeCorrect, PTL DEF ServerSpec

(* When syncStop() has returned, every thread counted by then has ended    *)
(* and none of its connections is open.                                    *)
THEOREM StopWaitsForThreads == AddressResolves => (ServerSpec => []StoppedMeansStopped)
<1>1. SInv /\ RunNumExact /\ [ServerNext]_serverVars => SInv' BY SInvStep
<1>2. SInv => StoppedMeansStopped BY DEF SInv
<1>3. SUFFICES ASSUME AddressResolves PROVE ServerSpec => []StoppedMeansStopped
  OBVIOUS
<1>4. ServerSpec => []RunNumExact BY <1>3, RunNumberExact
<1>5. QED BY SInvInit, <1>1, <1>2, <1>4, PTL DEF ServerSpec

HIDE ServerAssumption

-----------------------------------------------------------------------------
(* HttpClient. *)

USE ClientAssumption

(* The system gives out the lowest free number.                            *)
LEMMA MinOfFree == ASSUME Free # {} PROVE Min(Free) \in Free
<1> DEFINE R == OpToRel(<, Nat)
<1>1. Free \subseteq Nat BY DEF Free, Fd
<1>2. \A x, y \in Nat : <<y, x>> \in R <=> y < x BY DEF OpToRel
<1>3. IsWellFoundedOn(R, Nat) BY NatLessThanWellFounded
<1> HIDE DEF R
<1>4. PICK x \in Free : \A y \in Free : ~(<<y, x>> \in R) BY <1>1, <1>3, WFMin
<1>5. ASSUME NEW y \in Free PROVE x <= y
  <2>1. x \in Nat /\ y \in Nat BY <1>1
  <2>2. ~(<<y, x>> \in R) BY <1>4
  <2>3. ~(y < x) BY <1>2, <2>1, <2>2
  <2>4. QED BY <2>1, <2>3
<1>6. QED BY <1>5 DEF Min

MakePcs == {"resolve", "socket", "connect", "bind", "handshake", "closeCli"}
ClientPc ==
  MakePcs \cup {"idle", "resetIo", "send", "recv", "again", "resend", "recvAgain", "answered",
                "closeIo", "fail", "done", "thrown", "crashed"}

Ans == [of : CallId, part : {"whole", "head", "body"}]
Res == [of : CallId, part : {"whole", "head", "body", "mixed", "exception", "void"}]
WireSet == [up : BOOLEAN, reqs : Seq(CallId), answers : Seq(Ans)]

FdTypeOK ==
  /\ owner \in [Fd -> {"free", "client", "other"}]
  /\ cliFd \in Fd \cup {Invalid} /\ ioFd \in Fd \cup {Invalid}
  /\ ioSet \in BOOLEAN /\ foreign \in BOOLEAN /\ stranded \in BOOLEAN /\ unset \in BOOLEAN
  /\ pc \in ClientPc /\ ret \in {None, "send", "done", "resend"}
  /\ pc \in MakePcs => ret \in {"send", "done", "resend"}
  /\ pc \in {"connect", "bind"} => cliFd # Invalid

-----------------------------------------------------------------------------
(* Descriptors. *)

(* Until makeSocket fails with _io bound, or _io is used without having    *)
(* been constructed, what the client names is its own, and the descriptor  *)
(* that bindNewFd closes is not the new one.                               *)
OwnFds ==
  ~stranded /\ ~unset =>
    /\ ~foreign
    /\ ioFd # Invalid => owner[ioFd] = "client"
    /\ cliFd # Invalid => owner[cliFd] = "client"
    /\ pc \in {"connect", "bind"} => cliFd # ioFd

IoUnset == ~ioSet => ioFd = Invalid

(* Where the client is not changing its socket, a connection it can use is *)
(* the one _cliFd names.                                                   *)
Linked == pc \notin {"connect", "bind"} /\ Talks => cliFd = ioFd

FdInv == FdTypeOK /\ OwnFds /\ IoUnset /\ Linked

LEMMA FdInit == Init => FdInv
BY DEF Init, FdInv, FdTypeOK, OwnFds, IoUnset, Linked, Talks, ClientPc, MakePcs, Fd, Invalid

(* A send, to what _io names or to whatever its storage holds.             *)
LEMMA FdSend ==
  ASSUME FdInv, NEW ok \in {"recv", "recvAgain"}, NEW lost \in {"again", "fail"},
         TrySend(ok, lost), pc \in {"send", "resend"}
  PROVE  FdInv'
<1> USE DEF FdInv, FdTypeOK
<1>1. /\ UNCHANGED <<owner, cliFd, ioFd, ioSet, stranded, ret>>
      /\ pc' \in {ok, lost, "crashed"} /\ unset' \in BOOLEAN
  BY DEF TrySend
<1>2. foreign' \in BOOLEAN BY DEF TrySend
<1>3. FdTypeOK' BY <1>1, <1>2 DEF ClientPc, MakePcs
<1>4. ~unset' => ~unset /\ ioSet BY DEF TrySend, Talks, IoUnset, Invalid
<1>5. ioSet => foreign' = foreign \/ foreign' = (foreign \/ ByOther(ioFd)) BY DEF TrySend, IoFds
<1>6. OwnFds' BY <1>1, <1>4, <1>5 DEF OwnFds, ByOther
<1>7. IoUnset' /\ Linked' BY <1>1 DEF IoUnset, Linked, Talks
<1>8. QED BY <1>3, <1>6, <1>7

LEMMA FdStep == ASSUME FdInv, [Next]_vars PROVE FdInv'
<1> USE DEF FdInv, FdTypeOK, OwnFds, IoUnset, Linked, Talks, ClientPc, MakePcs, Invalid, fdVars,
            historyVars, callVars, Goes, MakeKeeps
<1>1. ASSUME NEW f \in Fd, ServerAnswers(f) \/ ServerCloses(f) PROVE FdInv'
  BY <1>1 DEF ServerAnswers, ServerCloses
<1>2. CASE OtherOpens
  <2>1. CASE Free = {}
    <3>1. Cardinality(Free) = 0 BY <2>1, FS_EmptySet
    <3>2. QED BY <1>2, <3>1 DEF OtherOpens
  <2>2. CASE Free # {}
    <3>1. Min(Free) \in Fd /\ owner[Min(Free)] = "free" BY <2>2, MinOfFree DEF Free
    <3>2. QED BY <1>2, <3>1 DEF OtherOpens
  <2>3. QED BY <2>1, <2>2
<1>3. CASE Begin
  <2>1. UNCHANGED <<owner, cliFd, ioFd, ioSet, foreign, stranded, unset>> BY <1>3 DEF Begin
  <2>2. pc = "idle" /\ pc' \in {"resolve", "send", "resetIo", "closeIo"} BY <1>3 DEF Begin, Sends
  <2>3. ret' \in {None, "send", "done", "resend"} BY <1>3 DEF Begin, Sends
  <2>4. pc' = "resolve" => ret' \in {"send", "done"} BY <1>3 DEF Begin, Sends
  <2>5. QED BY <2>1, <2>2, <2>3, <2>4
<1>4. CASE ResetIo BY <1>4 DEF ResetIo
<1>5. CASE Resolve BY <1>5 DEF Resolve
<1>6. CASE Socket
  <2>1. CASE pc' = "closeCli" /\ UNCHANGED <<owner, cliFd>> BY <1>6, <2>1 DEF Socket
  <2>2. CASE /\ Free # {} /\ cliFd' = Min(Free)
             /\ owner' = [owner EXCEPT ![Min(Free)] = "client"]
             /\ pc' = "connect"
    <3>1. Min(Free) \in Fd /\ owner[Min(Free)] = "free" BY <2>2, MinOfFree DEF Free
    <3>2. QED BY <1>6, <2>2, <3>1 DEF Socket, Fd
  <2>3. QED BY <1>6, <2>1, <2>2 DEF Socket
<1>7. CASE Connect BY <1>7 DEF Connect
<1>8. CASE Bind BY <1>8 DEF Bind, BindNewFd, CloseFd, ByOther
<1>9. CASE Handshake BY <1>9 DEF Handshake
<1>10. CASE CloseCli BY <1>10 DEF CloseCli, CloseFd, ByOther
<1>11. CASE Send
  <2>1. TrySend("recv", "again") /\ pc = "send" BY <1>11 DEF Send
  <2>2. QED BY <2>1, FdSend
<1>12. CASE Recv BY <1>12 DEF Recv
<1>13. CASE Again BY <1>13 DEF Again, Reconnects
<1>14. CASE Resend
  <2>1. TrySend("recvAgain", "fail") /\ pc = "resend" BY <1>14 DEF Resend
  <2>2. QED BY <2>1, FdSend
<1>15. CASE RecvAgain BY <1>15 DEF RecvAgain
<1>16. CASE Answered BY <1>16 DEF Answered
<1>17. CASE CloseIo BY <1>17 DEF CloseIo, CloseFd, AfterIoClose, IoFds, ByOther
<1>18. CASE Done BY <1>18 DEF Done
<1>19. CASE UNCHANGED vars BY <1>19 DEF vars
<1>20. QED
  BY <1>1, <1>2, <1>3, <1>4, <1>5, <1>6, <1>7, <1>8, <1>9, <1>10, <1>11, <1>12, <1>13, <1>14,
     <1>15, <1>16, <1>17, <1>18, <1>19 DEF Next, WorkerStep, MakeSocket

-----------------------------------------------------------------------------
(* Calls and what is on their connections. *)

Types ==
  /\ wire \in [Fd -> WireSet]
  /\ n \in 0..MaxCalls /\ (pc # "idle" => n > 0)
  /\ parsed \in {"none", "head", "body"} /\ failed \in BOOLEAN
  /\ sends \in [CallId -> Nat] /\ result \in [CallId -> Res \cup {None}]
  /\ \A c \in CallId : c > n => sends[c] = 0 /\ result[c] = None

Empty(w) == w.reqs = <<>> /\ w.answers = <<>>

(* A connection on which request c was sent, and nothing else.             *)
Only(w, c) ==
  \/ Empty(w)
  \/ w.reqs = <<c>> /\ w.answers = <<>>
  \/ w.reqs = <<>> /\ \E part \in {"whole", "head", "body"} : w.answers = <<[of |-> c, part |-> part]>>

(* Whenever a request may be sent nothing is on the connection: it is new, *)
(* or the last request on it was answered and the answer was read.         *)
Resting ==
  {"idle", "resetIo", "handshake", "send", "resend", "answered", "closeIo", "done", "thrown"}

Clean ==
  /\ pc = "bind" => Empty(wire[cliFd])
  /\ (pc \in Resting \/ (pc \in {"resolve", "socket"} /\ ret # "resend")) /\ Talks => Empty(wire[ioFd])
  /\ pc \in {"recv", "recvAgain"} /\ Talks => Only(wire[ioFd], n)

(* makeSocket is called to send only if there is no socket.                *)
ToSend == pc \in {"resolve", "socket"} /\ ret = "send" => cliFd = Invalid

(* The future of a call in progress is not set.                            *)
Pending ==
  pc \in MakePcs \cup {"resetIo", "send", "recv", "again", "resend", "recvAgain"} => result[n] = None

WireInv == Types /\ Clean /\ ToSend /\ Pending /\ OwnAnswer

(* How often the current request was sent, and why it is sent again.       *)
SendInv ==
  /\ pc = "send" \/ (pc \in MakePcs /\ ret = "send") => sends[n] = 0
  /\ pc \in {"again", "resend"} \/ (pc \in MakePcs /\ ret = "resend") => failed \/ op = "upload"
  /\ n > 0 => sends[n] <= 1 \/ failed \/ op = "upload"

LEMMA WireInit == Init => WireInv
<1> SUFFICES ASSUME Init PROVE WireInv
  OBVIOUS
<1>1. Wire(FALSE) \in WireSet /\ Empty(Wire(FALSE)) BY EmptySeq DEF Wire, WireSet, Empty
<1>2. wire \in [Fd -> WireSet] BY <1>1 DEF Init
<1>3. result \in [CallId -> Res \cup {None}] /\ sends \in [CallId -> Nat] BY DEF Init
<1>4. n \in 0..MaxCalls BY DEF Init, ClientAssumption
<1>5. (pc # "idle" => n > 0) /\ parsed \in {"none", "head", "body"} /\ failed \in BOOLEAN
  BY DEF Init
<1>6. \A c \in CallId : sends[c] = 0 /\ result[c] = None BY DEF Init
<1>7. Types BY <1>2, <1>3, <1>4, <1>6, <1>5 DEF Types
<1>8. Clean /\ ToSend /\ Pending BY DEF Init, Clean, Talks, ToSend, Pending, MakePcs
<1>9. OwnAnswer BY <1>6 DEF OwnAnswer
<1>10. QED BY <1>7, <1>8, <1>9 DEF WireInv

(* The server's steps on a connection with at most one request.            *)
LEMMA ServerKeeps ==
  ASSUME Types, NEW f \in Fd, ServerAnswers(f) \/ ServerCloses(f)
  PROVE  /\ wire' \in [Fd -> WireSet]
         /\ \A g \in Fd : Empty(wire[g]) => Empty(wire'[g])
         /\ \A g \in Fd, c \in CallId : Only(wire[g], c) => Only(wire'[g], c)
<1> USE DEF Types
<1>1. CASE ServerAnswers(f)
  <2> DEFINE a == [of |-> Head(wire[f].reqs), part |-> "whole"]
  <2>1. /\ wire[f].reqs # <<>> /\ wire[f].reqs \in Seq(CallId) /\ wire[f].answers \in Seq(Ans)
        /\ wire' = [wire EXCEPT ![f].reqs = Tail(@), ![f].answers = Append(@, a)]
    BY <1>1 DEF ServerAnswers, WireSet
  <2>2. a \in Ans /\ Tail(wire[f].reqs) \in Seq(CallId) BY <2>1, HeadTailProperties DEF Ans
  <2>3. Append(wire[f].answers, a) \in Seq(Ans) BY <2>1, <2>2, AppendProperties
  <2>4. wire'[f] = [up |-> wire[f].up, reqs |-> Tail(wire[f].reqs),
                    answers |-> Append(wire[f].answers, a)]
        /\ \A g \in Fd \ {f} : wire'[g] = wire[g]
    BY <2>1 DEF WireSet
  <2>5. wire'[f] \in WireSet BY <2>2, <2>3, <2>4 DEF WireSet
  <2>6. wire' \in [Fd -> WireSet] BY <2>1, <2>4, <2>5
  <2>7. ~Empty(wire[f]) BY <2>1 DEF Empty
  <2>8. ASSUME NEW c \in CallId, Only(wire[f], c) PROVE Only(wire'[f], c)
    <3>1. wire[f].reqs = <<c>> /\ wire[f].answers = <<>> BY <2>1, <2>8 DEF Only, Empty
    <3>2. Tail(<<c>>) = <<>> /\ Head(<<c>>) = c OBVIOUS
    <3>3. Append(<<>>, a) = <<a>> OBVIOUS
    <3>4. wire'[f].reqs = <<>> /\ wire'[f].answers = <<[of |-> c, part |-> "whole"]>>
      BY <2>4, <3>1, <3>2, <3>3
    <3>5. QED BY <3>4 DEF Only
  <2>9. QED BY <2>4, <2>6, <2>7, <2>8
<1>2. CASE ServerCloses(f)
  <2>1. PICK cut \in {<<>>} \cup (IF wire[f].reqs = <<>> THEN {}
                                  ELSE {<<[of |-> Head(wire[f].reqs), part |-> part]>> :
                                          part \in {"head", "body"}}) :
          wire' = [wire EXCEPT ![f] = [up |-> FALSE, reqs |-> <<>>, answers |-> @.answers \o cut]]
    BY <1>2 DEF ServerCloses
  <2>2. wire[f].reqs \in Seq(CallId) /\ wire[f].answers \in Seq(Ans) BY DEF WireSet
  <2>3. cut \in Seq(Ans)
    <3>1. CASE cut = <<>> BY <3>1
    <3>2. CASE cut # <<>>
      <4>1. wire[f].reqs # <<>> BY <2>1, <3>2
      <4>2. PICK part \in {"head", "body"} : cut = <<[of |-> Head(wire[f].reqs), part |-> part]>>
        BY <2>1, <3>2
      <4>3. Head(wire[f].reqs) \in CallId BY <2>2, <4>1, HeadTailProperties
      <4>4. QED BY <4>2, <4>3 DEF Ans
    <3>3. QED BY <3>1, <3>2
  <2>4. wire[f].answers \o cut \in Seq(Ans) BY <2>2, <2>3, ConcatProperties
  <2>5. wire'[f] = [up |-> FALSE, reqs |-> <<>>, answers |-> wire[f].answers \o cut]
        /\ \A g \in Fd \ {f} : wire'[g] = wire[g]
    BY <2>1
  <2>6. wire'[f] \in WireSet BY <2>4, <2>5 DEF WireSet
  <2>7. wire' \in [Fd -> WireSet] BY <2>1, <2>5, <2>6
  <2>8. wire[f].reqs = <<>> => wire'[f].reqs = <<>> /\ wire'[f].answers = wire[f].answers
    <3>1. wire[f].reqs = <<>> => cut = <<>> BY <2>1
    <3>2. QED BY <2>2, <2>5, <3>1, ConcatEmptySeq
  <2>9. ASSUME NEW c \in CallId, Only(wire[f], c) PROVE Only(wire'[f], c)
    <3>1. CASE wire[f].reqs = <<>> BY <2>8, <2>9, <3>1 DEF Only, Empty
    <3>2. CASE wire[f].reqs # <<>>
      <4>1. wire[f].reqs = <<c>> /\ wire[f].answers = <<>> /\ Head(<<c>>) = c
        BY <2>9, <3>2 DEF Only, Empty
      <4>2. wire'[f].reqs = <<>> /\ wire'[f].answers = cut
        BY <2>3, <2>5, <4>1, ConcatEmptySeq
      <4>3. cut = <<>> \/ \E part \in {"head", "body"} : cut = <<[of |-> c, part |-> part]>>
        BY <2>1, <3>2, <4>1
      <4>4. QED BY <4>2, <4>3 DEF Only, Empty
    <3>3. QED BY <3>1, <3>2
  <2>10. QED BY <2>5, <2>7, <2>8, <2>9 DEF Empty
<1>3. QED BY <1>1, <1>2

LEMMA CloseKeeps ==
  ASSUME Types, FdTypeOK, NEW f \in Fd \cup {Invalid}, CloseFd(f)
  PROVE  /\ wire' \in [Fd -> WireSet]
         /\ \A g \in Fd : Empty(wire[g]) => Empty(wire'[g])
         /\ \A g \in Fd : owner'[g] = "client" => owner[g] = "client" /\ g # f
<1>1. Wire(FALSE) \in WireSet /\ Empty(Wire(FALSE)) BY EmptySeq DEF Wire, WireSet, Empty
<1>2. CASE f = Invalid
  <2>1. wire' = wire /\ owner' = owner BY <1>2 DEF CloseFd
  <2>2. \A g \in Fd : g # f BY <1>2 DEF Fd, Invalid
  <2>3. QED BY <2>1, <2>2 DEF Types
<1>3. CASE f # Invalid
  <2>1. wire' = [wire EXCEPT ![f] = Wire(FALSE)] /\ owner' = [owner EXCEPT ![f] = "free"]
    BY <1>3 DEF CloseFd
  <2>2. QED BY <1>1, <1>3, <2>1 DEF Types, FdTypeOK
<1>4. QED BY <1>2, <1>3

(* Sending to a connection with nothing on it.                             *)
LEMMA SendKeeps ==
  ASSUME Types, FdTypeOK, Talks, Empty(wire[ioFd]), n \in CallId,
         wire' = IF wire[ioFd].up THEN [wire EXCEPT ![ioFd].reqs = Append(@, n)] ELSE wire
  PROVE  wire' \in [Fd -> WireSet] /\ Only(wire'[ioFd], n)
<1>1. ioFd \in Fd BY DEF Talks, FdTypeOK, Invalid
<1>2. wire[ioFd].reqs \in Seq(CallId) /\ wire[ioFd].reqs = <<>> /\ wire[ioFd].answers = <<>>
  BY <1>1 DEF Types, WireSet, Empty
<1>3. CASE ~wire[ioFd].up BY <1>3 DEF Only, Types
<1>4. CASE wire[ioFd].up
  <2>1. Append(<<>>, n) = <<n>> OBVIOUS
  <2>2. <<n>> \in Seq(CallId) OBVIOUS
  <2>3. wire' = [wire EXCEPT ![ioFd].reqs = <<n>>] BY <1>2, <1>4, <2>1
  <2>4. wire'[ioFd] = [up |-> wire[ioFd].up, reqs |-> <<n>>, answers |-> wire[ioFd].answers]
    BY <1>1, <2>3 DEF Types, WireSet
  <2>5. wire'[ioFd] \in WireSet BY <1>1, <2>2, <2>4 DEF Types, WireSet
  <2>6. wire' \in [Fd -> WireSet] BY <1>1, <2>3, <2>5 DEF Types
  <2>7. QED BY <1>2, <2>4, <2>6 DEF Only
<1>5. QED BY <1>3, <1>4

(* Taking the one answer on a connection leaves nothing there.             *)
LEMMA TakeKeeps ==
  ASSUME Types, FdTypeOK, Talks, ~Silent, n \in CallId, Only(wire[ioFd], n), TakeAnswer
  PROVE  /\ wire' \in [Fd -> WireSet] /\ Empty(wire'[ioFd])
         /\ Answer.of = n /\ Answer.part \in {"whole", "head", "body"} /\ Answer \in Res
<1>1. ioFd \in Fd BY DEF Talks, FdTypeOK, Invalid
<1>2. wire[ioFd].answers # <<>> BY DEF Silent
<1>3. PICK part \in {"whole", "head", "body"} :
        wire[ioFd].reqs = <<>> /\ wire[ioFd].answers = <<[of |-> n, part |-> part]>>
  BY <1>2 DEF Only, Empty
<1>4. Answer = [of |-> n, part |-> part] /\ Tail(wire[ioFd].answers) = <<>> BY <1>3 DEF Answer
<1>5. wire' = [wire EXCEPT ![ioFd].answers = <<>>] BY <1>4 DEF TakeAnswer
<1>6. wire'[ioFd] = [up |-> wire[ioFd].up, reqs |-> <<>>, answers |-> <<>>]
  BY <1>1, <1>3, <1>5 DEF Types, WireSet
<1>7. wire'[ioFd] \in WireSet BY <1>1, <1>6, EmptySeq DEF Types, WireSet
<1>8. wire' \in [Fd -> WireSet] BY <1>1, <1>5, <1>7 DEF Types
<1>9. QED BY <1>4, <1>6, <1>8 DEF Empty, Res

LEMMA SameCalls ==
  ASSUME Types, UNCHANGED <<n, parsed, failed, sends, result>>,
         wire' \in [Fd -> WireSet], pc # "idle"
  PROVE  Types' /\ (OwnAnswer => OwnAnswer')
BY DEF Types, OwnAnswer

LEMMA WireStep == ASSUME FdInv, FdInv', WireInv, [Next]_vars PROVE WireInv'
<1> USE DEF FdInv, WireInv
<1>a. pc \in ClientPc /\ ioFd \in Fd \cup {Invalid} /\ cliFd \in Fd \cup {Invalid} BY DEF FdTypeOK
<1>b. Invalid \notin Fd BY DEF Fd, Invalid
<1>c. pc # "idle" => n \in CallId BY DEF Types, CallId
<1>d. Types => wire \in [Fd -> WireSet] BY DEF Types
<1>1. ASSUME NEW f \in Fd, ServerAnswers(f) \/ ServerCloses(f) PROVE WireInv'
  <2>1. /\ UNCHANGED <<n, parsed, failed, sends, result, pc, ret, owner, cliFd, ioFd>>
    BY <1>1 DEF ServerAnswers, ServerCloses, fdVars, callVars
  <2>2. /\ wire' \in [Fd -> WireSet]
        /\ \A g \in Fd : Empty(wire[g]) => Empty(wire'[g])
        /\ \A g \in Fd, c \in CallId : Only(wire[g], c) => Only(wire'[g], c)
    BY <1>1, ServerKeeps
  <2>3. Types' /\ OwnAnswer' /\ ToSend' /\ Pending'
    BY <2>1, <2>2 DEF Types, OwnAnswer, ToSend, Pending
  <2>4. (pc = "bind" => cliFd \in Fd) /\ (Talks => ioFd \in Fd)
    BY <1>a DEF FdTypeOK, Talks
  <2>5. Clean' BY <1>c, <2>1, <2>2, <2>4 DEF Clean, Talks, Resting
  <2>6. QED BY <2>3, <2>5
<1>2. CASE OtherOpens
  <2>1. UNCHANGED <<n, parsed, failed, sends, result, pc, ret, cliFd, ioFd, wire>>
    BY <1>2 DEF OtherOpens, callVars
  <2>2. Talks' => Talks BY <1>2, <2>1 DEF OtherOpens, Talks, FdTypeOK
  <2>3. Types' /\ OwnAnswer' /\ ToSend' /\ Pending'
    BY <2>1 DEF Types, OwnAnswer, ToSend, Pending
  <2>4. QED BY <2>1, <2>2, <2>3 DEF Clean
<1>3. CASE Begin
  <2>1. /\ pc = "idle" /\ n < MaxCalls /\ n' = n + 1 /\ parsed' = "none" /\ failed' = FALSE
        /\ UNCHANGED <<wire, sends, result, owner, cliFd, ioFd>>
    BY <1>3 DEF Begin, fdVars
  <2>2. n' \in 0..MaxCalls /\ n' > 0 /\ \A c \in CallId : c > n' => c > n
    BY <2>1 DEF Types, CallId, ClientAssumption
  <2>3. Types' BY <2>1, <2>2 DEF Types
  <2>4. n' \in CallId /\ n' > n BY <2>1, <2>2 DEF CallId, Types
  <2>5. result[n'] = None BY <2>4 DEF Types
  <2>6. OwnAnswer'
    <3> SUFFICES ASSUME NEW c \in CallId, result[c] # None PROVE result[c].of = c /\ c < n'
      BY <2>1 DEF OwnAnswer
    <3>1. ~(c > n) BY DEF Types
    <3>2. QED BY <2>1, <3>1 DEF OwnAnswer, CallId, Types
  <2>7. pc' \notin {"bind", "recv", "recvAgain"} /\ (pc' = "resolve" => ret' \in {"send", "done"})
    BY <1>3, ClientAssumption DEF Begin, Sends, ClientAssumption
  <2>8. Clean' BY <2>1, <2>7 DEF Clean, Talks, Resting
  <2>9. ToSend' BY <1>3, ClientAssumption DEF Begin, Sends, ToSend, ClientAssumption, fdVars
  <2>10. QED BY <2>1, <2>3, <2>5, <2>6, <2>8, <2>9 DEF Pending
<1>4. CASE ResetIo
  <2>1. /\ pc = "resetIo" /\ ioFd' \in {Invalid, ioFd} /\ pc' \in {"resolve", "done"}
        /\ (pc' = "resolve" => ret' = "done")
        /\ UNCHANGED <<n, parsed, failed, sends, result, owner, cliFd, wire>>
    BY <1>4 DEF ResetIo, callVars
  <2>2. Types' /\ OwnAnswer' BY <1>d, <2>1, SameCalls
  <2>3. ToSend' /\ Clean' BY <2>1 DEF ToSend, Clean, Talks, Resting
  <2>4. Pending' BY <2>1 DEF Pending, MakePcs
  <2>5. QED BY <2>2, <2>3, <2>4
<1>5. CASE Resolve
  <2>1. /\ pc = "resolve" /\ pc' \in {"socket", "fail", "thrown"}
        /\ (pc' = "thrown" => ret # "resend")
        /\ UNCHANGED <<n, parsed, failed, sends, result, owner, cliFd, ioFd, wire, ret>>
    BY <1>5 DEF Resolve, Goes, MakeKeeps, callVars, fdVars
  <2>2. Types' /\ OwnAnswer' BY <1>d, <2>1, SameCalls
  <2>3. Pending' BY <2>1 DEF Pending, MakePcs
  <2>4. ToSend' /\ Clean' BY <2>1 DEF ToSend, Clean, Talks, Resting
  <2>5. QED BY <2>2, <2>3, <2>4
<1>6. CASE Socket
  <2>1. /\ pc = "socket" /\ pc' \in {"connect", "closeCli"}
        /\ UNCHANGED <<n, parsed, failed, sends, result, ioFd, wire, ret>>
    BY <1>6 DEF Socket, MakeKeeps, callVars
  <2>2. Types' /\ OwnAnswer' BY <1>d, <2>1, SameCalls
  <2>3. Pending' BY <2>1 DEF Pending, MakePcs
  <2>4. ToSend' /\ Clean' BY <2>1 DEF ToSend, Clean, Resting
  <2>5. QED BY <2>2, <2>3, <2>4
<1>7. CASE Connect
  <2>1. /\ pc = "connect" /\ pc' = "bind"
        /\ UNCHANGED <<n, parsed, failed, sends, result, owner, cliFd, ioFd, ret>>
    BY <1>7 DEF Connect, Goes, MakeKeeps, callVars, fdVars
  <2>2. cliFd \in Fd BY <1>a, <2>1 DEF FdTypeOK
  <2>3. PICK ok \in BOOLEAN : wire' = [wire EXCEPT ![cliFd] = Wire(ok)]
    BY <1>7 DEF Connect, Outcomes
  <2>4. Wire(ok) \in WireSet /\ Empty(Wire(ok)) BY EmptySeq DEF Wire, WireSet, Empty
  <2>5. wire' \in [Fd -> WireSet] /\ Empty(wire'[cliFd]) BY <1>d, <2>2, <2>3, <2>4
  <2>6. Types' /\ OwnAnswer' BY <2>1, <2>5, SameCalls
  <2>7. Pending' BY <2>1 DEF Pending, MakePcs
  <2>8. ToSend' /\ Clean' BY <2>1, <2>5 DEF ToSend, Clean, Resting
  <2>9. QED BY <2>6, <2>7, <2>8
<1>8. CASE Bind
  <2>1. /\ pc = "bind" /\ pc' = "handshake" /\ ioFd' = cliFd
        /\ UNCHANGED <<n, parsed, failed, sends, result, cliFd, ret>>
    BY <1>8 DEF Bind, Goes, MakeKeeps, callVars
  <2>2. cliFd \in Fd /\ Empty(wire[cliFd]) BY <1>a, <2>1 DEF FdTypeOK, Clean
  <2>3. wire' \in [Fd -> WireSet] /\ \A g \in Fd : Empty(wire[g]) => Empty(wire'[g])
    <3>1. CASE ioSet BY <1>8, <1>a, <3>1, CloseKeeps DEF Bind, BindNewFd
    <3>2. CASE ~ioSet BY <1>8, <1>d, <3>2 DEF Bind
    <3>3. QED BY <3>1, <3>2
  <2>4. Types' /\ OwnAnswer' BY <2>1, <2>3, SameCalls
  <2>5. Pending' BY <2>1 DEF Pending, MakePcs
  <2>6. ToSend' /\ Clean' BY <2>1, <2>2, <2>3 DEF ToSend, Clean, Resting
  <2>7. QED BY <2>4, <2>5, <2>6
<1>9. CASE Handshake
  <2>1. /\ pc = "handshake" /\ pc' \in {"closeCli", ret} /\ ret \in {"send", "done", "resend"}
        /\ UNCHANGED <<n, parsed, failed, sends, result, owner, cliFd, ioFd, wire, ret>>
    BY <1>9 DEF Handshake, MakeKeeps, callVars, fdVars, FdTypeOK, MakePcs
  <2>2. Types' /\ OwnAnswer' BY <1>d, <2>1, SameCalls
  <2>3. Pending' BY <2>1 DEF Pending, MakePcs
  <2>4. ToSend' /\ Clean' BY <2>1 DEF ToSend, Clean, Talks, Resting
  <2>5. QED BY <2>2, <2>3, <2>4
<1>10. CASE CloseCli
  <2>1. /\ pc = "closeCli" /\ pc' = ret /\ ret \in {"send", "done", "resend"}
        /\ CloseFd(cliFd)
        /\ UNCHANGED <<n, parsed, failed, sends, result, ioFd, ret>>
    BY <1>10 DEF CloseCli, MakeKeeps, callVars, FdTypeOK, MakePcs
  <2>2. /\ wire' \in [Fd -> WireSet]
        /\ \A g \in Fd : owner'[g] = "client" => owner[g] = "client" /\ g # cliFd
    BY <1>a, <2>1, CloseKeeps
  <2>3. Types' /\ OwnAnswer' BY <2>1, <2>2, SameCalls
  <2>4. Pending' BY <2>1 DEF Pending, MakePcs
  <2>5. ~Talks' BY <1>a, <2>1, <2>2 DEF Talks, Linked
  <2>6. ToSend' /\ Clean' BY <2>1, <2>5 DEF ToSend, Clean
  <2>7. QED BY <2>3, <2>4, <2>6
<1>11. CASE Send \/ Resend
  <2>1. /\ pc \in {"send", "resend"} /\ pc' \in {"recv", "again", "recvAgain", "fail", "crashed"}
        /\ UNCHANGED <<n, parsed, result, owner, cliFd, ioFd>>
    BY <1>11 DEF Send, Resend, TrySend, callVars
  <2>2. n \in CallId /\ (Talks => Empty(wire[ioFd])) BY <1>c, <2>1 DEF Clean, Resting
  <2>3. n > 0 /\ ~(n > n) BY <2>1 DEF Types
  <2>4. sends' \in [CallId -> Nat] /\ failed' \in BOOLEAN
        /\ \A c \in CallId : c > n => sends'[c] = 0
    <3>1. failed' = failed \/ failed' = TRUE BY <1>11 DEF Send, Resend, TrySend
    <3>2. failed' \in BOOLEAN BY <3>1 DEF Types
    <3>3. sends' \in {sends, [sends EXCEPT ![n] = sends[n] + 1]}
      BY <1>11 DEF Send, Resend, TrySend
    <3>4. sends' \in [CallId -> Nat] BY <2>2, <3>3 DEF Types
    <3>5. \A c \in CallId : c > n => sends'[c] = 0 BY <2>2, <2>3, <3>3 DEF Types
    <3>6. QED BY <3>2, <3>4, <3>5
  <2>5. /\ wire' \in [Fd -> WireSet]
        /\ pc' \in {"recv", "recvAgain"} /\ Talks => Only(wire'[ioFd], n)
    BY <1>11, <1>d, <2>2, SendKeeps DEF Send, Resend, TrySend
  <2>6. Types' BY <2>1, <2>3, <2>4, <2>5 DEF Types
  <2>7. OwnAnswer' /\ Pending' BY <2>1 DEF OwnAnswer, Pending, MakePcs
  <2>8. ToSend' /\ Clean' BY <2>1, <2>5 DEF ToSend, Clean, Resting, Talks
  <2>9. QED BY <2>6, <2>7, <2>8
<1>12. CASE Recv
  <2>1. /\ pc = "recv" /\ pc' \in {"again", "answered"}
        /\ UNCHANGED <<n, sends, owner, cliFd, ioFd>>
        /\ n \in CallId /\ n > 0 /\ result[n] = None
    BY <1>12, <1>c DEF Recv, fdVars, callVars, Types, Pending
  <2>2. Talks => Only(wire[ioFd], n) BY <2>1 DEF Clean
  <2>3. CASE Silent /\ pc' = "again" /\ failed' = TRUE /\ UNCHANGED <<wire, parsed, result>>
    <3>1. Types' BY <2>1, <2>3 DEF Types
    <3>2. OwnAnswer' BY <2>1, <2>3 DEF OwnAnswer
    <3>3. ToSend' /\ Clean' /\ Pending' BY <2>1, <2>3 DEF ToSend, Clean, Resting, Pending
    <3>4. QED BY <3>1, <3>2, <3>3
  <2>4. CASE ~Silent /\ TakeAnswer
    <3>1. Talks BY <2>4 DEF Silent
    <3>2. /\ wire' \in [Fd -> WireSet] /\ Empty(wire'[ioFd])
          /\ Answer.of = n /\ Answer.part \in {"whole", "head", "body"} /\ Answer \in Res
      BY <2>1, <2>2, <2>4, <3>1, TakeKeeps
    <3>3. failed' \in BOOLEAN /\ parsed' \in {"none", "head", "body"}
          /\ (result' = result \/ (pc' = "answered" /\ parsed' = parsed
                                    /\ result' = [result EXCEPT ![n] = Answer]))
      <4>1. failed' = failed \/ failed' = TRUE BY <1>12 DEF Recv
      <4>2. failed' \in BOOLEAN BY <4>1 DEF Types
      <4>3. parsed' \in {parsed, Answer.part} BY <1>12, <2>4 DEF Recv
      <4>4. parsed' \in {"none", "head", "body"} \/ parsed' = "whole" BY <3>2, <4>3 DEF Types
      <4>5. parsed' = "whole" => parsed' = parsed BY <1>12 DEF Recv, Reads, Answer
      <4>6. parsed' \in {"none", "head", "body"} BY <4>4, <4>5 DEF Types
      <4>7. \/ result' = result
            \/ pc' = "answered" /\ parsed' = parsed /\ result' = [result EXCEPT ![n] = Answer]
        BY <1>12 DEF Recv
      <4>8. QED BY <4>2, <4>6, <4>7
    <3>4. Types' BY <2>1, <3>2, <3>3 DEF Types
    <3>5. \A c \in CallId : c > n \/ c = n \/ c < n BY <2>1 DEF CallId
    <3>6. Answer.part # "mixed" BY <3>2
    <3>7. \A c \in CallId : c > n => result[c] = None BY DEF Types
    <3>8. OwnAnswer' BY <2>1, <3>2, <3>3, <3>5, <3>6, <3>7 DEF OwnAnswer, Types
    <3>9. Pending' BY <1>12, <2>1, <3>3 DEF Pending, MakePcs, Recv
    <3>10. ToSend' /\ Clean' BY <2>1, <3>2 DEF ToSend, Clean
    <3>11. QED BY <3>4, <3>8, <3>9, <3>10
  <2>5. QED BY <1>12, <2>3, <2>4 DEF Recv, Reads
<1>13. CASE Again
  <2>1. /\ pc = "again" /\ pc' \in {"resolve", "fail"} /\ (pc' = "resolve" => ret' = "resend")
        /\ UNCHANGED <<n, parsed, failed, sends, result, owner, cliFd, ioFd, wire>>
    BY <1>13 DEF Again, Reconnects, callVars, fdVars
  <2>2. Types' /\ OwnAnswer' BY <1>d, <2>1, SameCalls
  <2>3. Pending' BY <2>1 DEF Pending, MakePcs
  <2>4. ToSend' /\ Clean' BY <2>1 DEF ToSend, Clean, Resting
  <2>5. QED BY <2>2, <2>3, <2>4
<1>15. CASE RecvAgain
  <2>1. /\ pc = "recvAgain" /\ pc' \in {"fail", "answered"}
        /\ UNCHANGED <<n, sends, parsed, failed, owner, cliFd, ioFd>>
        /\ n \in CallId /\ n > 0 /\ result[n] = None
    BY <1>15, <1>c DEF RecvAgain, fdVars, callVars, Types, Pending
  <2>2. Talks => Only(wire[ioFd], n) BY <2>1 DEF Clean
  <2>3. CASE Silent
    <3>1. wire' = wire /\ result' = result /\ pc' = "fail" BY <1>15, <2>3 DEF RecvAgain, Reads
    <3>2. Types' /\ OwnAnswer' BY <1>d, <2>1, <3>1, SameCalls
    <3>3. ToSend' /\ Clean' /\ Pending'
      BY <2>1, <3>1 DEF ToSend, Clean, Resting, Pending, MakePcs
    <3>4. QED BY <3>2, <3>3
  <2>4. CASE ~Silent
    <3>1. Talks /\ TakeAnswer BY <1>15, <2>4 DEF Silent, RecvAgain
    <3>2. /\ wire' \in [Fd -> WireSet] /\ Empty(wire'[ioFd])
          /\ Answer.of = n /\ Answer.part \in {"whole", "head", "body"} /\ Answer \in Res
      BY <2>1, <2>2, <2>4, <3>1, TakeKeeps
    <3>3. PICK a \in Res : /\ a.of = n /\ (a.part = "mixed" => parsed = "head")
                           /\ result' \in {result, [result EXCEPT ![n] = a]}
      <4> DEFINE m == [of |-> n, part |-> "mixed"]
      <4>1. m \in Res /\ m.of = n /\ m.part = "mixed" BY <2>1 DEF Res
      <4>2. result' \in {result, [result EXCEPT ![n] = IF Mixed THEN m ELSE Answer]}
        BY <1>15 DEF RecvAgain
      <4>3. CASE Mixed BY <4>1, <4>2, <4>3 DEF Mixed
      <4>4. CASE ~Mixed
        <5>1. Answer.part # "mixed" BY <3>2
        <5>2. QED BY <3>2, <4>2, <4>4, <5>1
      <4>5. QED BY <4>3, <4>4
    <3>4. Types'
      <4>1. result' \in [CallId -> Res \cup {None}] BY <2>1, <3>3 DEF Types
      <4>2. \A c \in CallId : c > n => result'[c] = None BY <2>1, <3>3 DEF Types
      <4>3. QED BY <2>1, <3>2, <4>1, <4>2 DEF Types
    <3>5. OwnAnswer' BY <2>1, <3>3 DEF OwnAnswer, Types
    <3>6. Pending' BY <2>1 DEF Pending, MakePcs
    <3>7. ToSend' /\ Clean' BY <2>1, <3>2 DEF ToSend, Clean
    <3>8. QED BY <3>4, <3>5, <3>6, <3>7
  <2>5. QED BY <2>3, <2>4
<1>16. CASE Answered
  <2>1. /\ pc = "answered" /\ pc' \in {"closeIo", "done"}
        /\ UNCHANGED <<n, parsed, failed, sends, result, owner, cliFd, ioFd, wire, ret>>
    BY <1>16 DEF Answered, Goes, callVars, fdVars
  <2>2. Types' /\ OwnAnswer' BY <1>d, <2>1, SameCalls
  <2>3. ToSend' /\ Clean' /\ Pending'
    BY <2>1 DEF ToSend, Clean, Talks, Resting, Pending, MakePcs
  <2>4. QED BY <2>2, <2>3
<1>17. CASE CloseIo
  <2>1. /\ pc \in {"closeIo", "fail"} /\ pc' \in {"thrown", "done"} /\ ioFd' = Invalid
        /\ UNCHANGED <<n, parsed, failed, sends, result>>
    BY <1>17 DEF CloseIo, AfterIoClose, callVars
  <2>a. PICK f \in Fd \cup {Invalid} : CloseFd(f) BY <1>17, <1>a DEF CloseIo, IoFds
  <2>2. wire' \in [Fd -> WireSet] BY <2>a, CloseKeeps
  <2>3. Types' /\ OwnAnswer' BY <2>1, <2>2, SameCalls
  <2>4. ToSend' /\ Clean' /\ Pending'
    BY <2>1 DEF ToSend, Clean, Talks, Pending, MakePcs
  <2>5. QED BY <2>3, <2>4
<1>18. CASE Done
  <2>1. /\ pc \in {"done", "thrown"} /\ pc' = "idle"
        /\ UNCHANGED <<n, parsed, failed, sends, owner, cliFd, ioFd, wire>>
        /\ n \in CallId /\ n > 0
    BY <1>18, <1>c DEF Done, fdVars, callVars, Types
  <2>2. PICK a \in Res : /\ a.of = n /\ a.part # "mixed"
                         /\ result' \in {result, [result EXCEPT ![n] = a]}
    <3> DEFINE e == [of |-> n, part |-> "exception"]
               v == [of |-> n, part |-> "void"]
    <3>1. e \in Res /\ v \in Res /\ e.of = n /\ v.of = n /\ e.part # "mixed" /\ v.part # "mixed"
      BY <2>1 DEF Res
    <3>2. result' \in {result, [result EXCEPT ![n] = e], [result EXCEPT ![n] = v]}
      BY <1>18 DEF Done
    <3> HIDE DEF e, v
    <3>3. QED BY <3>1, <3>2
  <2>3. Types'
    <3>1. result' \in [CallId -> Res \cup {None}] BY <2>1, <2>2 DEF Types
    <3>2. \A c \in CallId : c > n => result'[c] = None BY <2>1, <2>2 DEF Types
    <3>3. QED BY <2>1, <3>1, <3>2 DEF Types
  <2>4. OwnAnswer' BY <2>1, <2>2 DEF OwnAnswer, Types
  <2>5. ToSend' /\ Clean' /\ Pending'
    BY <2>1 DEF ToSend, Clean, Talks, Resting, Pending, MakePcs
  <2>6. QED BY <2>3, <2>4, <2>5
<1>19. CASE UNCHANGED vars
  <2>1. UNCHANGED <<n, parsed, failed, sends, result, owner, cliFd, ioFd, wire, pc, ret>>
    BY <1>19 DEF vars, callVars, fdVars
  <2>2. Types' /\ OwnAnswer' /\ Pending' /\ ToSend'
    BY <2>1 DEF Types, OwnAnswer, Pending, ToSend
  <2>3. Clean' BY <2>1 DEF Clean, Talks
  <2>4. QED BY <2>2, <2>3
<1>20. QED
  BY <1>1, <1>2, <1>3, <1>4, <1>5, <1>6, <1>7, <1>8, <1>9, <1>10, <1>11, <1>12, <1>13, <1>15,
     <1>16, <1>17, <1>18, <1>19 DEF Next, WorkerStep, MakeSocket

-----------------------------------------------------------------------------
(* Sending twice. *)

LEMMA SendInit == Init => SendInv
BY DEF Init, SendInv, MakePcs

LEMMA SendStep == ASSUME FdInv, WireInv, SendInv, [Next]_vars PROVE SendInv'
<1> USE DEF SendInv, MakePcs
<1>a. n \in 0..MaxCalls /\ sends \in [CallId -> Nat] /\ (pc # "idle" => n > 0)
  BY DEF WireInv, Types
<1>b. pc # "idle" => n \in CallId /\ sends[n] \in Nat BY <1>a DEF CallId
<1>1. ASSUME NEW f \in Fd, ServerAnswers(f) \/ ServerCloses(f) PROVE SendInv'
  BY <1>1 DEF ServerAnswers, ServerCloses, callVars
<1>2. CASE OtherOpens BY <1>2 DEF OtherOpens, callVars
<1>3. CASE Begin
  <2>1. n' = n + 1 /\ n < MaxCalls /\ sends' = sends BY <1>3 DEF Begin
  <2>2. n' \in CallId /\ n' > n BY <1>a, <2>1 DEF CallId, ClientAssumption
  <2>3. sends'[n'] = 0 BY <2>1, <2>2 DEF WireInv, Types
  <2>4. pc' \in {"resolve", "send", "resetIo", "closeIo"}
        /\ (pc' = "resolve" => ret' \in {"send", "done"})
    BY <1>3 DEF Begin, Sends, ClientAssumption
  <2>5. QED BY <2>3, <2>4
<1>4. CASE ResetIo BY <1>4 DEF ResetIo, callVars
<1>5. CASE Resolve BY <1>5 DEF Resolve, Goes, MakeKeeps, callVars
<1>6. CASE Socket BY <1>6 DEF Socket, MakeKeeps, callVars
<1>7. CASE Connect BY <1>7 DEF Connect, Goes, MakeKeeps, callVars
<1>8. CASE Bind BY <1>8 DEF Bind, Goes, MakeKeeps, callVars
<1>9. CASE Handshake BY <1>9 DEF Handshake, MakeKeeps, callVars, FdInv, FdTypeOK
<1>10. CASE CloseCli BY <1>10 DEF CloseCli, MakeKeeps, callVars, FdInv, FdTypeOK
<1>11. CASE Send
  <2>1. n \in CallId /\ sends[n] = 0 /\ n' = n /\ op' = op /\ pc' \in {"recv", "again", "crashed"}
        /\ (pc' = "again" => failed')
    BY <1>11, <1>b DEF Send, TrySend, callVars
  <2>2. sends'[n] <= 1 BY <1>11, <1>a, <2>1 DEF Send, TrySend
  <2>3. QED BY <2>1, <2>2
<1>12. CASE Resend
  <2>1. (failed \/ op = "upload") /\ op' = op /\ n' = n /\ (failed => failed')
        /\ pc' \in {"recvAgain", "fail", "crashed"}
    BY <1>12 DEF Resend, TrySend, callVars
  <2>2. QED BY <2>1
<1>13. CASE Recv
  <2>1. op' = op /\ n' = n /\ sends' = sends /\ (failed => failed')
        /\ pc' \in {"again", "answered"} /\ (pc' = "again" => failed' \/ op = "upload")
    BY <1>13 DEF Recv, ParsesTwice, callVars
  <2>2. QED BY <2>1
<1>14. CASE Again BY <1>14 DEF Again, Reconnects, callVars
<1>15. CASE RecvAgain BY <1>15 DEF RecvAgain, callVars
<1>16. CASE Answered BY <1>16 DEF Answered, Goes, callVars
<1>17. CASE CloseIo BY <1>17 DEF CloseIo, callVars
<1>18. CASE Done BY <1>18 DEF Done, callVars
<1>19. CASE UNCHANGED vars BY <1>19 DEF vars, callVars
<1>20. QED
  BY <1>1, <1>2, <1>3, <1>4, <1>5, <1>6, <1>7, <1>8, <1>9, <1>10, <1>11, <1>12, <1>13, <1>14,
     <1>15, <1>16, <1>17, <1>18, <1>19 DEF Next, WorkerStep, MakeSocket

-----------------------------------------------------------------------------
IInv == FdInv /\ WireInv /\ SendInv

LEMMA InvariantHolds == Spec => []IInv
<1>1. Init => IInv BY FdInit, WireInit, SendInit DEF IInv
<1>2. IInv /\ [Next]_vars => IInv' BY FdStep, WireStep, SendStep DEF IInv
<1>3. QED BY <1>1, <1>2, PTL DEF Spec

(* The client (HttpClient.hpp, IO.hpp) never closes or writes to a         *)
(* descriptor the system has given to somebody else, unless makeSocket has *)
(* failed: before _io was constructed and it is used, or after it was      *)
(* bound.                                                                  *)
THEOREM OwnDescriptors == Spec => []NothingForeign
<1>1. IInv => NothingForeign BY DEF IInv, FdInv, OwnFds, NothingForeign
<1>2. QED BY <1>1, InvariantHolds, PTL

(* Whatever answers come late, and whatever was sent twice, the future of  *)
(* a call gets the answer to that call's request.                          *)
THEOREM AnswersMatch == Spec => []OwnAnswer
<1>1. IInv => OwnAnswer BY DEF IInv, WireInv
<1>2. QED BY <1>1, InvariantHolds, PTL

(* coRequest sends a request a second time only after its first attempt    *)
(* failed as the client sees it; coUploadChunked always sends twice.       *)
THEOREM SecondSendAfterFailure == Spec => []ResentOnlyAfterFailure
<1>1. IInv => ResentOnlyAfterFailure
  BY DEF IInv, SendInv, WireInv, ResentOnlyAfterFailure
<1>2. QED BY <1>1, InvariantHolds, PTL

===============================================================================
