------------------------------ MODULE HttpClient ------------------------------
(***************************************************************************)
(* HX::net::HttpClient (net/client/HttpClient.hpp) and the HttpIO it holds *)
(* (net/socket/IO.hpp): one worker executes the calls of its owner one     *)
(* after the other over a kept-alive connection that the server may close, *)
(* that may stay silent, or that may break off within an answer; a request *)
(* that fails is sent once more over a new connection.                     *)
(*                                                                         *)
(* Descriptors are small numbers that the system gives out again, lowest   *)
(* first, also to the rest of the program.  The owner waits for its        *)
(* futures before it calls close() or the destructor.                      *)
(***************************************************************************)
EXTENDS Integers, Sequences, FiniteSets, FiniteSetsExt

CONSTANTS
  Ops,          \* calls: "request", "requestClose", "upload", "connect", "close"
  MayFail,      \* steps that may fail: "resolve", "socket", "connect", "handshake"
  AutoReconnect,   \* _isAutoReconnect
  MaxCalls,     \* bound: calls
  MaxFd,        \* bound: descriptors
  None

Invalid == -1      \* kInvalidSocket

ASSUME ClientAssumption ==
  /\ Ops \subseteq {"request", "requestClose", "upload", "connect", "close"}
  /\ MayFail \subseteq {"resolve", "socket", "connect", "handshake"}
  /\ AutoReconnect \in BOOLEAN /\ MaxCalls \in Nat /\ MaxFd \in Nat

Fd == 0..MaxFd
CallId == 1..MaxCalls

VARIABLES
  owner,           \* per descriptor: "free", "client", "other" (part of the program)
  wire,            \* per descriptor: the connection it names
  cliFd, ioFd, ioSet,   \* _cliFd; _io's _fd, and whether _io was constructed
  n, op,           \* the current call, what it is
  pc, ret,         \* where the worker is; where makeSocket returns to
  parsed,          \* what the Response has seen of an answer cut off: "none", "head", "body"
  failed,          \* the first attempt failed
  sends,           \* per call: how often it was sent
  result,          \* per call: what its future holds
  foreign,         \* history: a descriptor that was not the client's was used
  stranded,        \* history: makeSocket closed a descriptor that _io holds
  unset,           \* history: _io was used and had never been constructed
  build            \* "debug", or "release" (NDEBUG); never changes

historyVars == <<foreign, stranded, unset, build>>
fdVars == <<owner, cliFd, ioFd, ioSet, historyVars>>
callVars == <<n, op>>
vars == <<fdVars, wire, callVars, pc, ret, parsed, failed, sends, result>>

(* A connection: whether the peer is there, its requests not answered and  *)
(* its answers not read.                                                   *)
Wire(up) == [up |-> up, reqs |-> <<>>, answers |-> <<>>]

Init ==
  /\ owner = [f \in Fd |-> "free"] /\ cliFd = Invalid /\ ioFd = Invalid /\ ioSet = FALSE
  /\ wire = [f \in Fd |-> Wire(FALSE)]
  /\ n = 0 /\ op = None
  /\ pc = "idle" /\ ret = None /\ parsed = "none" /\ failed = FALSE
  /\ sends = [c \in CallId |-> 0] /\ result = [c \in CallId |-> None]
  /\ foreign = FALSE /\ stranded = FALSE /\ unset = FALSE
  /\ build \in {"debug", "release"}

Free == {f \in Fd : owner[f] = "free"}
Goes(from, to) == pc = from /\ pc' = to
Outcomes(step) == IF step \in MayFail THEN BOOLEAN ELSE {TRUE}
Talks == ioFd # Invalid /\ owner[ioFd] = "client"

(* What _io may name.  Uninitialized::get() does not look whether there is *)
(* an object: before _io.set() the descriptor is whatever the storage      *)
(* holds.                                                                  *)
IoFds == IF ioSet THEN {ioFd} ELSE Fd \cup {Invalid}
ByOther(f) == f # Invalid /\ owner[f] = "other"

(* close(f): closing a free number fails without effect.                   *)
CloseFd(f) ==
  /\ owner' = IF f = Invalid THEN owner ELSE [owner EXCEPT ![f] = "free"]
  /\ wire' = IF f = Invalid THEN wire ELSE [wire EXCEPT ![f] = Wire(FALSE)]
  /\ foreign' = (foreign \/ ByOther(f))

-----------------------------------------------------------------------------
(* The server and the rest of the program. *)

(* A request is answered, however late.                                    *)
ServerAnswers(f) ==
  /\ wire[f].up /\ wire[f].reqs # <<>>
  /\ wire' = [wire EXCEPT ![f].reqs = Tail(@),
                          ![f].answers = Append(@, [of |-> Head(wire[f].reqs), part |-> "whole"])]
  /\ UNCHANGED <<fdVars, callVars, pc, ret, parsed, failed, sends, result>>

(* The connection goes down, possibly within an answer.                    *)
ServerCloses(f) ==
  /\ wire[f].up
  /\ \E cut \in {<<>>} \cup (IF wire[f].reqs = <<>> THEN {}
                             ELSE {<<[of |-> Head(wire[f].reqs), part |-> part]>> :
                                     part \in {"head", "body"}}) :
       wire' = [wire EXCEPT ![f] = [up |-> FALSE, reqs |-> <<>>, answers |-> @.answers \o cut]]
  /\ UNCHANGED <<fdVars, callVars, pc, ret, parsed, failed, sends, result>>

(* Another part of the program opens a file.                               *)
OtherOpens ==
  /\ Cardinality(Free) > 2
  /\ ~\E f \in Fd : owner[f] = "other"
  /\ owner' = [owner EXCEPT ![Min(Free)] = "other"]
  /\ UNCHANGED <<cliFd, ioFd, ioSet, historyVars, wire, callVars, pc, ret, parsed, failed, sends,
                 result>>

-----------------------------------------------------------------------------
(* A call begins: coRequest, coUploadChunked, coConnect, close. *)

Sends(o) == o \in {"request", "requestClose", "upload"}

Begin ==
  /\ pc = "idle" /\ n < MaxCalls
  /\ n' = n + 1 /\ parsed' = "none" /\ failed' = FALSE
  /\ \E o \in Ops :
       /\ op' = o
       /\ CASE Sends(o) /\ cliFd = Invalid -> pc' = "resolve" /\ ret' = "send"
            [] Sends(o) /\ cliFd # Invalid -> pc' = "send" /\ UNCHANGED ret
            [] o = "connect" /\ cliFd = Invalid -> pc' = "resetIo" /\ UNCHANGED ret
            [] o = "connect" /\ cliFd # Invalid -> pc' = "resolve" /\ ret' = "done"
            [] o = "close" -> pc' = (IF cliFd = Invalid THEN "resetIo" ELSE "closeIo") /\ UNCHANGED ret
  /\ UNCHANGED <<fdVars, wire, sends, result>>

(* coClose without a connection: HttpIO::reset forgets the descriptor, and *)
(* only in a debug build.  What it writes before _io.set() is overwritten  *)
(* there.                                                                  *)
ResetIo ==
  /\ pc = "resetIo"
  /\ ioFd' = IF build = "debug" THEN Invalid ELSE ioFd
  /\ IF op = "connect" THEN pc' = "resolve" /\ ret' = "done" ELSE pc' = "done" /\ UNCHANGED ret
  /\ UNCHANGED <<owner, cliFd, ioSet, historyVars, wire, callVars, parsed, failed, sends, result>>

-----------------------------------------------------------------------------
(* makeSocket. *)

MakeKeeps == UNCHANGED <<callVars, ret, parsed, failed, sends, result>>

(* It throws to the caller: sendReq closes, coRequest does not.            *)
Resolve ==
  /\ \E ok \in Outcomes("resolve") :
       Goes("resolve", IF ok THEN "socket"
                       ELSE IF ret = "resend" THEN "fail" ELSE "thrown")
  /\ UNCHANGED <<fdVars, wire>> /\ MakeKeeps

Socket ==
  /\ pc = "socket"
  /\ \/ /\ Free # {}
        /\ cliFd' = Min(Free)
        /\ owner' = [owner EXCEPT ![Min(Free)] = "client"]
        /\ pc' = "connect"
     \/ "socket" \in MayFail /\ pc' = "closeCli" /\ UNCHANGED <<owner, cliFd>>
  /\ UNCHANGED <<ioFd, ioSet, historyVars, wire>> /\ MakeKeeps

(* The result of connect is not looked at.                                 *)
Connect ==
  /\ Goes("connect", "bind")
  /\ \E ok \in Outcomes("connect") : wire' = [wire EXCEPT ![cliFd] = Wire(ok)]
  /\ UNCHANGED fdVars /\ MakeKeeps

(* HttpIO::bindNewFd closes the old descriptor.                            *)
BindNewFd == CloseFd(ioFd)

Bind ==
  /\ Goes("bind", "handshake")
  /\ IF ioSet THEN BindNewFd ELSE UNCHANGED <<owner, wire, foreign>>
  /\ ioFd' = cliFd /\ ioSet' = TRUE
  /\ UNCHANGED <<cliFd, stranded, unset, build>> /\ MakeKeeps

(* The proxy or the TLS handshake may throw; the exception stays here, and *)
(* _io still has the descriptor that is closed.                            *)
Handshake ==
  /\ pc = "handshake"
  /\ \E ok \in Outcomes("handshake") : pc' = IF ok THEN ret ELSE "closeCli"
  /\ UNCHANGED <<fdVars, wire>> /\ MakeKeeps

CloseCli ==
  /\ pc = "closeCli" /\ pc' = ret
  /\ CloseFd(cliFd)
  /\ cliFd' = Invalid
  /\ stranded' = (stranded \/ ioFd # Invalid)
  /\ UNCHANGED <<ioFd, ioSet, unset, build>> /\ MakeKeeps

-----------------------------------------------------------------------------
(* sendReq and coUploadChunked. *)

(* A send goes into the connection, even if the peer has just closed it,   *)
(* or fails.  After a makeSocket that failed before _io.set(), it writes   *)
(* to whatever _io names, on whatever event loop: the program may end.     *)
TrySend(ok, lost) ==
  /\ UNCHANGED <<owner, cliFd, ioFd, ioSet, stranded, build, callVars, ret, parsed, result>>
  /\ \/ /\ Talks
        /\ pc' = ok
        /\ sends' = [sends EXCEPT ![n] = @ + 1]
        /\ wire' = IF wire[ioFd].up
                   THEN [wire EXCEPT ![ioFd].reqs = Append(@, n)]
                   ELSE wire
        /\ UNCHANGED <<failed, foreign, unset>>
     \/ /\ Talks => ~wire[ioFd].up
        /\ pc' = lost /\ failed' = TRUE
        /\ \E f \in IoFds : foreign' = (foreign \/ ByOther(f))
        /\ unset' = (unset \/ ~ioSet)
        /\ UNCHANGED <<sends, wire>>
     \/ /\ ~ioSet
        /\ pc' = "crashed" /\ unset' = TRUE
        /\ UNCHANGED <<failed, foreign, sends, wire>>

Send == pc = "send" /\ TrySend("recv", "again")
Resend == pc = "resend" /\ TrySend("recvAgain", "fail")

Silent == IF Talks THEN wire[ioFd].answers = <<>> ELSE TRUE
Reads(parts) == ~Silent /\ Head(wire[ioFd].answers).part \in parts
Answer == Head(wire[ioFd].answers)

TakeAnswer == wire' = [wire EXCEPT ![ioFd].answers = Tail(@)]

(* Mutant: coRequest does, too.                                            *)
ParsesTwiceAlways == TRUE

(* uploadChunked parses the body a second time after parserRes, and that   *)
(* throws.                                                                 *)
ParsesTwice == op = "upload"

(* The first attempt: an answer, nothing in time, or the connection ends,  *)
(* possibly within the answer.                                             *)
Recv ==
  /\ pc = "recv"
  /\ \/ /\ Reads({"whole"})
        /\ TakeAnswer
        /\ IF ParsesTwice
           THEN pc' = "again" /\ UNCHANGED result
           ELSE pc' = "answered" /\ result' = [result EXCEPT ![n] = Answer]
        /\ UNCHANGED <<parsed, failed>>
     \/ /\ Reads({"head", "body"})
        /\ TakeAnswer
        /\ pc' = "again" /\ failed' = TRUE /\ parsed' = Answer.part
        /\ UNCHANGED result
     \/ /\ Silent
        /\ pc' = "again" /\ failed' = TRUE
        /\ UNCHANGED <<wire, parsed, result>>
  /\ UNCHANGED <<fdVars, callVars, ret, sends>>

(* Mutant: the request is sent again over the same connection.             *)
ReconnectsSameSocket == IF ioFd = Invalid THEN "resolve" ELSE "resend"

(* makeSocket comes first.                                                 *)
Reconnects == "resolve"

Again ==
  /\ pc = "again"
  /\ IF AutoReconnect \/ op = "upload"
     THEN pc' = Reconnects /\ ret' = "resend"
     ELSE pc' = "fail" /\ UNCHANGED ret
  /\ UNCHANGED <<fdVars, wire, callVars, parsed, failed, sends, result>>

(* The second attempt goes on with the Response of the first, whose body   *)
(* may not be parsed twice and whose head keeps what it has; coUpload-     *)
(* Chunked takes a new one.                                                *)
Mixed == parsed = "head" /\ op # "upload"

RecvAgain ==
  /\ pc = "recvAgain"
  /\ \/ /\ Reads({"whole"}) /\ (parsed # "body" \/ op = "upload")
        /\ pc' = "answered"
        /\ result' = [result EXCEPT ![n] =
             IF Mixed THEN [of |-> n, part |-> "mixed"] ELSE Answer]
     \/ /\ ~(Reads({"whole"}) /\ (parsed # "body" \/ op = "upload"))
        /\ pc' = "fail" /\ UNCHANGED result
  /\ IF Silent THEN UNCHANGED wire ELSE TakeAnswer
  /\ UNCHANGED <<fdVars, callVars, ret, parsed, failed, sends>>

(* With "Connection: close" the client closes.                             *)
Answered ==
  /\ Goes("answered", IF op = "requestClose" THEN "closeIo" ELSE "done")
  /\ UNCHANGED <<fdVars, wire, callVars, ret, parsed, failed, sends, result>>

(* Mutant: HttpIO::close leaves its _fd as it is.                          *)
AfterIoCloseKept == ioFd

AfterIoClose == Invalid

(* HttpIO::close and _cliFd = kInvalidSocket: after an answer, in coClose, *)
(* and before the exception is rethrown.                                   *)
CloseIo ==
  /\ pc \in {"closeIo", "fail"}
  /\ pc' = IF pc = "fail" THEN "thrown" ELSE "done"
  /\ \E f \in IoFds : CloseFd(f)
  /\ unset' = (unset \/ ~ioSet)
  /\ ioFd' = AfterIoClose /\ cliFd' = Invalid
  /\ UNCHANGED <<ioSet, stranded, build, callVars, ret, parsed, failed, sends, result>>

(* The future is ready.                                                    *)
Done ==
  /\ pc \in {"done", "thrown"}
  /\ pc' = "idle"
  /\ result' = IF pc = "thrown" THEN [result EXCEPT ![n] = [of |-> n, part |-> "exception"]]
               ELSE IF Sends(op) THEN result
               ELSE [result EXCEPT ![n] = [of |-> n, part |-> "void"]]
  /\ UNCHANGED <<fdVars, wire, callVars, ret, parsed, failed, sends>>

-----------------------------------------------------------------------------
MakeSocket == Resolve \/ Socket \/ Connect \/ Bind \/ Handshake \/ CloseCli

WorkerStep ==
  \/ Begin \/ ResetIo \/ MakeSocket
  \/ Send \/ Recv \/ Again \/ Resend \/ RecvAgain \/ Answered \/ CloseIo \/ Done

Next ==
  \/ WorkerStep
  \/ \E f \in Fd : ServerAnswers(f) \/ ServerCloses(f)
  \/ OtherOpens

Spec == Init /\ [][Next]_vars

-----------------------------------------------------------------------------
(* Properties *)

(* A call is answered with the answer to itself, however late the server   *)
(* is and whatever was sent twice before: no answer is left in a           *)
(* connection that is used again.  One broken off within its head is the   *)
(* exception: the second attempt parses on from it.                        *)
OwnAnswer ==
  \A c \in CallId :
    result[c] # None =>
      /\ result[c].of = c
      /\ result[c].part = "mixed" => parsed = "head" \/ c < n

(* It never closes or writes to a descriptor that the system has given to  *)
(* somebody else, unless makeSocket has failed in one of two ways: before  *)
(* _io was constructed, so that the send and the close use what is not     *)
(* there, or after it was bound, so that _io keeps a closed number.        *)
NothingForeign == foreign => stranded \/ unset

(* coRequest sends a request again only after its send failed, nothing     *)
(* came in time, or the answer broke off; an answer it could read is the   *)
(* last of the request.  The server may have executed the first one all    *)
(* the same: it may be late.  An upload is always sent twice.              *)
ResentOnlyAfterFailure ==
  n > 0 /\ sends[n] = 2 => failed \/ op = "upload"

===============================================================================
