----------------------------- MODULE HttpMessages -----------------------------
(***************************************************************************)
(* Requests and responses over one kept-alive connection: what             *)
(* HX::net::HttpRequest and HttpResponse write, and the incremental        *)
(* parsers that read it (protocol/http/Request.hpp, Response.hpp), driven  *)
(* by server/ConnectionHandler.hpp on one side and by HttpClient on the    *)
(* other.  The stream is cut into reads at any place.                      *)
(*                                                                         *)
(* A symbol stands for what no property tells apart: "L" the text of a     *)
(* request or status line, "len" and "te" the names of the two headers     *)
(* that say how the body is framed, Number[k] the text of the size k.  CR  *)
(* and LF are symbols of their own, and so is every byte of a body.  The   *)
(* buffers are large enough.                                               *)
(***************************************************************************)
EXTENDS Integers, Sequences, SequencesExt, FiniteSetsExt

CONSTANTS
  Data,           \* the bytes of bodies
  Payloads,       \* bodies: sequences of these
  Number,         \* the text of each size
  ReqFramings, ResFramings,   \* how they are sent: "none", "length", "chunked"
  ChunkSize,      \* FileUtils::kBufMaxSize: what one file read returns
  MaxExchanges,   \* bound: requests on the connection
  FollowMisread   \* bound: FALSE stops reading where the stream has been misread

CR == "\r"
LF == "\n"
CRLF == <<CR, LF>>

ASSUME MessagesAssumption ==
  /\ \A b \in Payloads : b \in Seq(Data) /\ 0..Len(b) \subseteq DOMAIN Number
  /\ DOMAIN Number \subseteq Nat
  /\ \A k \in DOMAIN Number : Number[k] \notin {CR, LF, "L", "len", "te"}
  /\ \A k, l \in DOMAIN Number : Number[k] = Number[l] => k = l
  /\ ReqFramings \cup ResFramings \subseteq {"none", "length", "chunked"}
  /\ ChunkSize \in Nat \ {0} /\ MaxExchanges \in Nat /\ FollowMisread \in BOOLEAN

Dir == {"req", "res"}

VARIABLES
  net,        \* per direction: bytes on their way
  p,          \* per direction: the HttpRequest or HttpResponse that parses
  spc, cpc,   \* where the handler of the server and the client are
  sent,       \* per direction: history: the payloads of the messages written
  n,          \* per direction: messages parsed
  torn,       \* per direction: history: a chunked message was given up before its end
              \* had arrived, or with bytes of the next one
  stale       \* per direction: the size of a complete chunk was taken for a pending one

vars == <<net, p, spc, cpc, sent, n, torn, stale>>

(* A parser: its _recvBuf, its line, whether the head is complete, the     *)
(* framing its headers say, _remainingBodyLen, _body, _completeBody.       *)
None == -1
Fresh ==
  [at |-> "recv", buf |-> <<>>, line |-> <<>>, head |-> FALSE, framing |-> "none", len |-> 0,
   rem |-> None, body |-> <<>>, marked |-> FALSE, whole |-> FALSE]

Init ==
  /\ net = [d \in Dir |-> <<>>]
  /\ p = [d \in Dir |-> Fresh]
  /\ spc = "head" /\ cpc = "idle"
  /\ sent = [d \in Dir |-> <<>>]
  /\ n = [d \in Dir |-> 0]
  /\ torn = [d \in Dir |-> FALSE] /\ stale = [d \in Dir |-> FALSE]

-----------------------------------------------------------------------------
(* Writing. *)

Header(framing, b) ==
  CASE framing = "length" -> <<"len", Number[Len(b)]>> \o CRLF
    [] framing = "chunked" -> <<"te">> \o CRLF
    [] OTHER -> <<>>
LineAndHead(framing, b) == <<"L">> \o CRLF \o Header(framing, b) \o CRLF

(* _buildToChunkedEncoding writes the size; CRLF before it ends the chunk  *)
(* before.                                                                 *)
SizeLine(first, size) == (IF first THEN <<>> ELSE CRLF) \o <<Number[size]>> \o CRLF
LastChunk == SizeLine(FALSE, 0) \o CRLF

(* The loops of sendChunkedReq and useChunkedEncodingTransferFile, from a  *)
(* read of the file at offset o on.  The read that returns nothing is a    *)
(* chunk, too, except in a response that has chunks before it.             *)
ReadEnd(b, o) == Min({o + ChunkSize, Len(b)})
ChunksFrom(d, b) ==
  LET from[o \in 0..Len(b)] ==
        IF o < Len(b)
        THEN SizeLine(o = 0, ReadEnd(b, o) - o) \o SubSeq(b, o + 1, ReadEnd(b, o))
               \o from[ReadEnd(b, o)]
        ELSE (IF d = "res" /\ o > 0 THEN <<>> ELSE SizeLine(o = 0, 0)) \o LastChunk
  IN  from

Body(d, framing, b) ==
  CASE framing = "length" -> b
    [] framing = "chunked" -> ChunksFrom(d, b)[0]
    [] OTHER -> <<>>
Message(d, framing, b) == LineAndHead(framing, b) \o Body(d, framing, b)

Write(d, framings) ==
  \E framing \in framings, b \in Payloads :
    /\ framing = "none" => b = <<>>
    /\ net' = [net EXCEPT ![d] = @ \o Message(d, framing, b)]
    /\ sent' = [sent EXCEPT ![d] = Append(@, b)]

-----------------------------------------------------------------------------
(* Reading. *)

SizeOf(text) == CHOOSE k \in DOMAIN Number : Number[k] = text

(* buf.find(CRLF): the length of the text before it, None without one.     *)
Find(buf) ==
  LET found == {i \in 1..(Len(buf) - 1) : buf[i] = CR /\ buf[i + 1] = LF}
  IN  IF found = {} THEN None ELSE Min(found) - 1
Text(buf) == SubSeq(buf, 1, Find(buf))
After(buf, k) == SubSeq(buf, k + 1, Len(buf))

Becomes(d, q) == p' = [p EXCEPT ![d] = q]
ParserKeeps == UNCHANGED <<net, spc, cpc, sent, n, torn>>

(* recvLinkTimeout into what the parse function asks for.                  *)
Room(q) == IF q.head /\ q.framing = "length" THEN q.rem ELSE Len(net["req"]) + Len(net["res"])

Misread(d) == stale[d] \/ torn[d]

Recv(d) ==
  /\ p[d].at = "recv"
  /\ Misread(d) => FollowMisread
  /\ \E k \in 1..Min({Len(net[d]), Room(p[d])}) :
       /\ Becomes(d, [p[d] EXCEPT
            !.buf = @ \o SubSeq(net[d], 1, k),
            !.at = IF p[d].head THEN "body" ELSE IF p[d].line = <<>> THEN "line" ELSE "header"])
       /\ net' = [net EXCEPT ![d] = After(@, k)]
  /\ UNCHANGED <<spc, cpc, sent, n, torn, stale>>

(* The request or status line: a line of fewer than three words is not     *)
(* consumed, and an empty one has no words.                                *)
ParseLine(d) ==
  /\ p[d].at = "line"
  /\ LET q == p[d] IN
       Becomes(d,
         IF Find(q.buf) = None THEN [q EXCEPT !.at = "recv"]
         ELSE IF Contains(Text(q.buf), "L")
              THEN [q EXCEPT !.line = Text(q.buf), !.buf = After(@, Find(q.buf) + 2), !.at = "header"]
              ELSE [q EXCEPT !.line = Text(q.buf), !.at = "recv"])
  /\ ParserKeeps /\ UNCHANGED stale

(* One header.  A text that is none continues the header before it, if     *)
(* there is one.                                                           *)
ParseHeader(d) ==
  /\ p[d].at = "header"
  /\ LET q == p[d]
         text == Text(q.buf)
         rest == After(q.buf, Find(q.buf) + 2)
     IN Becomes(d,
          CASE Find(q.buf) = None -> [q EXCEPT !.at = "recv"]
            [] Find(q.buf) = 0 -> [q EXCEPT !.buf = rest, !.head = TRUE, !.at = "ready"]
            [] Find(q.buf) > 0 /\ text[1] = "te" ->
                 [q EXCEPT !.buf = rest, !.framing = IF @ = "none" THEN "chunked" ELSE @]
            [] Find(q.buf) > 0 /\ text[1] = "len" ->
                 [q EXCEPT !.buf = rest, !.framing = "length",
                           !.len = SizeOf(text[2])]
            [] OTHER -> [q EXCEPT !.at = "undefined"])
  /\ ParserKeeps /\ UNCHANGED stale

-----------------------------------------------------------------------------
(* _parserReqBody. *)

(* Content-Length.                                                         *)
Remaining(q) == IF q.rem = None THEN q.len ELSE q.rem

ParseLength(d) ==
  /\ p[d].at = "body" /\ p[d].framing = "length"
  /\ LET q == p[d]
         left == Remaining(q) - Len(q.buf)
     IN Becomes(d,
          IF Remaining(q) = 0 THEN [q EXCEPT !.rem = 0, !.at = "done"]
          ELSE [q EXCEPT !.body = @ \o q.buf, !.buf = <<>>, !.rem = left,
                         !.at = IF left = 0 THEN "done" ELSE "recv"])
  /\ ParserKeeps /\ UNCHANGED stale

ParseNone(d) ==
  /\ p[d].at = "body" /\ p[d].framing = "none"
  /\ Becomes(d, [p[d] EXCEPT !.at = "done"])
  /\ ParserKeeps /\ UNCHANGED stale

(* Mutant: the CR after the chunk counts as its data.                      *)
UnfinishedOffByOne(q, size) == Len(q.buf) <= size + 1

Unfinished(q, size) == Len(q.buf) <= size

TakePart(q, size) ==
  [q EXCEPT !.body = @ \o q.buf, !.rem = size - Len(q.buf), !.buf = <<>>, !.whole = FALSE,
            !.at = "recv"]

(* The rest of a chunk that was not complete; the size of the last one     *)
(* that was is still there, and is taken for one.                          *)
ParsePending(d) ==
  /\ p[d].at = "body" /\ p[d].framing = "chunked" /\ p[d].rem # None
  /\ LET q == p[d] IN
       Becomes(d,
         IF Unfinished(q, q.rem) THEN TakePart(q, q.rem)
         ELSE [q EXCEPT !.body = @ \o SubSeq(q.buf, 1, q.rem),
                        !.buf = After(@, Min({q.rem + 2, Len(@)})),
                        !.rem = None, !.at = "chunk"])
  /\ stale' = [stale EXCEPT ![d] = @ \/ p[d].whole]
  /\ ParserKeeps

ParseFirst(d) ==
  /\ p[d].at = "body" /\ p[d].framing = "chunked" /\ p[d].rem = None
  /\ Becomes(d, [p[d] EXCEPT !.at = "chunk"])
  /\ ParserKeeps /\ UNCHANGED stale

(* strToNum in base 16: every symbol counts for something.                 *)
Digit(s) == IF \E k \in DOMAIN Number : Number[k] = s THEN SizeOf(s)
            ELSE IF s \in {CR, LF} THEN 0 ELSE 33
StrToNum(text) ==
  LET value[i \in 0..Len(text)] == IF i = 0 THEN 0 ELSE 16 * value[i - 1] + Digit(text[i])
  IN  value[Len(text)]

(* The CRLF of the chunk before, read late.                                *)
SkipsCrlf(q) == Find(q.buf) = 0

(* One chunk.  Its data is there but only half of the CRLF behind: substr  *)
(* throws.                                                                 *)
ParseChunk(d) ==
  /\ p[d].at = "chunk"
  /\ LET q == p[d]
         size == StrToNum(Text(q.buf))
         r == [q EXCEPT !.buf = After(@, Find(q.buf) + 2)]
     IN Becomes(d,
          CASE Find(q.buf) = None -> [q EXCEPT !.at = "recv"]
            [] Find(q.buf) # None /\ SkipsCrlf(q) -> r
            [] Find(q.buf) # None /\ ~SkipsCrlf(q) /\ size = 0 -> [q EXCEPT !.rem = 0, !.at = "done"]
            [] OTHER ->
                 IF Unfinished(r, size) THEN TakePart(r, size)
                 ELSE [r EXCEPT !.body = @ \o SubSeq(r.buf, 1, size), !.rem = size, !.whole = TRUE,
                                !.buf = After(@, size + 2),
                                !.at = IF Len(r.buf) = size + 1 THEN "threw" ELSE "chunk"])
  /\ ParserKeeps /\ UNCHANGED stale

ParseBody(d) == ParseLength(d) \/ ParseNone(d) \/ ParsePending(d) \/ ParseFirst(d) \/ ParseChunk(d)

(* parseBody, once for every message.                                      *)
BeginBody(d) == Becomes(d, [p[d] EXCEPT !.at = "body", !.marked = TRUE])

-----------------------------------------------------------------------------
(* ConnectionHandler: the endpoint parses the body or leaves it to clear. *)

ServerKeeps == UNCHANGED <<cpc, stale>>

EndpointParses ==
  /\ spc = "head" /\ p["req"].at = "ready"
  /\ spc' = "endpoint"
  /\ BeginBody("req")
  /\ UNCHANGED <<net, sent, n, torn>> /\ ServerKeeps

(* sendRes or useChunkedEncodingTransferFile.                              *)
Reply ==
  /\ \/ spc = "head" /\ p["req"].at = "ready"
     \/ spc = "endpoint" /\ p["req"].at = "done"
  /\ spc' = "clear"
  /\ Write("res", ResFramings)
  /\ UNCHANGED <<p, n, torn>> /\ ServerKeeps

(* Request::clear parses a body the endpoint has not.                      *)
NeedsBody(q) == ~q.marked

ClearParses ==
  /\ spc = "clear" /\ p["req"].at = "ready" /\ NeedsBody(p["req"])
  /\ spc' = "clearing"
  /\ BeginBody("req")
  /\ UNCHANGED <<net, sent, n, torn>> /\ ServerKeeps

(* Mutant: _remainingBodyLen is not reset.                                 *)
ClearedKeepsRemaining(q) == [Fresh EXCEPT !.rem = q.rem]

Cleared(q) == Fresh

GivenUp(d) ==
  /\ n' = [n EXCEPT ![d] = @ + 1]
  /\ torn' = [torn EXCEPT ![d] =
       @ \/ (p[d].framing = "chunked" /\ p[d].at = "done"
              /\ (net[d] # <<>> \/ Contains(p[d].buf, "L")))]

Clear ==
  /\ \/ spc = "clear" /\ (p["req"].at = "done" \/ ~NeedsBody(p["req"]))
     \/ spc = "clearing" /\ p["req"].at = "done"
  /\ spc' = "head"
  /\ Becomes("req", Cleared(p["req"]))
  /\ GivenUp("req")
  /\ UNCHANGED <<net, sent>> /\ ServerKeeps

-----------------------------------------------------------------------------
(* HttpClient: a request, and its response parsed by a new HttpResponse. *)

Request ==
  /\ cpc = "idle" /\ Len(sent["req"]) < MaxExchanges
  /\ cpc' = "response"
  /\ Write("req", ReqFramings)
  /\ UNCHANGED <<p, spc, n, torn, stale>>

ParserRes ==
  /\ cpc = "response" /\ p["res"].at = "ready"
  /\ BeginBody("res")
  /\ UNCHANGED <<net, spc, cpc, sent, n, torn, stale>>

Answered ==
  /\ cpc = "response" /\ p["res"].at = "done"
  /\ cpc' = "idle"
  /\ Becomes("res", Fresh)
  /\ GivenUp("res")
  /\ UNCHANGED <<net, spc, sent, stale>>

Next ==
  \/ \E d \in Dir : Recv(d) \/ ParseLine(d) \/ ParseHeader(d) \/ ParseBody(d)
  \/ EndpointParses \/ Reply \/ ClearParses \/ Clear
  \/ Request \/ ParserRes \/ Answered

Spec == Init /\ [][Next]_vars

-----------------------------------------------------------------------------
(* Properties *)

(* A message that is parsed has the body that was sent, wherever the       *)
(* stream was cut and whatever came before it on the connection.  Two      *)
(* cuts are excepted: behind a complete chunk, whose size the parser still *)
(* holds and applies to the next bytes, and before the end of an earlier   *)
(* chunked message, which then begins the next one.                        *)
BodyExact ==
  \A d \in Dir : p[d].at = "done" => Misread(d) \/ p[d].body = sent[d][n[d] + 1]

(* A well-formed message is always parsed: no parser waits for bytes when  *)
(* all of its message has arrived, but for the same two cuts, and none is  *)
(* refused, but for these and a third: between the CR and the LF behind a  *)
(* chunk.                                                                  *)
AlwaysParsed ==
  \A d \in Dir :
    /\ p[d].at = "recv" /\ net[d] = <<>> /\ Len(sent[d]) > n[d] => Misread(d)
    /\ p[d].at = "undefined" => Misread(d)
    /\ p[d].at = "threw" => Misread(d) \/ (p[d].whole /\ Len(net[d]) > 0 /\ net[d][1] = LF)

===============================================================================
