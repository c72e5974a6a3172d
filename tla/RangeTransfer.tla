---------------------------- MODULE RangeTransfer ----------------------------
(***************************************************************************)
(* HttpResponse::useRangeTransferFile (protocol/http/Response.hpp): a file *)
(* is sent whole, in one range or in several, one read after the other,    *)
(* while another program may append to it or truncate it and the peer may  *)
(* go away.                                                                *)
(*                                                                         *)
(* A byte of the file is its position; Crlf is what follows every read     *)
(* of a part of a multipart body.                                          *)
(***************************************************************************)
EXTENDS Integers, Sequences, SequencesExt, FiniteSetsExt

CONSTANTS
  FileSizes,    \* sizes the file may have at first
  BufMaxSize,   \* FileUtils::kBufMaxSize
  Ranges,       \* what a Range header may ask: sequences of <<begin, end>>
  Empty,        \* a bound that is not given
  Wide,         \* 2^w, for unsigned arithmetic of w bits
  MaxChanges    \* bound: times another program changes the file in a transfer

ASSUME TransferAssumption ==
  /\ FileSizes \subseteq Nat /\ BufMaxSize \in Nat \ {0} /\ MaxChanges \in Nat
  /\ Wide \in Nat /\ \A n \in FileSizes : n + MaxChanges + 1 < Wide
  /\ Ranges \subseteq Seq((Nat \cup {Empty}) \X (Nat \cup {Empty})) \ {<<>>}
  /\ Empty \notin Nat

VARIABLES
  tpc,        \* "no", or where the transfer is
  size,       \* the size of the file on the disk
  fileSize,   \* what getFileSize returned
  status,     \* of the response
  length,     \* its Content-Length, of the part that is sent if there are several
  part,       \* the range being sent, <<begin, end>>
  todo,       \* the ranges after it
  several,    \* whether the body is multipart
  remaining, offset,
  sent,       \* what the current part has sent
  reads,      \* history: reads of the current part
  changes     \* history: changes of the file, "grown" or "cut"

transferVars == <<tpc, size, fileSize, status, length, part, todo, several, remaining,
                  offset, sent, reads, changes>>
asked == <<fileSize, status, several>>

Crlf == -1
NoPart == <<>>

TransferInit ==
  /\ tpc = "no" /\ size \in FileSizes /\ fileSize = 0
  /\ status = 0 /\ length = 0 /\ part = NoPart /\ todo = <<>> /\ several = FALSE
  /\ remaining = 0 /\ offset = 0 /\ sent = <<>> /\ reads = 0 /\ changes = <<>>

-----------------------------------------------------------------------------
(* The bounds of a range: nothing before "-" is 0, nothing behind it the   *)
(* last byte; fileSize - 1 is unsigned.                                    *)
Begin(r) == IF r[1] = Empty THEN 0 ELSE r[1]
EndOf(r, n) == IF r[2] = Empty THEN (n - 1) % Wide ELSE r[2]

Invalid(b, e, n) == b > e \/ e > n

PartLengthShort(b, e) == e - b   \* Mutant: the last byte is not counted
PartLength(b, e) == e - b + 1

Nothing == part' = NoPart /\ remaining' = 0 /\ offset' = 0 /\ length' = 0

(* The head of one part is sent and the file is opened at its begin.       *)
OpenPart(r, n) ==
  /\ part' = <<Begin(r), EndOf(r, n)>>
  /\ remaining' = PartLength(Begin(r), EndOf(r, n))
  /\ length' = remaining'
  /\ offset' = Begin(r)

(* A request for the file: `type` is its method, `ranges` its Range        *)
(* header, <<>> without one.                                               *)
BeginTransfer(type, ranges) ==
  /\ tpc = "no"
  /\ fileSize' = size
  /\ sent' = <<>> /\ reads' = 0 /\ changes' = <<>>
  /\ UNCHANGED size
  /\ \/ /\ type = "HEAD"
        /\ status' = 200 /\ tpc' = "done" /\ several' = FALSE /\ todo' = <<>>
        /\ part' = NoPart /\ remaining' = 0 /\ offset' = 0 /\ length' = size
     \/ /\ type # "HEAD" /\ ranges = <<>>
        /\ status' = 200 /\ tpc' = "read" /\ several' = FALSE /\ todo' = <<>>
        /\ part' = <<0, size - 1>> /\ remaining' = size /\ offset' = 0 /\ length' = size
     \/ /\ type # "HEAD" /\ Len(ranges) = 1 /\ several' = FALSE /\ todo' = <<>>
        /\ LET r == ranges[1] IN
           \/ /\ Invalid(Begin(r), EndOf(r, size), size)
              /\ status' = 416 /\ tpc' = "done" /\ Nothing
           \/ /\ ~Invalid(Begin(r), EndOf(r, size), size)
              /\ status' = 206 /\ tpc' = "read" /\ OpenPart(r, size)
     \/ /\ type # "HEAD" /\ Len(ranges) > 1
        /\ status' = 206 /\ tpc' = "next" /\ several' = TRUE /\ todo' = ranges /\ Nothing

(* The next part of a multipart body; an invalid one is left out.          *)
NextPart ==
  /\ tpc = "next" /\ todo # <<>>
  /\ todo' = Tail(todo)
  /\ sent' = <<>> /\ reads' = 0
  /\ LET r == Head(todo) IN
     \/ /\ Invalid(Begin(r), EndOf(r, fileSize), fileSize)
        /\ UNCHANGED tpc /\ Nothing
     \/ /\ ~Invalid(Begin(r), EndOf(r, fileSize), fileSize)
        /\ tpc' = "read" /\ OpenPart(r, fileSize)
  /\ UNCHANGED <<asked, size, changes>>

LastBoundary ==
  /\ tpc = "next" /\ todo = <<>>
  /\ tpc' = "done"
  /\ UNCHANGED <<asked, size, length, part, todo, remaining, offset, sent, reads, changes>>

-----------------------------------------------------------------------------
(* One read asks for what fits the buffer, and in a range for no more than *)
(* remains.                                                                *)
BufSize == IF several THEN BufMaxSize ELSE Min({fileSize, BufMaxSize})

WantsUncapped == BufSize   \* Mutant: a range is read like the whole file
Wants == IF status = 206 THEN Min({remaining, BufSize}) ELSE BufSize

Available == Max({0, size - offset})

PartEnds == tpc' = IF several THEN "next" ELSE "done"

(* A read of at least one byte, and its sending.  A multipart body gets a  *)
(* CRLF behind every read.                                                 *)
ReadAndSend ==
  /\ tpc = "read" /\ remaining > 0
  /\ \E k \in 1..Min({Wants, Available}) :
        /\ sent' = sent \o [i \in 1..k |-> offset + i - 1] \o (IF several THEN <<Crlf>> ELSE <<>>)
        /\ remaining' = (remaining - k) % Wide
        /\ offset' = offset + k
  /\ reads' = reads + 1
  /\ UNCHANGED <<asked, tpc, size, length, part, todo, changes>>

(* Nothing remains, or the read returns nothing.                           *)
EndPart ==
  /\ tpc = "read" /\ (remaining = 0 \/ Min({Wants, Available}) = 0)
  /\ PartEnds
  /\ UNCHANGED <<asked, size, length, part, todo, remaining, offset, sent, reads, changes>>

(* The peer is gone.  The exception of a send is swallowed where a file is *)
(* read; the head of the next part is sent outside of that try.            *)
SendFails ==
  /\ tpc \in {"read", "next"}
  /\ tpc' = "broken"
  /\ UNCHANGED <<asked, size, length, part, todo, remaining, offset, sent, reads, changes>>

Change(how, n) ==
  /\ tpc \in {"read", "next"} /\ Len(changes) < MaxChanges
  /\ size' = n /\ changes' = Append(changes, how)
  /\ UNCHANGED <<asked, tpc, length, part, todo, remaining, offset, sent, reads>>

Grow == Change("grown", size + 1)
Truncate == size > 0 /\ Change("cut", size - 1)

TransferStep == NextPart \/ LastBoundary \/ ReadAndSend \/ EndPart \/ SendFails
FileChanges == Grow \/ Truncate

-----------------------------------------------------------------------------
(* Properties. *)

(* Where a part of a file ends that did not change and whose reader stays, *)
(* its body has the announced length and is exactly the bytes that were    *)
(* asked for.  Two gaps of the code are left out: a range that ends at     *)
(* fileSize, one past the last byte, is accepted, and a part of several    *)
(* that takes more than one read has a CRLF behind each.                   *)
RangeExact ==
  tpc \in {"next", "done"} /\ part # NoPart /\ changes = <<>> =>
    LET body == IF several THEN Front(sent) ELSE sent
    IN  (several => reads = 1) /\ part[2] < fileSize =>
          /\ Len(body) = length
          /\ body = [i \in 1..(part[2] - part[1] + 1) |-> part[1] + i - 1]

(* A range never sends more than it announced, even of a file that grows   *)
(* while it is sent: the client would take the rest for the next response. *)
(* The whole file is sent to its new end if it grew: `remaining` wraps.    *)
NeverMore ==
  LET bytes == {i \in DOMAIN sent : sent[i] # Crlf}
  IN  status = 206 \/ changes = <<>> => Cardinality(bytes) <= length
=============================================================================
