------------------------------- MODULE WebSocket -------------------------------
(***************************************************************************)
(* HX::net::WebSocket (protocol/websocket/WebSocket.hpp): the two ends of  *)
(* an upgraded connection, each with a coroutine that calls recvText,      *)
(* sendText and close in any order.  An end in Broadcasting has a second   *)
(* coroutine that sends to it with sendPacketView, as the pool of          *)
(* tests/server/02_ws_server.cpp does.  A frame is written in two sends,   *)
(* its head and its content.  HXLibs never fragments a message; an end in  *)
(* Foreign is another program's, which may, and may put a ping between the *)
(* fragments; it may also send what recvText refuses.  It has one sender.  *)
(*                                                                         *)
(* Lengths and masking keys are left out.                                  *)
(***************************************************************************)
EXTENDS Integers, Sequences, SequencesExt

CONSTANTS
  Foreign,       \* ends of other programs
  Broadcasting,  \* ends of HXLibs with a second coroutine that sends
  MaxTexts,      \* bound: messages an end sends
  MaxPings,      \* bound: reads of an end that run into their timeout
  None

End == {"server", "client"}
Peer(e) == IF e = "server" THEN "client" ELSE "server"

(* "Bad" is a head that recvPacket refuses: a reserved opcode, or a mask   *)
(* that is there and should not be, or the other way round.                *)
Data == {"Text", "Binary", "Cont"}
Ops == Data \cup {"Ping", "Pong", "Close", "Bad"}
PartOfFrame == [part : {"head", "content"}, op : Ops, fin : BOOLEAN, data : Seq(Nat)]

ASSUME WebSocketAssumption ==
  /\ Foreign \subseteq End /\ Broadcasting \subseteq End \ Foreign
  /\ MaxTexts \in Nat /\ MaxPings \in Nat
  /\ None \notin Nat \cup Seq(Nat) \cup PartOfFrame \cup Ops
  /\ None \notin {"closed", "type", "protocol", "timeout", "io"}

VARIABLES
  wire,      \* per end: what is on its way to it: heads and contents of frames
  out, bout, \* per end: what its coroutine has left to send; what the second has
  pc,        \* per end: where its coroutine is
  got,       \* per end: the head recvPacket has read
  first, content,   \* per end: firstOpCode and packet.content of recvPacket
  held,      \* per end: the message read while it waited for a pong
  cause,     \* per end: why it threw
  pings,     \* per end: timeouts of a read
  made,      \* per end: messages begun
  texts,     \* per end: history: the messages it put on the wire
  due,       \* per end: history: how many of them before its first close frame
  recvd,     \* per end: history: the messages recvText returned
  mixed,     \* history: two frames were written into each other
  parted,    \* history: something came between two fragments
  astray,    \* ends that have read a part of a head for the whole
  odd        \* per end: history: the strays it has sent

readVars == <<got, first, content>>
history == <<texts, due, recvd, mixed, parted, astray, odd>>
vars == <<wire, out, bout, pc, readVars, held, cause, pings, made, history>>

Init ==
  /\ wire = [e \in End |-> <<>>]
  /\ out = [e \in End |-> <<>>] /\ bout = [e \in End |-> <<>>]
  /\ pc = [e \in End |-> "app"]
  /\ got = [e \in End |-> None] /\ first = [e \in End |-> None] /\ content = [e \in End |-> <<>>]
  /\ held = [e \in End |-> None] /\ cause = [e \in End |-> None]
  /\ pings = [e \in End |-> 0] /\ made = [e \in End |-> 0]
  /\ texts = [e \in End |-> <<>>] /\ recvd = [e \in End |-> <<>>]
  /\ due = [e \in End |-> None]
  /\ mixed = FALSE /\ parted = FALSE /\ astray = {} /\ odd = [e \in End |-> {}]

-----------------------------------------------------------------------------
(* Sending. *)

Part(k, op, fin, data) == [part |-> k, op |-> op, fin |-> fin, data |-> data]
Frame(op, fin, data) == <<Part("head", op, fin, data), Part("content", op, fin, data)>>
Control(op) == Frame(op, TRUE, <<>>)

(* sendPacket: one frame; message m of an end has two bytes.               *)
Whole(m) == Frame("Text", TRUE, <<m, m>>)
Fragmented(m) ==
  {Frame("Text", FALSE, <<m>>) \o between \o Frame("Cont", TRUE, <<m>>) :
     between \in {<<>>, Control("Ping")}}

Forms(e, m) == {Whole(m)} \cup (IF e \in Foreign THEN Fragmented(m) ELSE {})

(* A frame is open between the sends of its two parts.                     *)
Open(parts) == parts # <<>> /\ Head(parts).part = "content"
BetweenFragments(parts) == parts # <<>> /\ Head(parts).op = "Ping" /\ Len(parts) > 2

Put(e, part) ==
  /\ wire' = [wire EXCEPT ![Peer(e)] = Append(@, part)]
  /\ texts' = IF part.part = "head" /\ part.op = "Text"
              THEN [texts EXCEPT ![e] = Append(@, part.data[1])] ELSE texts
  /\ due' = IF part.op = "Close" /\ due[e] = None
            THEN [due EXCEPT ![e] = Len(texts[e])] ELSE due

(* fullySend throws when the peer has closed the connection.               *)
Ended(e) == pc[e] \in {"closed", "failed"}

Write(e) ==
  /\ out[e] # <<>>
  /\ \/ /\ Put(e, Head(out[e]))
        /\ out' = [out EXCEPT ![e] = Tail(@)]
        /\ mixed' = (mixed \/ Open(bout[e]))
        /\ parted' = (parted \/ BetweenFragments(out[e]))
        /\ UNCHANGED <<pc, cause, held>>
     \/ /\ Ended(Peer(e))
        /\ out' = [out EXCEPT ![e] = <<>>]
        /\ IF Ended(e) THEN UNCHANGED <<pc, cause, held>>
           ELSE /\ pc' = [pc EXCEPT ![e] = "failed"]
                /\ cause' = [cause EXCEPT ![e] = "io"]
                /\ held' = held
        /\ UNCHANGED <<wire, texts, due, mixed, parted>>
  /\ UNCHANGED <<bout, readVars, pings, made, recvd, astray, odd>>

(* sendPacketView of another coroutine.                                    *)
Broadcast(e) ==
  /\ bout[e] = <<>> /\ made[e] < MaxTexts /\ ~Ended(e)
  /\ made' = [made EXCEPT ![e] = @ + 1]
  /\ bout' = [bout EXCEPT ![e] = Whole(made[e] + 1)]
  /\ UNCHANGED <<wire, out, pc, readVars, held, cause, pings, history>>

WriteBroadcast(e) ==
  /\ bout[e] # <<>>
  /\ \/ /\ Put(e, Head(bout[e]))
        /\ bout' = [bout EXCEPT ![e] = Tail(@)]
        /\ mixed' = (mixed \/ Open(out[e]))
     \/ /\ Ended(Peer(e))
        /\ bout' = [bout EXCEPT ![e] = <<>>]
        /\ UNCHANGED <<wire, texts, due, mixed>>
  /\ UNCHANGED <<out, pc, readVars, held, cause, pings, made, recvd, parted, astray, odd>>

-----------------------------------------------------------------------------
(* The application. *)

Calls(e) == pc[e] = "app" /\ out[e] = <<>>
CallKeeps == UNCHANGED <<wire, bout, readVars, held, cause, pings, history>>

SendText(e) ==
  /\ Calls(e) /\ made[e] < MaxTexts
  /\ made' = [made EXCEPT ![e] = @ + 1]
  /\ \E form \in Forms(e, made[e] + 1) : out' = [out EXCEPT ![e] = form]
  /\ UNCHANGED pc /\ CallKeeps

(* What another program may send and recvText does not want.               *)
Strays == {"Binary", "Pong", "Bad"}

SendStray(e) ==
  /\ Calls(e) /\ made[e] < MaxTexts
  /\ made' = [made EXCEPT ![e] = @ + 1]
  /\ \E op \in Strays :
       out' = [out EXCEPT ![e] = Control(op)] /\ odd' = [odd EXCEPT ![e] = @ \cup {op}]
  /\ UNCHANGED <<wire, bout, pc, readVars, held, cause, pings, texts, due, recvd, mixed, parted,
                 astray>>

RecvText(e) ==
  /\ Calls(e)
  /\ pc' = [pc EXCEPT ![e] = "recv"]
  /\ UNCHANGED <<out, made>> /\ CallKeeps

Close(e) ==
  /\ Calls(e)
  /\ pc' = [pc EXCEPT ![e] = "closing"]
  /\ out' = [out EXCEPT ![e] = Control("Close")]
  /\ UNCHANGED made /\ CallKeeps

-----------------------------------------------------------------------------
(* recvPacket: in recv ("recv"), for a pong or the message ("pong"), for   *)
(* the pong after the message ("onlyPong"), or in close ("closing").       *)

Reads(e) == pc[e] \in {"recv", "pong", "onlyPong", "closing"} /\ out[e] = <<>>
ReadKeeps == UNCHANGED <<bout, made, texts, due, mixed, parted, odd>>

Throws(e, why) ==
  /\ pc' = [pc EXCEPT ![e] = "failed"] /\ cause' = [cause EXCEPT ![e] = why]

StartsPacket(e) ==
  /\ got' = [got EXCEPT ![e] = None]
  /\ first' = [first EXCEPT ![e] = None] /\ content' = [content EXCEPT ![e] = <<>>]

(* A control frame overwrites firstOpCode; a data frame in a message must  *)
(* be a continuation.                                                      *)
Fits(e, op) == op # "Bad" /\ (op \in Data => first[e] = None \/ op = "Cont")
FirstOpCode(e, op) == IF op \in Data /\ first[e] # None THEN first[e] ELSE op

(* One recv of two bytes, and one byte is enough: the second is then what  *)
(* head[] held before, whose mask may be wrong and whose length is not the *)
(* frame's, so that what is taken for the content has other bytes.         *)
ReadHead(e) ==
  /\ Reads(e) /\ got[e] = None /\ wire[e] # <<>>
  /\ \E short \in BOOLEAN :
       LET head == Head(wire[e]) IN
       /\ astray' = IF short THEN astray \cup {e} ELSE astray
       /\ \/ /\ head.part = "head" /\ Fits(e, head.op)
             /\ got' = [got EXCEPT ![e] = head]
             /\ first' = [first EXCEPT ![e] = FirstOpCode(e, head.op)]
             /\ UNCHANGED <<pc, cause>>
          \/ /\ ~(head.part = "head" /\ Fits(e, head.op)) \/ short
             /\ Throws(e, "protocol") /\ UNCHANGED <<got, first>>
  /\ wire' = [wire EXCEPT ![e] = Tail(@)]
  /\ UNCHANGED <<out, content, held, pings, recvd>> /\ ReadKeeps

Contents(e) ==
  IF e \in astray THEN {Part("content", got[e].op, got[e].fin, data) : data \in {<<>>, <<0>>}}
  ELSE {Head(wire[e])}

(* Mutant: a message read while waiting for the pong is not kept.          *)
WaitsOnlyPongDrops(e, data) ==
  pc' = [pc EXCEPT ![e] = "recv"] /\ UNCHANGED held

(* recv<true>(Pong) before the message is returned.                        *)
WaitsOnlyPong(e, data) ==
  pc' = [pc EXCEPT ![e] = "onlyPong"] /\ held' = [held EXCEPT ![e] = data]

Returns(e, data) ==
  /\ pc' = [pc EXCEPT ![e] = "app"]
  /\ recvd' = [recvd EXCEPT ![e] = Append(@, data)]
  /\ held' = [held EXCEPT ![e] = None]

(* Mutant: the message is no alternative to the pong.                      *)
WantedPongOnly(e) ==
  CASE pc[e] = "recv" -> {"Text"}
    [] pc[e] \in {"pong", "onlyPong"} -> {"Pong"}
    [] OTHER -> {}

(* recvType and alternative.                                               *)
Wanted(e) ==
  CASE pc[e] = "recv" -> {"Text"}
    [] pc[e] = "pong" -> {"Pong", "Text"}
    [] pc[e] = "onlyPong" -> {"Pong"}
    [] OTHER -> {}

(* What recv or close does with a packet.                                  *)
Packet(e, op, data) ==
  \/ /\ pc[e] = "closing"
     /\ pc' = [pc EXCEPT ![e] = "closed"]
     /\ out' = IF op = "Close" THEN [out EXCEPT ![e] = Control("Close")] ELSE out
     /\ UNCHANGED <<cause, held, recvd>>
  \/ /\ pc[e] # "closing" /\ op = "Ping"
     /\ out' = [out EXCEPT ![e] = Control("Pong")]
     /\ UNCHANGED <<pc, cause, held, recvd>>
  \/ /\ pc[e] # "closing" /\ op = "Close"
     /\ out' = [out EXCEPT ![e] = Control("Close")]
     /\ Throws(e, "closed")
     /\ UNCHANGED <<held, recvd>>
  \/ /\ pc[e] # "closing" /\ op \notin {"Ping", "Close"} \cup Wanted(e)
     /\ Throws(e, "type")
     /\ UNCHANGED <<out, held, recvd>>
  \/ /\ op \in Wanted(e)
     /\ CASE pc[e] = "pong" /\ op = "Pong" -> pc' = [pc EXCEPT ![e] = "recv"] /\ UNCHANGED <<held, recvd>>
          [] pc[e] = "pong" /\ op = "Text" -> WaitsOnlyPong(e, data) /\ UNCHANGED recvd
          [] pc[e] = "onlyPong" -> Returns(e, held[e])
          [] OTHER -> Returns(e, data)
     /\ UNCHANGED <<out, cause>>

(* Mutant: the last fragment replaces the others.                          *)
AppendedLast(e, data) == data

Appended(e, data) == content[e] \o data

(* The content, without a timeout; of the last frame it ends the packet.   *)
ReadContent(e) ==
  /\ Reads(e) /\ got[e] # None /\ wire[e] # <<>>
  /\ \E part \in Contents(e) :
       LET data == Appended(e, part.data) IN
         IF part.part = "content" /\ part.op = got[e].op
         THEN IF part.fin
              THEN Packet(e, first[e], data) /\ StartsPacket(e)
              ELSE /\ content' = [content EXCEPT ![e] = data]
                   /\ got' = [got EXCEPT ![e] = None]
                   /\ UNCHANGED <<out, pc, first, held, cause, recvd>>
         ELSE Throws(e, "protocol") /\ UNCHANGED <<out, readVars, held, recvd>>
  /\ wire' = [wire EXCEPT ![e] = Tail(@)]
  /\ UNCHANGED <<pings, astray>> /\ ReadKeeps

(* No head in time, or the peer has closed the connection: recvPacket      *)
(* returns nothing, and forgets the fragments it has.                      *)
Timeout(e) ==
  /\ Reads(e) /\ got[e] = None
  /\ pc[e] = "recv" => pings[e] < MaxPings
  /\ StartsPacket(e)
  /\ parted' = (parted \/ first[e] # None)
  /\ \/ /\ pc[e] = "recv"
        /\ pings' = [pings EXCEPT ![e] = @ + 1]
        /\ pc' = [pc EXCEPT ![e] = "pong"]
        /\ out' = [out EXCEPT ![e] = Control("Ping")]
        /\ UNCHANGED cause
     \/ /\ pc[e] \in {"pong", "onlyPong"}
        /\ Throws(e, "timeout")
        /\ UNCHANGED <<out, pings>>
     \/ /\ pc[e] = "closing"
        /\ pc' = [pc EXCEPT ![e] = "closed"]
        /\ UNCHANGED <<out, cause, pings>>
  /\ UNCHANGED <<wire, bout, held, made, texts, due, recvd, mixed, astray, odd>>

-----------------------------------------------------------------------------
(* An end astray is followed to the end of its packet.                     *)
EndStep(e) ==
  \/ Write(e) \/ ReadContent(e)
  \/ e \notin astray /\ (SendText(e) \/ RecvText(e) \/ Close(e) \/ ReadHead(e) \/ Timeout(e))

Next ==
  \/ \E e \in End : EndStep(e)
  \/ \E e \in Broadcasting : Broadcast(e) \/ WriteBroadcast(e)
  \/ \E e \in Foreign : SendStray(e)

Spec == Init /\ [][Next]_vars

-----------------------------------------------------------------------------
(* Properties *)

(* recvText returns the messages of the peer in their order, whole and     *)
(* none twice, whatever pings, timeouts, fragments and strays there are,   *)
(* unless the frames of two coroutines were written into each other, a     *)
(* fragmented message was interrupted, or a head came in two pieces.       *)
Disturbed == mixed \/ parted \/ astray # {}

DataInOrder ==
  \A e \in End :
    Disturbed \/ (/\ Len(recvd[e]) <= Len(texts[Peer(e)])
                  /\ \A i \in DOMAIN recvd[e] :
                       recvd[e][i] = <<texts[Peer(e)][i], texts[Peer(e)][i]>>)

(* An end told that the peer has closed has returned every message sent    *)
(* before, except one it held back until a pong that the closing peer      *)
(* never sent.                                                             *)
ClosedMeansRead ==
  \A e \in End :
    cause[e] = "closed" =>
      Disturbed \/ held[e] # None \/ Len(recvd[e]) = due[Peer(e)]

(* recvText refuses what has come as the wrong type only if the peer sent  *)
(* a Binary frame or a pong of its own accord, or a second message before  *)
(* the pong; and as a protocol error only if it sent a bad head.           *)
ThrowsOnlyBeforePong ==
  \A e \in End :
    /\ cause[e] = "type" =>
         Disturbed \/ held[e] # None \/ odd[Peer(e)] \cap {"Binary", "Pong"} # {}
    /\ cause[e] = "protocol" => Disturbed \/ "Bad" \in odd[Peer(e)]

===============================================================================
