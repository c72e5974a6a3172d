-------------------------- MODULE WebSocket_proofs --------------------------
(***************************************************************************)
(* recvText returns the peer's messages in order, a close comes after all  *)
(* of them, and what is no stray does not make it throw; each but for the  *)
(* gaps its property names.                                                *)
(***************************************************************************)
EXTENDS WebSocket, SequenceTheorems, TLAPS

-----------------------------------------------------------------------------
(* Parts of frames that follow each other. *)

IsHead(p, op) == p.part = "head" /\ p.op = op
Done(p) == p.part = "content" /\ p.fin

(* q comes after p on the wire of an end that nobody disturbs.             *)
Follows(p, q) ==
  IF p.part = "head" THEN q = [p EXCEPT !.part = "content"]
  ELSE /\ q.part = "head"
       /\ IF p.fin THEN q.op # "Cont" ELSE q.op = "Cont" /\ q.data = p.data

PartOK(p) ==
  /\ p \in PartOfFrame
  /\ p.op \notin {"Text", "Cont"} => p.fin /\ p.data = <<>>
  /\ p.op = "Text" => \E m \in Nat : p.data = IF p.fin THEN <<m, m>> ELSE <<m>>
  /\ p.op = "Cont" => p.fin /\ \E m \in Nat : p.data = <<m>>

AllOK(w) == \A i \in 1..Len(w) : PartOK(w[i])

(* w comes after p.                                                        *)
Chained(p, w) ==
  /\ AllOK(w)
  /\ \A i \in 1..(Len(w) - 1) : Follows(w[i], w[i + 1])
  /\ w # <<>> => Follows(p, w[1])

Tip(p, w) == IF w = <<>> THEN p ELSE w[Len(w)]

(* What follows p may follow q.                                            *)
NoStricter(p, q) == (\A x : Follows(p, x) => Follows(q, x)) /\ (Done(p) => Done(q))

LEMMA Extend ==
  ASSUME NEW p, NEW w \in Seq(PartOfFrame), NEW q \in PartOfFrame,
         Chained(p, w), PartOK(q), Follows(Tip(p, w), q)
  PROVE  Chained(p, Append(w, q)) /\ Tip(p, Append(w, q)) = q
<1> DEFINE v == Append(w, q)
<1>1. /\ v \in Seq(PartOfFrame) /\ Len(w) \in Nat /\ Len(v) = Len(w) + 1 /\ v[Len(w) + 1] = q
      /\ \A i \in 1..Len(w) : v[i] = w[i]
  OBVIOUS
<1>2. v # <<>> BY <1>1
<1>3. w = <<>> <=> Len(w) = 0 BY EmptySeq
<1> HIDE DEF v
<1>4. AllOK(v) BY <1>1 DEF Chained, AllOK
<1>5. ASSUME NEW i \in 1..(Len(v) - 1) PROVE Follows(v[i], v[i + 1])
  <2>1. i \in 1..Len(w) /\ v[i] = w[i] BY <1>1
  <2>2. CASE i = Len(w)
    <3>1. Tip(p, w) = w[i] BY <1>1, <1>3, <2>1, <2>2 DEF Tip
    <3>2. QED BY <1>1, <2>1, <2>2, <3>1
  <2>3. CASE i # Len(w)
    <3>1. i \in 1..(Len(w) - 1) /\ i + 1 \in 1..Len(w) BY <1>1, <2>1, <2>3
    <3>2. QED BY <1>1, <2>1, <3>1 DEF Chained
  <2>4. QED BY <2>2, <2>3
<1>6. Follows(p, v[1])
  <2>1. CASE w = <<>> BY <1>1, <1>3, <2>1 DEF Tip
  <2>2. CASE w # <<>> BY <1>1, <1>3, <2>2 DEF Chained
  <2>3. QED BY <2>1, <2>2
<1>7. QED BY <1>1, <1>2, <1>4, <1>5, <1>6 DEF Chained, Tip, v

LEMMA TailFacts ==
  ASSUME NEW T, NEW w \in Seq(T), w # <<>>
  PROVE  /\ Len(w) \in Nat \ {0} /\ Tail(w) \in Seq(T) /\ Len(Tail(w)) = Len(w) - 1
         /\ \A i \in 1..(Len(w) - 1) : Tail(w)[i] = w[i + 1]
         /\ Head(w) = w[1] /\ w[1] \in T
         /\ Tail(w) = <<>> <=> Len(w) = 1
<1>1. Len(w) \in Nat /\ Len(w) # 0 BY EmptySeq
<1>2. Tail(w) \in Seq(T) /\ Len(Tail(w)) = Len(w) - 1 BY HeadTailProperties
<1>3. \A i \in 1..(Len(w) - 1) : Tail(w)[i] = w[i + 1] BY <1>1
<1>4. Tail(w) = <<>> <=> Len(Tail(w)) = 0 BY <1>2, EmptySeq
<1>5. QED BY <1>1, <1>2, <1>3, <1>4

LEMMA Shrink ==
  ASSUME NEW p, NEW q, NEW w \in Seq(PartOfFrame), w # <<>>,
         Chained(p, w), NoStricter(w[1], q)
  PROVE  Chained(q, Tail(w)) /\ NoStricter(Tip(p, w), Tip(q, Tail(w)))
<1> DEFINE v == Tail(w)
<1>1. /\ Len(w) \in Nat \ {0} /\ v \in Seq(PartOfFrame) /\ Len(v) = Len(w) - 1
      /\ \A i \in 1..(Len(w) - 1) : v[i] = w[i + 1]
      /\ v = <<>> <=> Len(w) = 1
  BY TailFacts
<1> HIDE DEF v
<1>2. ASSUME NEW i \in 1..Len(v) PROVE PartOK(v[i])
  <2>1. v[i] = w[i + 1] /\ i + 1 \in 1..Len(w) BY <1>1
  <2>2. QED BY <2>1 DEF Chained, AllOK
<1>3. ASSUME NEW i \in 1..(Len(v) - 1) PROVE Follows(v[i], v[i + 1])
  <2>1. v[i] = w[i + 1] /\ v[i + 1] = w[i + 1 + 1] /\ i + 1 \in 1..(Len(w) - 1) BY <1>1
  <2>2. QED BY <2>1 DEF Chained
<1>4. ASSUME v # <<>> PROVE Follows(q, v[1])
  <2>1. Len(w) # 1 /\ 1 \in 1..(Len(w) - 1) BY <1>1, <1>4
  <2>2. v[1] = w[1 + 1] /\ Follows(w[1], w[1 + 1]) BY <1>1, <2>1 DEF Chained
  <2>3. QED BY <2>2 DEF NoStricter
<1>5. Chained(q, v) BY <1>2, <1>3, <1>4 DEF Chained, AllOK
<1>6. NoStricter(Tip(p, w), Tip(q, v))
  <2>1. CASE v = <<>>
    <3>1. Tip(p, w) = w[1] /\ Tip(q, v) = q BY <1>1, <2>1 DEF Tip
    <3>2. QED BY <3>1
  <2>2. CASE v # <<>>
    <3>1. Len(w) # 1 /\ Len(v) \in 1..(Len(w) - 1) /\ Len(v) + 1 = Len(w) BY <1>1, <2>2
    <3>2. Tip(q, v) = w[Len(w)] BY <1>1, <2>2, <3>1 DEF Tip
    <3>3. Tip(p, w) = w[Len(w)] BY DEF Tip
    <3>4. QED BY <3>2, <3>3 DEF NoStricter
  <2>3. QED BY <2>1, <2>2
<1>7. QED BY <1>5, <1>6 DEF v

-----------------------------------------------------------------------------
(* Messages on the wire. *)

(* The messages of t after the first k are the ones whose heads are in w:  *)
(* that of the j-th is at f[j].                                            *)
Placed(w, t, k, f) ==
  /\ k <= Len(t)
  /\ \A j \in (k + 1)..Len(t) :
       f[j] \in 1..Len(w) /\ IsHead(w[f[j]], "Text") /\ w[f[j]].data[1] = t[j]
  /\ \A i, j \in (k + 1)..Len(t) : i < j => f[i] < f[j]
  /\ \A i \in 1..Len(w) : IsHead(w[i], "Text") => \E j \in (k + 1)..Len(t) : f[j] = i

(* d of them were sent before the first close frame, whose head has been   *)
(* read if x holds.                                                        *)
Closed(w, t, k, d, x, f) ==
  /\ d = None => ~x /\ \A i \in 1..Len(w) : ~IsHead(w[i], "Close")
  /\ d # None => d \in Nat /\ d <= Len(t)
  /\ d # None /\ x => d = k
  /\ d # None /\ ~x =>
       /\ k <= d
       /\ \E c \in 1..Len(w) :
            /\ IsHead(w[c], "Close")
            /\ \A i \in 1..Len(w) : IsHead(w[i], "Close") => c <= i
            /\ \A j \in (k + 1)..Len(t) : f[j] < c <=> j <= d

Counted(w, t, k, d, x) == \E f : Placed(w, t, k, f) /\ Closed(w, t, k, d, x, f)

Moved(f) == [j \in Nat |-> f[j] - 1]

LEMMA OneKind ==
  ASSUME NEW p
  PROVE  /\ IsHead(p, "Text") => ~IsHead(p, "Close")
         /\ p.part # "head" => ~IsHead(p, "Text") /\ ~IsHead(p, "Close")
BY DEF IsHead

(* Reading what is no head of a message, nor of a close frame.             *)
LEMMA CountedSkips ==
  ASSUME NEW w \in Seq(PartOfFrame), w # <<>>, NEW t \in Seq(Nat), NEW k \in Nat, NEW d, NEW x \in BOOLEAN,
         Counted(w, t, k, d, x), ~IsHead(w[1], "Text"), ~IsHead(w[1], "Close")
  PROVE  Counted(Tail(w), t, k, d, x)
<1> DEFINE v == Tail(w)
<1>1. /\ Len(w) \in Nat \ {0} /\ Len(v) = Len(w) - 1
      /\ \A i \in 1..(Len(w) - 1) : v[i] = w[i + 1]
  BY TailFacts
<1>a. Len(t) \in Nat OBVIOUS
<1> HIDE DEF v
<1>2. PICK f : Placed(w, t, k, f) /\ Closed(w, t, k, d, x, f) BY DEF Counted
<1> DEFINE g == Moved(f)
<1>3. ASSUME NEW j \in (k + 1)..Len(t)
      PROVE  /\ f[j] \in 2..Len(w) /\ IsHead(w[f[j]], "Text") /\ w[f[j]].data[1] = t[j]
             /\ g[j] = f[j] - 1 /\ g[j] \in 1..Len(v) /\ v[g[j]] = w[f[j]]
  <2>1. f[j] \in 1..Len(w) /\ IsHead(w[f[j]], "Text") /\ w[f[j]].data[1] = t[j] BY <1>2 DEF Placed
  <2>2. f[j] # 1 BY <2>1
  <2>3. g[j] = f[j] - 1 BY <1>a DEF Moved
  <2>4. f[j] - 1 \in 1..(Len(w) - 1) /\ (f[j] - 1) + 1 = f[j] BY <1>1, <2>1, <2>2
  <2>5. v[f[j] - 1] = w[(f[j] - 1) + 1] BY <1>1, <2>4
  <2>6. QED BY <1>1, <2>1, <2>2, <2>3, <2>4, <2>5
<1> HIDE DEF g
<1>4. Placed(v, t, k, g)
  <2>1. k <= Len(t) BY <1>2 DEF Placed
  <2>2. ASSUME NEW i \in (k + 1)..Len(t), NEW j \in (k + 1)..Len(t), i < j PROVE g[i] < g[j]
    <3>1. f[i] < f[j] BY <1>2, <2>2 DEF Placed
    <3>2. QED BY <1>3, <3>1
  <2>3. ASSUME NEW i \in 1..Len(v), IsHead(v[i], "Text") PROVE \E j \in (k + 1)..Len(t) : g[j] = i
    <3>1. i + 1 \in 1..Len(w) /\ IsHead(w[i + 1], "Text") BY <1>1, <2>3
    <3>2. PICK j \in (k + 1)..Len(t) : f[j] = i + 1 BY <1>2, <3>1 DEF Placed
    <3>3. g[j] = f[j] - 1 BY <1>3
    <3>4. g[j] = i BY <3>2, <3>3
    <3>5. QED BY <3>4
  <2>4. \A j \in (k + 1)..Len(t) :
          g[j] \in 1..Len(v) /\ IsHead(v[g[j]], "Text") /\ v[g[j]].data[1] = t[j]
    BY <1>3
  <2>5. QED BY <2>1, <2>2, <2>3, <2>4 DEF Placed
<1>5. Closed(v, t, k, d, x, g)
  <2>1. \A i \in 1..Len(v) : IsHead(v[i], "Close") <=> IsHead(w[i + 1], "Close") BY <1>1
  <2>2. ASSUME d = None PROVE ~x /\ \A i \in 1..Len(v) : ~IsHead(v[i], "Close")
    <3>1. \A i \in 1..Len(v) : i + 1 \in 1..Len(w) BY <1>1
    <3>2. QED BY <1>2, <2>1, <2>2, <3>1 DEF Closed
  <2>3. ASSUME d # None, ~x
        PROVE \E c \in 1..Len(v) :
            /\ IsHead(v[c], "Close")
            /\ \A i \in 1..Len(v) : IsHead(v[i], "Close") => c <= i
            /\ \A j \in (k + 1)..Len(t) : g[j] < c <=> j <= d
    <3>1. PICK c \in 1..Len(w) :
            /\ IsHead(w[c], "Close")
            /\ \A i \in 1..Len(w) : IsHead(w[i], "Close") => c <= i
            /\ \A j \in (k + 1)..Len(t) : f[j] < c <=> j <= d
      BY <1>2, <2>3 DEF Closed
    <3>2. c # 1 BY <3>1
    <3>3. c - 1 \in 1..Len(v) /\ (c - 1) + 1 = c BY <1>1, <3>2
    <3>4. v[c - 1] = w[c] BY <1>1, <3>3
    <3>5. ASSUME NEW i \in 1..Len(v), IsHead(v[i], "Close") PROVE c - 1 <= i
      <4>1. i + 1 \in 1..Len(w) /\ IsHead(w[i + 1], "Close") BY <1>1, <2>1, <3>5
      <4>2. c <= i + 1 BY <3>1, <4>1
      <4>3. QED BY <4>2
    <3>6. ASSUME NEW j \in (k + 1)..Len(t) PROVE g[j] < c - 1 <=> j <= d
      <4>1. f[j] \in 2..Len(w) /\ g[j] = f[j] - 1 BY <1>3
      <4>2. g[j] < c - 1 <=> f[j] < c BY <4>1, <1>1
      <4>3. f[j] < c <=> j <= d BY <3>1
      <4>4. QED BY <4>2, <4>3
    <3>7. QED BY <3>1, <3>3, <3>4, <3>5, <3>6
  <2>4. QED BY <1>2, <2>2, <2>3 DEF Closed
<1>6. QED BY <1>4, <1>5 DEF Counted, v

(* Reading the head of a message: it is the next one.                      *)
LEMMA CountedTakes ==
  ASSUME NEW w \in Seq(PartOfFrame), w # <<>>, NEW t \in Seq(Nat), NEW k \in Nat, NEW d,
         Counted(w, t, k, d, FALSE), IsHead(w[1], "Text")
  PROVE  k + 1 <= Len(t) /\ w[1].data[1] = t[k + 1] /\ Counted(Tail(w), t, k + 1, d, FALSE)
<1> DEFINE v == Tail(w)
<1>1. /\ Len(w) \in Nat \ {0} /\ Len(v) = Len(w) - 1
      /\ \A i \in 1..(Len(w) - 1) : v[i] = w[i + 1]
  BY TailFacts
<1>a. Len(t) \in Nat OBVIOUS
<1> HIDE DEF v
<1>2. PICK f : Placed(w, t, k, f) /\ Closed(w, t, k, d, FALSE, f) BY DEF Counted
<1>b. \A j \in (k + 1)..Len(t) :
         f[j] \in 1..Len(w) /\ IsHead(w[f[j]], "Text") /\ w[f[j]].data[1] = t[j]
  BY <1>2 DEF Placed
<1>c. \A i, j \in (k + 1)..Len(t) : i < j => f[i] < f[j] BY <1>2 DEF Placed
<1>d. 1 \in 1..Len(w) BY <1>1
<1>3. PICK n \in (k + 1)..Len(t) : f[n] = 1 BY <1>2, <1>d DEF Placed
<1>4. k + 1 \in (k + 1)..Len(t) BY <1>a
<1>5. n = k + 1
  <2>1. SUFFICES ASSUME n # k + 1 PROVE FALSE OBVIOUS
  <2>2. k + 1 < n BY <2>1, <1>a
  <2>3. f[k + 1] < f[n] BY <1>c, <1>4, <2>2
  <2>4. f[k + 1] \in 1..Len(w) BY <1>b, <1>4
  <2>5. QED BY <1>3, <2>3, <2>4, <1>1
<1>6. k + 1 <= Len(t) /\ w[1].data[1] = t[k + 1] BY <1>b, <1>3, <1>4, <1>5, <1>a
<1> DEFINE g == Moved(f)
<1>7. ASSUME NEW j \in ((k + 1) + 1)..Len(t)
      PROVE  /\ j \in (k + 1)..Len(t) /\ f[j] \in 2..Len(w) /\ IsHead(w[f[j]], "Text") /\ w[f[j]].data[1] = t[j]
             /\ g[j] = f[j] - 1 /\ g[j] \in 1..Len(v) /\ v[g[j]] = w[f[j]]
  <2>0. j \in (k + 1)..Len(t) /\ k + 1 < j BY <1>a
  <2>1. f[j] \in 1..Len(w) /\ IsHead(w[f[j]], "Text") /\ w[f[j]].data[1] = t[j] BY <1>b, <2>0
  <2>2. f[j] # 1
    <3>1. f[k + 1] < f[j] BY <1>c, <1>4, <2>0
    <3>2. f[k + 1] = 1 BY <1>3, <1>5
    <3>3. QED BY <3>1, <3>2, <2>1, <1>1
  <2>3. g[j] = f[j] - 1 BY <1>a DEF Moved
  <2>4. f[j] - 1 \in 1..(Len(w) - 1) /\ (f[j] - 1) + 1 = f[j] BY <1>1, <2>1, <2>2
  <2>5. v[f[j] - 1] = w[(f[j] - 1) + 1] BY <1>1, <2>4
  <2>6. QED BY <1>1, <2>0, <2>1, <2>2, <2>3, <2>4, <2>5
<1> HIDE DEF g
<1>8. Placed(v, t, k + 1, g)
  <2>2. ASSUME NEW i \in ((k + 1) + 1)..Len(t), NEW j \in ((k + 1) + 1)..Len(t), i < j PROVE g[i] < g[j]
    <3>1. f[i] < f[j] BY <1>c, <1>7, <2>2
    <3>2. g[i] = f[i] - 1 /\ f[i] \in 2..Len(w) BY <1>7
    <3>3. g[j] = f[j] - 1 /\ f[j] \in 2..Len(w) BY <1>7
    <3>4. QED BY <1>1, <3>1, <3>2, <3>3
  <2>3. ASSUME NEW i \in 1..Len(v), IsHead(v[i], "Text") PROVE \E j \in ((k + 1) + 1)..Len(t) : g[j] = i
    <3>1. i + 1 \in 1..Len(w) /\ IsHead(w[i + 1], "Text") BY <1>1, <2>3
    <3>2. PICK j \in (k + 1)..Len(t) : f[j] = i + 1 BY <1>2, <3>1 DEF Placed
    <3>3. j # k + 1 BY <1>3, <1>5, <3>2
    <3>4. j \in ((k + 1) + 1)..Len(t) BY <3>3, <1>a
    <3>7. g[j] = f[j] - 1 BY <1>7, <3>4
    <3>5. g[j] = i BY <1>1, <3>2, <3>7
    <3>6. QED BY <3>4, <3>5
  <2>4. \A j \in ((k + 1) + 1)..Len(t) :
          g[j] \in 1..Len(v) /\ IsHead(v[g[j]], "Text") /\ v[g[j]].data[1] = t[j]
    BY <1>7
  <2>5. QED BY <1>6, <2>2, <2>3, <2>4 DEF Placed
<1>9. Closed(v, t, k + 1, d, FALSE, g)
  <2>1. \A i \in 1..Len(v) : IsHead(v[i], "Close") <=> IsHead(w[i + 1], "Close") BY <1>1
  <2>2. ASSUME d = None PROVE \A i \in 1..Len(v) : ~IsHead(v[i], "Close")
    <3>1. \A i \in 1..Len(v) : i + 1 \in 1..Len(w) BY <1>1
    <3>2. QED BY <1>2, <2>1, <2>2, <3>1 DEF Closed
  <2>3. ASSUME d # None
        PROVE /\ k + 1 <= d
              /\ \E c \in 1..Len(v) :
                   /\ IsHead(v[c], "Close")
                   /\ \A i \in 1..Len(v) : IsHead(v[i], "Close") => c <= i
                   /\ \A j \in ((k + 1) + 1)..Len(t) : g[j] < c <=> j <= d
    <3>1. PICK c \in 1..Len(w) :
            /\ IsHead(w[c], "Close")
            /\ \A i \in 1..Len(w) : IsHead(w[i], "Close") => c <= i
            /\ \A j \in (k + 1)..Len(t) : f[j] < c <=> j <= d
      BY <1>2, <2>3 DEF Closed
    <3>2. c # 1 BY <3>1, OneKind
    <3>3. c - 1 \in 1..Len(v) /\ (c - 1) + 1 = c BY <1>1, <3>2
    <3>4. v[c - 1] = w[c] BY <1>1, <3>3
    <3>5. ASSUME NEW i \in 1..Len(v), IsHead(v[i], "Close") PROVE c - 1 <= i
      <4>1. i + 1 \in 1..Len(w) /\ IsHead(w[i + 1], "Close") BY <1>1, <2>1, <3>5
      <4>2. c <= i + 1 BY <3>1, <4>1
      <4>3. QED BY <4>2
    <3>6. ASSUME NEW j \in ((k + 1) + 1)..Len(t) PROVE g[j] < c - 1 <=> j <= d
      <4>1. f[j] \in 2..Len(w) /\ g[j] = f[j] - 1 /\ j \in (k + 1)..Len(t) BY <1>7
      <4>2. g[j] < c - 1 <=> f[j] < c BY <4>1, <1>1
      <4>3. f[j] < c <=> j <= d BY <3>1, <4>1
      <4>4. QED BY <4>2, <4>3
    <3>7. k + 1 <= d
      <4>1. f[k + 1] < c BY <1>3, <1>5, <3>2
      <4>2. QED BY <3>1, <4>1, <1>4
    <3>8. QED BY <3>1, <3>3, <3>4, <3>5, <3>6, <3>7
  <2>4. d # None => d \in Nat /\ d <= Len(t) BY <1>2 DEF Closed
  <2>5. QED BY <2>2, <2>3, <2>4 DEF Closed
<1>10. QED BY <1>6, <1>8, <1>9 DEF Counted, v

(* Reading the head of a close frame: the messages before it were taken.   *)
LEMMA CountedCloses ==
  ASSUME NEW w \in Seq(PartOfFrame), w # <<>>, NEW t \in Seq(Nat), NEW k \in Nat, NEW d,
         Counted(w, t, k, d, FALSE), IsHead(w[1], "Close")
  PROVE  d = k /\ d # None /\ Counted(Tail(w), t, k, d, TRUE)
<1> DEFINE v == Tail(w)
<1>1. /\ Len(w) \in Nat \ {0} /\ Len(v) = Len(w) - 1
      /\ \A i \in 1..(Len(w) - 1) : v[i] = w[i + 1]
  BY TailFacts
<1>a. Len(t) \in Nat OBVIOUS
<1> HIDE DEF v
<1>2. PICK f : Placed(w, t, k, f) /\ Closed(w, t, k, d, FALSE, f) BY DEF Counted
<1>b. 1 \in 1..Len(w) BY <1>1
<1>c. d # None BY <1>2, <1>b DEF Closed
<1>d. d \in Nat /\ d <= Len(t) /\ k <= d BY <1>2, <1>c DEF Closed
<1> DEFINE g == Moved(f)
<1>3. ASSUME NEW j \in (k + 1)..Len(t)
      PROVE  /\ f[j] \in 2..Len(w) /\ IsHead(w[f[j]], "Text") /\ w[f[j]].data[1] = t[j]
             /\ g[j] = f[j] - 1 /\ g[j] \in 1..Len(v) /\ v[g[j]] = w[f[j]]
  <2>1. f[j] \in 1..Len(w) /\ IsHead(w[f[j]], "Text") /\ w[f[j]].data[1] = t[j] BY <1>2 DEF Placed
  <2>2. f[j] # 1 BY <2>1, OneKind
  <2>3. g[j] = f[j] - 1 BY <1>a DEF Moved
  <2>4. f[j] - 1 \in 1..(Len(w) - 1) /\ (f[j] - 1) + 1 = f[j] BY <1>1, <2>1, <2>2
  <2>5. v[f[j] - 1] = w[(f[j] - 1) + 1] BY <1>1, <2>4
  <2>6. QED BY <1>1, <2>1, <2>2, <2>3, <2>4, <2>5
<1> HIDE DEF g
<1>4. Placed(v, t, k, g)
  <2>1. k <= Len(t) BY <1>2 DEF Placed
  <2>2. ASSUME NEW i \in (k + 1)..Len(t), NEW j \in (k + 1)..Len(t), i < j PROVE g[i] < g[j]
    <3>1. f[i] < f[j] BY <1>2, <2>2 DEF Placed
    <3>2. QED BY <1>3, <3>1
  <2>3. ASSUME NEW i \in 1..Len(v), IsHead(v[i], "Text") PROVE \E j \in (k + 1)..Len(t) : g[j] = i
    <3>1. i + 1 \in 1..Len(w) /\ IsHead(w[i + 1], "Text") BY <1>1, <2>3
    <3>2. PICK j \in (k + 1)..Len(t) : f[j] = i + 1 BY <1>2, <3>1 DEF Placed
    <3>3. g[j] = f[j] - 1 BY <1>3
    <3>4. g[j] = i BY <3>2, <3>3
    <3>5. QED BY <3>4
  <2>4. \A j \in (k + 1)..Len(t) :
          g[j] \in 1..Len(v) /\ IsHead(v[g[j]], "Text") /\ v[g[j]].data[1] = t[j]
    BY <1>3
  <2>5. QED BY <2>1, <2>2, <2>3, <2>4 DEF Placed
<1>5. d = k
  <2>1. SUFFICES ASSUME k < d PROVE FALSE BY <1>d
  <2>2. k + 1 \in (k + 1)..Len(t) /\ k + 1 <= d BY <2>1, <1>d, <1>a
  <2>3. PICK c \in 1..Len(w) :
            /\ \A i \in 1..Len(w) : IsHead(w[i], "Close") => c <= i
            /\ \A j \in (k + 1)..Len(t) : f[j] < c <=> j <= d
    BY <1>2, <1>c DEF Closed
  <2>4. c <= 1 BY <2>3, <1>b
  <2>5. f[k + 1] < c BY <2>2, <2>3
  <2>6. f[k + 1] \in 2..Len(w) BY <1>3, <2>2
  <2>7. QED BY <2>4, <2>5, <2>6, <1>1
<1>6. Closed(v, t, k, d, TRUE, g) BY <1>c, <1>d, <1>5 DEF Closed
<1>7. QED BY <1>4, <1>5, <1>6, <1>c DEF Counted, v

(* Writing what is no head of a message, nor the first close.              *)
LEMMA CountedGrows ==
  ASSUME NEW w \in Seq(PartOfFrame), NEW q \in PartOfFrame, NEW t \in Seq(Nat), NEW k \in Nat, NEW d, NEW x \in BOOLEAN,
         Counted(w, t, k, d, x), ~IsHead(q, "Text"), IsHead(q, "Close") => d # None
  PROVE  Counted(Append(w, q), t, k, d, x)
<1> DEFINE v == Append(w, q)
<1>1. /\ Len(w) \in Nat /\ Len(v) = Len(w) + 1 /\ v[Len(w) + 1] = q
      /\ \A i \in 1..Len(w) : v[i] = w[i]
  OBVIOUS
<1> HIDE DEF v
<1>2. PICK f : Placed(w, t, k, f) /\ Closed(w, t, k, d, x, f) BY DEF Counted
<1>3. \A i \in 1..Len(v) : i \in 1..Len(w) \/ i = Len(w) + 1 BY <1>1
<1>4. Placed(v, t, k, f)
  <2>1. ASSUME NEW j \in (k + 1)..Len(t)
        PROVE  f[j] \in 1..Len(v) /\ IsHead(v[f[j]], "Text") /\ v[f[j]].data[1] = t[j]
    <3>1. f[j] \in 1..Len(w) /\ IsHead(w[f[j]], "Text") /\ w[f[j]].data[1] = t[j] BY <1>2 DEF Placed
    <3>2. f[j] \in 1..Len(v) /\ v[f[j]] = w[f[j]] BY <1>1, <3>1
    <3>3. QED BY <3>1, <3>2
  <2>2. ASSUME NEW i \in 1..Len(v), IsHead(v[i], "Text") PROVE \E j \in (k + 1)..Len(t) : f[j] = i
    <3>1. i \in 1..Len(w) BY <1>1, <1>3, <2>2
    <3>2. IsHead(w[i], "Text") BY <1>1, <2>2, <3>1
    <3>3. QED BY <1>2, <3>1, <3>2 DEF Placed
  <2>3. QED BY <1>2, <2>1, <2>2 DEF Placed
<1>5. Closed(v, t, k, d, x, f)
  <2>2. ASSUME d = None PROVE ~x /\ \A i \in 1..Len(v) : ~IsHead(v[i], "Close")
    BY <1>1, <1>2, <1>3, <2>2 DEF Closed
  <2>3. ASSUME d # None, ~x
        PROVE \E c \in 1..Len(v) :
            /\ IsHead(v[c], "Close")
            /\ \A i \in 1..Len(v) : IsHead(v[i], "Close") => c <= i
            /\ \A j \in (k + 1)..Len(t) : f[j] < c <=> j <= d
    <3>1. PICK c \in 1..Len(w) :
            /\ IsHead(w[c], "Close")
            /\ \A i \in 1..Len(w) : IsHead(w[i], "Close") => c <= i
            /\ \A j \in (k + 1)..Len(t) : f[j] < c <=> j <= d
      BY <1>2, <2>3 DEF Closed
    <3>2. c \in 1..Len(v) /\ v[c] = w[c] BY <1>1
    <3>3. ASSUME NEW i \in 1..Len(v), IsHead(v[i], "Close") PROVE c <= i
      <4>1. CASE i = Len(w) + 1 BY <1>1, <4>1
      <4>2. CASE i \in 1..Len(w) BY <1>1, <3>1, <3>3, <4>2
      <4>3. QED BY <1>3, <4>1, <4>2
    <3>4. QED BY <3>1, <3>2, <3>3
  <2>4. QED BY <1>2, <2>2, <2>3 DEF Closed
<1>6. QED BY <1>4, <1>5 DEF Counted, v

(* Writing the head of a message.                                          *)
LEMMA CountedAdds ==
  ASSUME NEW w \in Seq(PartOfFrame), NEW q \in PartOfFrame, NEW t \in Seq(Nat), NEW k \in Nat, NEW d, NEW x \in BOOLEAN,
         Counted(w, t, k, d, x), IsHead(q, "Text"), q.data[1] \in Nat
  PROVE  Counted(Append(w, q), Append(t, q.data[1]), k, d, x)
<1> DEFINE v == Append(w, q)
           u == Append(t, q.data[1])
           n == Len(t) + 1
<1>1. /\ Len(w) \in Nat /\ Len(v) = Len(w) + 1 /\ v[Len(w) + 1] = q
      /\ \A i \in 1..Len(w) : v[i] = w[i]
  OBVIOUS
<1>2. /\ Len(t) \in Nat /\ Len(u) = n /\ u[n] = q.data[1]
      /\ \A i \in 1..Len(t) : u[i] = t[i]
  OBVIOUS
<1> HIDE DEF v, u
<1>3. PICK f : Placed(w, t, k, f) /\ Closed(w, t, k, d, x, f) BY DEF Counted
<1> DEFINE g == [j \in Nat |-> IF j = n THEN Len(w) + 1 ELSE f[j]]
<1>4. \A i \in 1..Len(v) : i \in 1..Len(w) \/ i = Len(w) + 1 BY <1>1
<1>5. \A j \in (k + 1)..Len(u) : j = n \/ j \in (k + 1)..Len(t) BY <1>2
<1>6. g[n] = Len(w) + 1 BY <1>2
<1>7. ASSUME NEW j \in (k + 1)..Len(t)
      PROVE  /\ g[j] = f[j] /\ f[j] \in 1..Len(w) /\ IsHead(w[f[j]], "Text") /\ w[f[j]].data[1] = t[j]
             /\ j < n /\ t[j] = u[j] /\ f[j] \in 1..Len(v) /\ v[f[j]] = w[f[j]]
  <2>1. j # n /\ j \in Nat /\ j < n /\ j \in 1..Len(t) BY <1>2
  <2>2. f[j] \in 1..Len(w) /\ IsHead(w[f[j]], "Text") /\ w[f[j]].data[1] = t[j] BY <1>3 DEF Placed
  <2>3. g[j] = f[j] BY <2>1
  <2>4. f[j] \in 1..Len(v) /\ v[f[j]] = w[f[j]] BY <1>1, <2>2
  <2>5. QED BY <1>2, <2>1, <2>2, <2>3, <2>4
<1>a. k <= Len(t) /\ n \in (k + 1)..Len(u) /\ \A j \in (k + 1)..Len(t) : j \in (k + 1)..Len(u)
  <2>1. k <= Len(t) BY <1>3 DEF Placed
  <2>2. QED BY <1>2, <2>1
<1> HIDE DEF g
<1>8. Placed(v, u, k, g)
  <2>1. ASSUME NEW j \in (k + 1)..Len(u)
        PROVE  g[j] \in 1..Len(v) /\ IsHead(v[g[j]], "Text") /\ v[g[j]].data[1] = u[j]
    <3>1. CASE j = n
      <4>1. Len(w) + 1 \in 1..Len(v) BY <1>1
      <4>2. QED BY <1>1, <1>2, <1>6, <3>1, <4>1
    <3>2. CASE j \in (k + 1)..Len(t)
      <4>1. /\ g[j] = f[j] /\ IsHead(w[f[j]], "Text") /\ w[f[j]].data[1] = t[j]
            /\ t[j] = u[j] /\ f[j] \in 1..Len(v) /\ v[f[j]] = w[f[j]]
        BY <1>7, <3>2
      <4>2. QED BY <4>1
    <3>3. QED BY <1>5, <3>1, <3>2
  <2>2. ASSUME NEW i \in (k + 1)..Len(u), NEW j \in (k + 1)..Len(u), i < j PROVE g[i] < g[j]
    <3>1. i \in (k + 1)..Len(t) BY <1>2, <2>2
    <3>2. g[i] = f[i] /\ f[i] \in 1..Len(w) BY <1>7, <3>1
    <3>3. CASE j = n BY <1>1, <1>6, <3>2, <3>3
    <3>4. CASE j \in (k + 1)..Len(t)
      <4>1. f[i] < f[j] BY <1>3, <2>2, <3>1, <3>4 DEF Placed
      <4>2. g[j] = f[j] BY <1>7, <3>4
      <4>3. QED BY <3>2, <4>1, <4>2
    <3>5. QED BY <1>5, <3>3, <3>4
  <2>3. ASSUME NEW i \in 1..Len(v), IsHead(v[i], "Text") PROVE \E j \in (k + 1)..Len(u) : g[j] = i
    <3>1. CASE i = Len(w) + 1 BY <1>6, <1>a, <3>1
    <3>2. CASE i \in 1..Len(w)
      <4>1. IsHead(w[i], "Text") BY <1>1, <2>3, <3>2
      <4>2. PICK j \in (k + 1)..Len(t) : f[j] = i BY <1>3, <3>2, <4>1 DEF Placed
      <4>3. g[j] = i /\ j \in (k + 1)..Len(u) BY <1>7, <1>a, <4>2
      <4>4. QED BY <4>3
    <3>3. QED BY <1>4, <3>1, <3>2
  <2>4. k <= Len(u) BY <1>2, <1>a
  <2>5. QED BY <2>1, <2>2, <2>3, <2>4 DEF Placed
<1>9. Closed(v, u, k, d, x, g)
  <2>2. ASSUME d = None PROVE ~x /\ \A i \in 1..Len(v) : ~IsHead(v[i], "Close")
    <3>1. ~x /\ \A i \in 1..Len(w) : ~IsHead(w[i], "Close") BY <1>3, <2>2 DEF Closed
    <3>2. QED BY <1>1, <1>4, <3>1, OneKind
  <2>3. ASSUME d # None PROVE d \in Nat /\ d <= Len(u) /\ d <= Len(t)
    <3>1. d \in Nat /\ d <= Len(t) BY <1>3, <2>3 DEF Closed
    <3>2. QED BY <1>2, <3>1
  <2>4. ASSUME d # None, ~x
        PROVE /\ k <= d
              /\ \E c \in 1..Len(v) :
                   /\ IsHead(v[c], "Close")
                   /\ \A i \in 1..Len(v) : IsHead(v[i], "Close") => c <= i
                   /\ \A j \in (k + 1)..Len(u) : g[j] < c <=> j <= d
    <3>1. k <= d BY <1>3, <2>4 DEF Closed
    <3>2. PICK c \in 1..Len(w) :
            /\ IsHead(w[c], "Close")
            /\ \A i \in 1..Len(w) : IsHead(w[i], "Close") => c <= i
            /\ \A j \in (k + 1)..Len(t) : f[j] < c <=> j <= d
      BY <1>3, <2>4 DEF Closed
    <3>3. c \in 1..Len(v) /\ v[c] = w[c] BY <1>1
    <3>4. ASSUME NEW i \in 1..Len(v), IsHead(v[i], "Close") PROVE c <= i
      <4>1. CASE i = Len(w) + 1 BY <1>1, <4>1
      <4>2. CASE i \in 1..Len(w) BY <1>1, <3>2, <3>4, <4>2
      <4>3. QED BY <1>4, <4>1, <4>2
    <3>5. ASSUME NEW j \in (k + 1)..Len(u) PROVE g[j] < c <=> j <= d
      <4>1. CASE j = n
        <5>1. ~(g[j] < c) BY <1>1, <1>6, <4>1
        <5>2. ~(j <= d) BY <1>2, <2>3, <2>4, <4>1
        <5>3. QED BY <5>1, <5>2
      <4>2. CASE j \in (k + 1)..Len(t)
        <5>1. g[j] = f[j] BY <1>7, <4>2
        <5>2. f[j] < c <=> j <= d BY <3>2, <4>2
        <5>3. QED BY <5>1, <5>2
      <4>3. QED BY <1>5, <4>1, <4>2
    <3>6. QED BY <3>1, <3>2, <3>3, <3>4, <3>5
  <2>5. d # None /\ x => d = k BY <1>3 DEF Closed
  <2>6. QED BY <2>2, <2>3, <2>4, <2>5 DEF Closed
<1>10. QED BY <1>8, <1>9 DEF Counted, v, u

(* Writing the head of the first close frame.                              *)
LEMMA CountedShuts ==
  ASSUME NEW w \in Seq(PartOfFrame), NEW q \in PartOfFrame, NEW t \in Seq(Nat), NEW k \in Nat, NEW x \in BOOLEAN,
         Counted(w, t, k, None, x), IsHead(q, "Close")
  PROVE  Counted(Append(w, q), t, k, Len(t), x)
<1> DEFINE v == Append(w, q)
<1>1. /\ Len(w) \in Nat /\ Len(v) = Len(w) + 1 /\ v[Len(w) + 1] = q
      /\ \A i \in 1..Len(w) : v[i] = w[i]
  OBVIOUS
<1> HIDE DEF v
<1>2. PICK f : Placed(w, t, k, f) /\ Closed(w, t, k, None, x, f) BY DEF Counted
<1>3. \A i \in 1..Len(v) : i \in 1..Len(w) \/ i = Len(w) + 1 BY <1>1
<1>a. Len(t) \in Nat OBVIOUS
<1>b. ~x /\ \A i \in 1..Len(w) : ~IsHead(w[i], "Close") BY <1>2 DEF Closed
<1>4. \A j \in (k + 1)..Len(t) :
        f[j] \in 1..Len(w) /\ IsHead(w[f[j]], "Text") /\ w[f[j]].data[1] = t[j]
  BY <1>2 DEF Placed
<1>5. Placed(v, t, k, f)
  <2>1. ASSUME NEW j \in (k + 1)..Len(t)
        PROVE  f[j] \in 1..Len(v) /\ IsHead(v[f[j]], "Text") /\ v[f[j]].data[1] = t[j]
    <3>2. f[j] \in 1..Len(v) /\ v[f[j]] = w[f[j]] BY <1>1, <1>4
    <3>3. QED BY <1>4, <3>2
  <2>2. ASSUME NEW i \in 1..Len(v), IsHead(v[i], "Text") PROVE \E j \in (k + 1)..Len(t) : f[j] = i
    <3>0. ~IsHead(q, "Text") BY OneKind
    <3>4. i # Len(w) + 1
      <4>1. SUFFICES ASSUME i = Len(w) + 1 PROVE FALSE OBVIOUS
      <4>2. v[i] = q BY <1>1, <4>1
      <4>3. QED BY <2>2, <3>0, <4>2
    <3>1. i \in 1..Len(w) BY <1>3, <3>4
    <3>2. IsHead(w[i], "Text") BY <1>1, <2>2, <3>1
    <3>3. QED BY <1>2, <3>1, <3>2 DEF Placed
  <2>3. QED BY <1>2, <2>1, <2>2 DEF Placed
<1>6. Closed(v, t, k, Len(t), x, f)
  <2>1. Len(t) # None BY <1>a, WebSocketAssumption
  <2>2. k <= Len(t) BY <1>2 DEF Placed
  <2>3. Len(w) + 1 \in 1..Len(v) /\ IsHead(v[Len(w) + 1], "Close") BY <1>1
  <2>4. \A i \in 1..Len(v) : IsHead(v[i], "Close") => Len(w) + 1 <= i BY <1>1, <1>3, <1>b
  <2>5. \A j \in (k + 1)..Len(t) : f[j] < Len(w) + 1 <=> j <= Len(t) BY <1>1, <1>4, <1>a
  <2>6. \E c \in 1..Len(v) :
            /\ IsHead(v[c], "Close")
            /\ \A i \in 1..Len(v) : IsHead(v[i], "Close") => c <= i
            /\ \A j \in (k + 1)..Len(t) : f[j] < c <=> j <= Len(t)
    BY <2>3, <2>4, <2>5, Zenon
  <2>7. Len(t) \in Nat /\ Len(t) <= Len(t) BY <1>a
  <2>8. QED BY <1>b, <2>1, <2>2, <2>6, <2>7, Zenon DEF Closed
<1>7. QED BY <1>5, <1>6 DEF Counted, v
-----------------------------------------------------------------------------
(* The invariant. *)

SoundPart == {p \in PartOfFrame : p.op = "Text" => p.data # <<>>}

TypeOK ==
  /\ wire \in [End -> Seq(SoundPart)] /\ out \in [End -> Seq(SoundPart)] /\ bout \in [End -> Seq(SoundPart)]
  /\ pc \in [End -> {"app", "recv", "pong", "onlyPong", "closing", "closed", "failed"}]
  /\ got \in [End -> SoundPart \cup {None}] /\ first \in [End -> Ops \cup {None}]
  /\ content \in [End -> Seq(Nat)] /\ held \in [End -> Seq(Nat) \cup {None}]
  /\ cause \in [End -> {"closed", "type", "protocol", "timeout", "io", None}]
  /\ pings \in [End -> Nat] /\ made \in [End -> Nat]
  /\ texts \in [End -> Seq(Nat)] /\ due \in [End -> Nat \cup {None}]
  /\ recvd \in [End -> Seq(Seq(Nat))] /\ mixed \in BOOLEAN /\ parted \in BOOLEAN
  /\ astray \in SUBSET End /\ odd \in [End -> SUBSET Strays]

(* A Binary frame and a bad head are strays of the peer of r.              *)
Own(op, r) == op \in {"Binary", "Bad"} => op \in odd[Peer(r)]
Sent(r) == {p \in SoundPart : Own(p.op, r)}
Clean == {p \in SoundPart : p.op \notin {"Binary", "Bad"}}

StraysOK(r) ==
  /\ wire[r] \in Seq(Sent(r)) /\ out[Peer(r)] \in Seq(Sent(r)) /\ bout[Peer(r)] \in Seq(Sent(r))
  /\ got[r] # None => Own(got[r].op, r)
  /\ first[r] # None => first[r] # "Bad" /\ Own(first[r], r)

(* A message is held while the pong is read after it, and only then; who   *)
(* has thrown has ended.                                                   *)
HeldOK(e) == ~Ended(e) => (held[e] # None <=> pc[e] = "onlyPong") /\ cause[e] = None

(* The frames a coroutine has left to send: each part is followed by the   *)
(* next, up to a ping between fragments.                                   *)
Between(w, j) == IsHead(w[j], "Ping") /\ j + 1 < Len(w)

OutOK(w, e) ==
  /\ AllOK(w)
  /\ \A i \in 1..(Len(w) - 1) : Follows(w[i], w[i + 1]) \/ \E j \in 1..(i + 1) : Between(w, j)
  /\ \A i \in 1..Len(w) :
       /\ IsHead(w[i], "Pong") => i = 1 /\ Len(w) = 2
       /\ IsHead(w[i], "Ping") => (i = 1 /\ Len(w) = 2) \/ Between(w, i)
  /\ w # <<>> => Done(w[Len(w)])
  /\ e \notin Foreign => Len(w) <= 2 /\ \A i \in 1..Len(w) : w[i].op # "Cont" /\ w[i].fin

BoutOK(w, e) ==
  /\ AllOK(w) /\ Len(w) <= 2
  /\ \A i \in 1..Len(w) : w[i].op = "Text" /\ w[i].fin
  /\ \A i \in 1..(Len(w) - 1) : Follows(w[i], w[i + 1])
  /\ w # <<>> => Done(w[Len(w)]) /\ e \in Broadcasting

(* What the reader has taken from the wire last, as far as it matters for  *)
(* what may follow.                                                        *)
Prev(r) ==
  IF got[r] # None THEN got[r]
  ELSE Part("content", IF first[r] = None THEN "Pong" ELSE "Text", first[r] = None, content[r])

ReadOK(r) ==
  /\ got[r] # None =>
       /\ got[r].part = "head" /\ PartOK(got[r])
       /\ IF got[r].op = "Cont" THEN first[r] = "Text" /\ content[r] = got[r].data
          ELSE first[r] = got[r].op /\ content[r] = <<>>
  /\ got[r] = None =>
       \/ first[r] = None /\ content[r] = <<>>
       \/ first[r] = "Text" /\ \E m \in Nat : content[r] = <<m>>

(* The end p of the wire and the parts o and b its two senders have left.  *)
Linked(p, o, b) ==
  /\ o # <<>> /\ ~Open(b) => Follows(p, o[1]) \/ BetweenFragments(o)
  /\ b # <<>> /\ ~Open(o) => Follows(p, b[1])
  /\ ~(Open(o) /\ Open(b))
  /\ o = <<>> /\ ~Open(b) => Done(p)

Kept(r) == Len(recvd[r]) + (IF held[r] # None THEN 1 ELSE 0)
Taken(r) == Kept(r) + (IF first[r] = "Text" THEN 1 ELSE 0)

(* The message held, and the one being read, are the next ones.            *)
InHand(r) ==
  LET t == texts[Peer(r)] IN
  /\ held[r] # None => held[r] = <<t[Len(recvd[r]) + 1], t[Len(recvd[r]) + 1]>>
  /\ first[r] = "Text" =>
       IF got[r] # None THEN got[r].data[1] = t[Kept(r) + 1] ELSE content[r] = <<t[Kept(r) + 1]>>

(* Where a ping of r and the pong that answers it are.                     *)
Starts(w, op) == Len(w) = 2 /\ IsHead(w[1], op)
Carries(w, op) == \E i \in 1..Len(w) : IsHead(w[i], op)
Alone(w, op) == \A i, j \in 1..Len(w) : IsHead(w[i], op) /\ IsHead(w[j], op) => i = j

Stage(n, r) ==
  \/ n = 1 /\ Starts(out[r], "Ping")
  \/ n = 2 /\ Carries(wire[Peer(r)], "Ping")
  \/ n = 3 /\ first[Peer(r)] = "Ping"
  \/ n = 4 /\ Starts(out[Peer(r)], "Pong")
  \/ n = 5 /\ Carries(wire[r], "Pong")
  \/ n = 6 /\ first[r] = "Pong"

Waiting(r) == pc[r] \in {"pong", "onlyPong"}

OnePing(r) ==
  /\ Alone(wire[Peer(r)], "Ping") /\ Alone(wire[r], "Pong")
  /\ \A a, b \in 1..6 : Stage(a, r) /\ Stage(b, r) => a = b
  /\ ~Waiting(r) => \A a \in 1..6 : ~Stage(a, r)

(* The pongs of r's peer answer r's pings, if it sends none of its own.    *)
Answers(r) == "Pong" \in odd[Peer(r)] \/ OnePing(r)

(* One direction, while its reader r has not ended.                        *)
Stream(r) ==
  /\ ReadOK(r)
  /\ Chained(Prev(r), wire[r])
  /\ Linked(Tip(Prev(r), wire[r]), out[Peer(r)], bout[Peer(r)])

Direction(r) ==
  /\ Stream(r)
  /\ Counted(wire[r], texts[Peer(r)], Taken(r), due[Peer(r)], first[r] = "Close")
  /\ InHand(r) /\ Answers(r)

Verdict(e) ==
  /\ \A i \in 1..Len(recvd[e]) :
       i <= Len(texts[Peer(e)]) /\ recvd[e][i] = <<texts[Peer(e)][i], texts[Peer(e)][i]>>
  /\ cause[e] = "type" => held[e] # None \/ odd[Peer(e)] \cap {"Binary", "Pong"} # {}
  /\ cause[e] = "protocol" => "Bad" \in odd[Peer(e)]
  /\ cause[e] = "closed" => held[e] # None \/ (Len(recvd[e]) = due[Peer(e)] /\ due[Peer(e)] # None)

EndOK(e) == OutOK(out[e], e) /\ BoutOK(bout[e], e) /\ Verdict(e) /\ (~Ended(e) => Direction(e))

Inv ==
  /\ TypeOK
  /\ \A e \in End : HeldOK(e) /\ StraysOK(e)
  /\ ~Disturbed => \A e \in End : EndOK(e)

-----------------------------------------------------------------------------
(* Frames. *)

LEMMA PeerFacts ==
  /\ End = {"server", "client"}
  /\ \A e \in End : Peer(e) \in End /\ Peer(e) # e /\ Peer(Peer(e)) = e
  /\ \A e, r \in End : r = e \/ r = Peer(e)
BY DEF End, Peer

LEMMA PartFields ==
  ASSUME NEW k, NEW op, NEW fin, NEW data
  PROVE  /\ Part(k, op, fin, data).part = k /\ Part(k, op, fin, data).op = op
         /\ Part(k, op, fin, data).fin = fin /\ Part(k, op, fin, data).data = data
BY DEF Part

LEMMA PairFacts ==
  ASSUME NEW a, NEW b
  PROVE  Len(<<a, b>>) = 2 /\ <<a, b>>[1] = a /\ <<a, b>>[2] = b /\ <<a, b>> # <<>> /\ Head(<<a, b>>) = a
OBVIOUS

LEMMA TwoFacts ==
  ASSUME NEW a, NEW b
  PROVE  <<a>> \o <<b>> = <<a, b>>
<1> DEFINE T == {a, b}
           w == <<a>> \o <<b>>
<1>1. <<a>> \in Seq(T) /\ <<b>> \in Seq(T) /\ <<a, b>> \in Seq(T) OBVIOUS
<1>2. w \in Seq(T) /\ Len(w) = 2 BY <1>1
<1>3. w[1] = a /\ w[2] = b BY <1>1
<1> HIDE DEF w
<1>4. w = <<a, b>> BY <1>1, <1>2, <1>3, SeqEqual
<1>5. QED BY <1>4 DEF w

LEMMA FourFacts ==
  ASSUME NEW a, NEW b, NEW c, NEW d
  PROVE  <<a, b>> \o <<>> = <<a, b>> /\ <<a, b>> \o <<c, d>> = <<a, b, c, d>>
<1> DEFINE T == {a, b, c, d}
           w == <<a, b>> \o <<c, d>>
<1>1. <<a, b>> \in Seq(T) /\ <<c, d>> \in Seq(T) /\ <<a, b, c, d>> \in Seq(T) OBVIOUS
<1>2. w \in Seq(T) /\ Len(w) = 4 BY <1>1
<1>3. w[1] = a /\ w[2] = b /\ w[3] = c /\ w[4] = d BY <1>1
<1> HIDE DEF w
<1>4. w = <<a, b, c, d>> BY <1>1, <1>2, <1>3, SeqEqual
<1>5. <<a, b>> \o <<>> = <<a, b>> BY <1>1
<1>6. QED BY <1>4, <1>5 DEF w

LEMMA SixFacts ==
  ASSUME NEW a, NEW b, NEW c, NEW d, NEW p, NEW q
  PROVE  <<a, b, p, q>> \o <<c, d>> = <<a, b, p, q, c, d>>
<1> DEFINE T == {a, b, c, d, p, q}
           u == <<a, b, p, q>>
           v == <<c, d>>
           w == u \o v
           x == <<a, b, p, q, c, d>>
<1>1. u \in Seq(T) /\ v \in Seq(T) /\ x \in Seq(T) OBVIOUS
<1>2. Len(u) = 4 /\ u[1] = a /\ u[2] = b /\ u[3] = p /\ u[4] = q /\ Len(v) = 2 /\ v[1] = c /\ v[2] = d
  OBVIOUS
<1>3. Len(x) = 6 /\ x[1] = a /\ x[2] = b /\ x[3] = p /\ x[4] = q /\ x[5] = c /\ x[6] = d OBVIOUS
<1> HIDE DEF u, v, x, T
<1>4. w \in Seq(T) /\ Len(w) = 6 /\ \A i \in 1..6 : w[i] = IF i <= 4 THEN u[i] ELSE v[i - 4]
  <2>1. /\ u \o v \in Seq(T) /\ Len(u \o v) = Len(u) + Len(v)
        /\ \A i \in 1..(Len(u) + Len(v)) : (u \o v)[i] = IF i <= Len(u) THEN u[i] ELSE v[i - Len(u)]
    BY <1>1, ConcatProperties
  <2>2. QED BY <1>2, <2>1
<1> HIDE DEF w
<1>5. /\ w[1] = a /\ w[2] = b /\ w[3] = p /\ w[4] = q /\ w[5] = c /\ w[6] = d
  BY <1>2, <1>4
<1>6. \A i \in 1..6 : w[i] = x[i] BY <1>3, <1>5
<1>7. w = x BY <1>1, <1>3, <1>4, <1>6, SeqEqual
<1>8. QED BY <1>7 DEF u, v, w, x

LEMMA PartInSet ==
  ASSUME NEW k \in {"head", "content"}, NEW op \in Ops, NEW fin \in BOOLEAN, NEW data \in Seq(Nat)
  PROVE  Part(k, op, fin, data) \in PartOfFrame
BY DEF Part, PartOfFrame

LEMMA SoundInSet == SoundPart \subseteq PartOfFrame /\ \A w \in Seq(SoundPart) : w \in Seq(PartOfFrame)
<1>1. SoundPart \subseteq PartOfFrame BY DEF SoundPart
<1>2. \A w \in Seq(SoundPart) : w \in Seq(PartOfFrame)
  <2>1. ASSUME NEW w \in Seq(SoundPart) PROVE w \in Seq(PartOfFrame)
    <3>1. \A i \in 1..Len(w) : w[i] \in PartOfFrame BY <1>1
    <3>2. w \in Seq(PartOfFrame) BY <3>1
    <3>3. QED BY <3>2
  <2>2. QED BY <2>1
<1>3. QED BY <1>1, <1>2

LEMMA HeadThenContent ==
  ASSUME NEW op, NEW fin, NEW data
  PROVE  Follows(Part("head", op, fin, data), Part("content", op, fin, data))
<1>1. [Part("head", op, fin, data) EXCEPT !.part = "content"] = Part("content", op, fin, data) BY DEF Part
<1>2. QED BY <1>1, PartFields DEF Follows

(* A frame of its own is no continuation.                                  *)
Fresh(w) == w # <<>> /\ w[1].part = "head" /\ w[1].op # "Cont" /\ ~BetweenFragments(w)

LEMMA FrameOK ==
  ASSUME NEW op \in Ops, op # "Cont", NEW data \in Seq(Nat), NEW e,
         PartOK(Part("head", op, TRUE, data)), PartOK(Part("content", op, TRUE, data))
  PROVE  /\ OutOK(Frame(op, TRUE, data), e) /\ Fresh(Frame(op, TRUE, data)) /\ Len(Frame(op, TRUE, data)) = 2
         /\ Frame(op, TRUE, data)[1] = Part("head", op, TRUE, data)
         /\ Frame(op, TRUE, data)[2] = Part("content", op, TRUE, data)
<1> DEFINE w == Frame(op, TRUE, data)
           h == Part("head", op, TRUE, data)
           c == Part("content", op, TRUE, data)
<1>1. w = <<h, c>> BY DEF Frame
<1>3. h.part = "head" /\ h.op = op /\ c.part = "content" /\ c.op = op /\ c.fin /\ h.fin BY DEF Part
<1>4. Follows(h, c) BY HeadThenContent
<1>5. PartOK(h) /\ PartOK(c) OBVIOUS
<1>9. \A i \in 1..2 : i = 1 \/ i = 2 OBVIOUS
<1> HIDE DEF w, h, c
<1>2. Len(w) = 2 /\ w[1] = h /\ w[2] = c /\ w # <<>> /\ Head(w) = h BY <1>1, PairFacts
<1>6. Fresh(w) BY <1>2, <1>3 DEF Fresh, BetweenFragments
<1>7. OutOK(w, e)
  <2>1. AllOK(w) BY <1>2, <1>5, <1>9 DEF AllOK
  <2>2. \A i \in 1..(Len(w) - 1) : Follows(w[i], w[i + 1])
    <3>1. \A i \in 1..(Len(w) - 1) : i = 1 BY <1>2
    <3>2. Follows(w[1], w[1 + 1]) BY <1>2, <1>4
    <3>3. QED BY <3>1, <3>2
  <2>3. \A i \in 1..Len(w) : w[i].part = "head" => i = 1 BY <1>2, <1>3, <1>9
  <2>4. Done(w[Len(w)]) BY <1>2, <1>3 DEF Done
  <2>5. \A i \in 1..Len(w) : w[i].op # "Cont" /\ w[i].fin BY <1>2, <1>3, <1>9
  <2>6. QED BY <1>2, <2>1, <2>2, <2>3, <2>4, <2>5 DEF OutOK, IsHead
<1>8. QED BY <1>2, <1>6, <1>7 DEF w, h, c

LEMMA ControlOK ==
  ASSUME NEW op \in {"Ping", "Pong", "Close"} \cup Strays, NEW e
  PROVE  /\ OutOK(Control(op), e) /\ Fresh(Control(op)) /\ Len(Control(op)) = 2
         /\ IsHead(Control(op)[1], op) /\ Control(op) \in Seq({p \in SoundPart : p.op = op})
         /\ Control(op) \in Seq(SoundPart)
<1> DEFINE h == Part("head", op, TRUE, <<>>)
           c == Part("content", op, TRUE, <<>>)
<1>1. h \in PartOfFrame /\ c \in PartOfFrame BY DEF Part, PartOfFrame, Ops, Data, Strays
<1>2. h.op = op /\ h.part = "head" /\ h.fin = TRUE /\ h.data = <<>>
      /\ c.op = op /\ c.part = "content" /\ c.fin = TRUE /\ c.data = <<>>
  BY DEF Part
<1> HIDE DEF h, c
<1>3. PartOK(h) /\ PartOK(c) /\ h \in SoundPart /\ c \in SoundPart BY <1>1, <1>2 DEF PartOK, SoundPart, Strays
<1>4. Control(op) = Frame(op, TRUE, <<>>) BY DEF Control
<1>5. op \in Ops /\ op # "Cont" /\ <<>> \in Seq(Nat) BY DEF Ops, Data, Strays
<1>6. Control(op) = <<h, c>> BY <1>4 DEF Frame, h, c
<1>7. /\ OutOK(Control(op), e) /\ Fresh(Control(op)) /\ Len(Control(op)) = 2
      /\ Control(op)[1] = h
  BY <1>3, <1>4, <1>5, FrameOK DEF h, c
<1>8. Control(op) \in Seq(SoundPart) BY <1>3, <1>6
<1>9. h \in {p \in SoundPart : p.op = op} /\ c \in {p \in SoundPart : p.op = op} BY <1>2, <1>3
<1>10. Control(op) \in Seq({p \in SoundPart : p.op = op}) BY <1>6, <1>9
<1>11. QED BY <1>2, <1>7, <1>8, <1>10 DEF IsHead

LEMMA WholeOK ==
  ASSUME NEW m \in Nat, NEW e
  PROVE  /\ OutOK(Whole(m), e) /\ Fresh(Whole(m)) /\ Len(Whole(m)) = 2
         /\ IsHead(Whole(m)[1], "Text") /\ Whole(m) \in Seq(SoundPart) /\ Whole(m) \in Seq(Clean)
         /\ e \in Broadcasting => BoutOK(Whole(m), e)
<1> DEFINE h == Part("head", "Text", TRUE, <<m, m>>)
           c == Part("content", "Text", TRUE, <<m, m>>)
<1>0. <<m, m>> \in Seq(Nat) /\ <<m, m>> # <<>> OBVIOUS
<1>1. h \in PartOfFrame /\ c \in PartOfFrame BY <1>0 DEF Part, PartOfFrame, Ops, Data
<1>2. h.op = "Text" /\ h.part = "head" /\ h.fin = TRUE /\ h.data = <<m, m>>
      /\ c.op = "Text" /\ c.part = "content" /\ c.fin = TRUE /\ c.data = <<m, m>>
  BY DEF Part
<1> HIDE DEF h, c
<1>3. PartOK(h) /\ PartOK(c) /\ h \in SoundPart /\ c \in SoundPart BY <1>0, <1>1, <1>2 DEF PartOK, SoundPart
<1>4. Whole(m) = Frame("Text", TRUE, <<m, m>>) BY DEF Whole
<1>5. "Text" \in Ops /\ "Text" # "Cont" BY DEF Ops, Data
<1>6. Whole(m) = <<h, c>> BY <1>4 DEF Frame, h, c
<1>7. /\ OutOK(Whole(m), e) /\ Fresh(Whole(m)) /\ Len(Whole(m)) = 2
      /\ Whole(m)[1] = h /\ Whole(m)[2] = c
  BY <1>0, <1>3, <1>4, <1>5, FrameOK DEF h, c
<1>8. Whole(m) \in Seq(SoundPart) BY <1>3, <1>6
<1>9. ASSUME e \in Broadcasting PROVE BoutOK(Whole(m), e)
  <2>1. AllOK(Whole(m)) /\ Done(Whole(m)[Len(Whole(m))]) BY <1>2, <1>3, <1>7 DEF OutOK, Done
  <2>2. \A i \in 1..Len(Whole(m)) : i = 1 \/ i = 2 BY <1>7
  <2>3. \A i \in 1..(Len(Whole(m)) - 1) : i = 1 BY <1>7
  <2>4. Follows(h, c) BY HeadThenContent DEF h, c
  <2>5. Follows(Whole(m)[1], Whole(m)[1 + 1]) BY <1>7, <2>4
  <2>6. QED BY <1>2, <1>7, <1>9, <2>1, <2>2, <2>3, <2>5 DEF BoutOK
<1>10. Whole(m) \in Seq(Clean)
  <2>1. h \in Clean /\ c \in Clean BY <1>2, <1>3 DEF Clean
  <2>2. QED BY <1>6, <2>1
<1>11. QED BY <1>2, <1>7, <1>8, <1>9, <1>10 DEF IsHead

LEMMA FragmentedOK ==
  ASSUME NEW m \in Nat, NEW e \in Foreign, NEW w \in Fragmented(m)
  PROVE  /\ OutOK(w, e) /\ Fresh(w) /\ Len(w) # 2
         /\ IsHead(w[1], "Text") /\ w \in Seq(SoundPart) /\ w \in Seq(Clean)
<1> DEFINE a == Part("head", "Text", FALSE, <<m>>)
           b == Part("content", "Text", FALSE, <<m>>)
           c == Part("head", "Cont", TRUE, <<m>>)
           d == Part("content", "Cont", TRUE, <<m>>)
           p == Part("head", "Ping", TRUE, <<>>)
           q == Part("content", "Ping", TRUE, <<>>)
<1>0. <<m>> \in Seq(Nat) /\ <<m>> # <<>> OBVIOUS
<1>1. /\ a \in PartOfFrame /\ b \in PartOfFrame /\ c \in PartOfFrame /\ d \in PartOfFrame
      /\ p \in PartOfFrame /\ q \in PartOfFrame
  BY <1>0 DEF Part, PartOfFrame, Ops, Data
<1>2. /\ a.op = "Text" /\ a.part = "head" /\ a.fin = FALSE /\ a.data = <<m>>
      /\ b.op = "Text" /\ b.part = "content" /\ b.fin = FALSE /\ b.data = <<m>>
      /\ c.op = "Cont" /\ c.part = "head" /\ c.fin = TRUE /\ c.data = <<m>>
      /\ d.op = "Cont" /\ d.part = "content" /\ d.fin = TRUE /\ d.data = <<m>>
      /\ p.op = "Ping" /\ p.part = "head" /\ p.fin = TRUE /\ p.data = <<>>
      /\ q.op = "Ping" /\ q.part = "content" /\ q.fin = TRUE /\ q.data = <<>>
  BY DEF Part
<1>3. Follows(a, b) /\ Follows(c, d) /\ Follows(p, q) BY HeadThenContent
<1>4. w = <<a, b, c, d>> \/ w = <<a, b, p, q, c, d>>
  <2>1. PICK between \in {<<>>, Control("Ping")} :
          w = Frame("Text", FALSE, <<m>>) \o between \o Frame("Cont", TRUE, <<m>>)
    BY DEF Fragmented
  <2>2. w = <<a, b>> \o between \o <<c, d>> /\ (between = <<>> \/ between = <<p, q>>)
    BY <2>1 DEF Frame, Control
  <2> HIDE DEF a, b, c, d, p, q
  <2>3. CASE between = <<>>
    <3>1. <<a, b>> \o <<>> = <<a, b>> BY FourFacts
    <3>2. <<a, b>> \o <<c, d>> = <<a, b, c, d>> BY FourFacts
    <3>3. QED BY <2>2, <2>3, <3>1, <3>2
  <2>4. CASE between = <<p, q>>
    <3>1. <<a, b>> \o <<p, q>> = <<a, b, p, q>> BY FourFacts
    <3>2. <<a, b, p, q>> \o <<c, d>> = <<a, b, p, q, c, d>> BY SixFacts
    <3>3. QED BY <2>2, <2>4, <3>1, <3>2
  <2>5. QED BY <2>2, <2>3, <2>4
<1> HIDE DEF a, b, c, d, p, q
<1>5. /\ PartOK(a) /\ PartOK(b) /\ PartOK(c) /\ PartOK(d) /\ PartOK(p) /\ PartOK(q)
      /\ a \in SoundPart /\ b \in SoundPart /\ c \in SoundPart /\ d \in SoundPart
      /\ p \in SoundPart /\ q \in SoundPart
  BY <1>0, <1>1, <1>2 DEF PartOK, SoundPart
<1>6. Follows(b, c) BY <1>2 DEF Follows
<1>a. a \in Clean /\ b \in Clean /\ c \in Clean /\ d \in Clean /\ p \in Clean /\ q \in Clean
  BY <1>2, <1>5 DEF Clean
<1>b. w \in Seq(Clean)
  <2>1. CASE w = <<a, b, c, d>> BY <1>a, <2>1
  <2>2. CASE w = <<a, b, p, q, c, d>> BY <1>a, <2>2
  <2>3. QED BY <1>4, <2>1, <2>2
<1>7. CASE w = <<a, b, c, d>>
  <2>1. Len(w) = 4 /\ w[1] = a /\ w[2] = b /\ w[3] = c /\ w[4] = d /\ w # <<>> /\ Head(w) = a BY <1>7
  <2>2. w \in Seq(SoundPart) BY <1>5, <1>7
  <2>3. \A i \in 1..4 : i = 1 \/ i = 2 \/ i = 3 \/ i = 4 OBVIOUS
  <2>4. AllOK(w) BY <1>5, <2>1, <2>3 DEF AllOK
  <2>5. \A i \in 1..(Len(w) - 1) : Follows(w[i], w[i + 1])
    <3>1. \A i \in 1..(Len(w) - 1) : i = 1 \/ i = 2 \/ i = 3 BY <2>1
    <3>2. Follows(w[1], w[1 + 1]) /\ Follows(w[2], w[2 + 1]) /\ Follows(w[3], w[3 + 1])
      BY <1>3, <1>6, <2>1
    <3>3. QED BY <3>1, <3>2
  <2>6. \A i \in 1..Len(w) : ~IsHead(w[i], "Ping") /\ ~IsHead(w[i], "Pong") BY <1>2, <2>1, <2>3 DEF IsHead
  <2>8. Done(w[Len(w)]) BY <1>2, <2>1 DEF Done
  <2>9. OutOK(w, e) BY <2>4, <2>5, <2>6, <2>8 DEF OutOK
  <2>10. Fresh(w) /\ IsHead(w[1], "Text") BY <1>2, <2>1 DEF Fresh, BetweenFragments, IsHead
  <2>11. QED BY <1>b, <2>1, <2>2, <2>9, <2>10
<1>8. CASE w = <<a, b, p, q, c, d>>
  <2>1. Len(w) = 6 /\ w[1] = a /\ w[2] = b /\ w[3] = p /\ w[4] = q /\ w[5] = c /\ w[6] = d
        /\ w # <<>> /\ Head(w) = a
    BY <1>8
  <2>2. w \in Seq(SoundPart) BY <1>5, <1>8
  <2>3. \A i \in 1..6 : i = 1 \/ i = 2 \/ i = 3 \/ i = 4 \/ i = 5 \/ i = 6 OBVIOUS
  <2>4. AllOK(w) BY <1>5, <2>1, <2>3 DEF AllOK
  <2>5. Between(w, 3) BY <1>2, <2>1 DEF Between, IsHead
  <2>6. ASSUME NEW i \in 1..(Len(w) - 1)
        PROVE  Follows(w[i], w[i + 1]) \/ \E j \in 1..(i + 1) : Between(w, j)
    <3>1. CASE i = 1
      <4>1. Follows(w[1], w[1 + 1]) BY <1>3, <2>1
      <4>2. QED BY <3>1, <4>1
    <3>2. CASE i # 1
      <4>1. 3 \in 1..(i + 1) BY <3>2, <2>1
      <4>2. QED BY <2>5, <4>1
    <3>3. QED BY <3>1, <3>2
  <2>7. \A i \in 1..Len(w) : (IsHead(w[i], "Ping") => i = 3) /\ ~IsHead(w[i], "Pong")
    BY <1>2, <2>1, <2>3 DEF IsHead
  <2>8. Done(w[Len(w)]) BY <1>2, <2>1 DEF Done
  <2>9. OutOK(w, e) BY <2>4, <2>5, <2>6, <2>7, <2>8 DEF OutOK
  <2>10. Fresh(w) /\ IsHead(w[1], "Text") BY <1>2, <2>1 DEF Fresh, BetweenFragments, IsHead
  <2>11. QED BY <1>b, <2>1, <2>2, <2>9, <2>10
<1>9. QED BY <1>4, <1>7, <1>8

(* What an end begins to send.                                             *)
LEMMA FormsOK ==
  ASSUME NEW m \in Nat, NEW e \in End, NEW w \in Forms(e, m)
  PROVE  OutOK(w, e) /\ Fresh(w) /\ IsHead(w[1], "Text") /\ w \in Seq(SoundPart) /\ w \in Seq(Clean)
<1>1. CASE w = Whole(m) BY <1>1, WholeOK
<1>2. CASE w \in Fragmented(m) /\ e \in Foreign BY <1>2, FragmentedOK
<1>3. QED BY <1>1, <1>2 DEF Forms
-----------------------------------------------------------------------------
(* Types. *)

LEMMA PutTypes ==
  ASSUME TypeOK, NEW e \in End, NEW part \in SoundPart, Put(e, part)
  PROVE  /\ wire' \in [End -> Seq(SoundPart)] /\ texts' \in [End -> Seq(Nat)]
         /\ due' \in [End -> Nat \cup {None}]
<1>1. Peer(e) \in End BY PeerFacts
<1>2. wire' \in [End -> Seq(SoundPart)] BY <1>1 DEF Put, TypeOK
<1>3. texts' \in [End -> Seq(Nat)]
  <2>1. CASE part.part = "head" /\ part.op = "Text"
    <3>1. part.data \in Seq(Nat) /\ part.data # <<>> BY <2>1 DEF SoundPart, PartOfFrame
    <3>2. part.data[1] \in Nat BY <3>1, TailFacts
    <3>3. QED BY <2>1, <3>2 DEF Put, TypeOK
  <2>2. CASE ~(part.part = "head" /\ part.op = "Text") BY <2>2 DEF Put, TypeOK
  <2>3. QED BY <2>1, <2>2
<1>4. due' \in [End -> Nat \cup {None}]
  <2>1. Len(texts[e]) \in Nat BY DEF TypeOK
  <2>2. QED BY <2>1 DEF Put, TypeOK
<1>5. QED BY <1>2, <1>3, <1>4

LEMMA TailTypes ==
  ASSUME NEW w \in Seq(SoundPart), w # <<>>
  PROVE  Head(w) \in SoundPart /\ Tail(w) \in Seq(SoundPart) /\ Head(w) = w[1]
BY TailFacts

LEMMA NoneDiffers ==
  /\ None \notin Nat /\ None \notin Seq(Nat) /\ None \notin PartOfFrame /\ None \notin SoundPart /\ None \notin Ops
  /\ None # "closed" /\ None # "type" /\ None # "protocol" /\ None # "timeout" /\ None # "io"
  /\ None # "Text" /\ None # "Ping" /\ None # "Pong" /\ None # "Close" /\ None # "Bad" /\ None # "Binary"
BY WebSocketAssumption DEF SoundPart, Ops, Data

LEMMA StartTypes ==
  ASSUME TypeOK, \A d \in End : HeldOK(d), NEW e \in End,
         SendText(e) \/ RecvText(e) \/ Close(e) \/ Broadcast(e) \/ SendStray(e)
  PROVE  TypeOK' /\ \A d \in End : HeldOK(d)'
<1>1. CASE SendText(e)
  <2>1. made[e] + 1 \in Nat BY DEF TypeOK
  <2>2. PICK form \in Forms(e, made[e] + 1) : out' = [out EXCEPT ![e] = form] BY <1>1 DEF SendText
  <2>3. form \in Seq(SoundPart) BY <2>1, <2>2, FormsOK
  <2>4. out' \in [End -> Seq(SoundPart)] BY <2>2, <2>3 DEF TypeOK
  <2>5. made' \in [End -> Nat] BY <1>1, <2>1 DEF SendText, TypeOK
  <2>6. QED BY <1>1, <2>4, <2>5 DEF SendText, CallKeeps, readVars, history, TypeOK, HeldOK, Ended
<1>2. CASE RecvText(e)
  <2>1. TypeOK' BY <1>2 DEF RecvText, CallKeeps, readVars, history, TypeOK
  <2>2. \A d \in End : HeldOK(d)'
    BY <1>2 DEF RecvText, CallKeeps, Calls, readVars, history, TypeOK, HeldOK, Ended
  <2>3. QED BY <2>1, <2>2
<1>3. CASE Close(e)
  <2>1. Control("Close") \in Seq(SoundPart) BY ControlOK
  <2>2. out' \in [End -> Seq(SoundPart)] BY <1>3, <2>1 DEF Close, TypeOK
  <2>3. TypeOK' BY <1>3, <2>2 DEF Close, CallKeeps, readVars, history, TypeOK
  <2>4. \A d \in End : HeldOK(d)'
    BY <1>3 DEF Close, CallKeeps, Calls, readVars, history, TypeOK, HeldOK, Ended
  <2>5. QED BY <2>3, <2>4
<1>4. CASE Broadcast(e)
  <2>1. made[e] + 1 \in Nat BY DEF TypeOK
  <2>2. Whole(made[e] + 1) \in Seq(SoundPart) BY <2>1, WholeOK
  <2>3. bout' \in [End -> Seq(SoundPart)] /\ made' \in [End -> Nat] BY <1>4, <2>1, <2>2 DEF Broadcast, TypeOK
  <2>4. QED BY <1>4, <2>3 DEF Broadcast, readVars, history, TypeOK, HeldOK, Ended
<1>5. CASE SendStray(e)
  <2>1. made[e] + 1 \in Nat BY DEF TypeOK
  <2>2. PICK op \in Strays : out' = [out EXCEPT ![e] = Control(op)] /\ odd' = [odd EXCEPT ![e] = @ \cup {op}]
    BY <1>5 DEF SendStray
  <2>3. Control(op) \in Seq(SoundPart) BY ControlOK
  <2>4. out' \in [End -> Seq(SoundPart)] /\ odd' \in [End -> SUBSET Strays] BY <2>2, <2>3 DEF TypeOK
  <2>5. made' \in [End -> Nat] BY <1>5, <2>1 DEF SendStray, TypeOK
  <2>6. QED BY <1>5, <2>4, <2>5 DEF SendStray, readVars, TypeOK, HeldOK, Ended
<1>6. QED BY <1>1, <1>2, <1>3, <1>4, <1>5

LEMMA WriteTypes ==
  ASSUME TypeOK, \A d \in End : HeldOK(d), NEW e \in End, Write(e) \/ WriteBroadcast(e)
  PROVE  TypeOK' /\ \A d \in End : HeldOK(d)'
<1>0. out[e] \in Seq(SoundPart) /\ bout[e] \in Seq(SoundPart) BY DEF TypeOK
<1>1. CASE Write(e) /\ Put(e, Head(out[e])) /\ out' = [out EXCEPT ![e] = Tail(@)]
           /\ mixed' = (mixed \/ Open(bout[e])) /\ parted' = (parted \/ BetweenFragments(out[e]))
           /\ UNCHANGED <<pc, cause, held>>
  <2>1. Head(out[e]) \in SoundPart /\ Tail(out[e]) \in Seq(SoundPart) BY <1>0, <1>1, TailTypes DEF Write
  <2>2. /\ wire' \in [End -> Seq(SoundPart)] /\ texts' \in [End -> Seq(Nat)]
        /\ due' \in [End -> Nat \cup {None}]
    BY <1>1, <2>1, PutTypes
  <2>3. out' \in [End -> Seq(SoundPart)] BY <1>1, <2>1 DEF TypeOK
  <2>4. mixed' \in BOOLEAN /\ parted' \in BOOLEAN BY <1>1 DEF Open, BetweenFragments, TypeOK
  <2>5. QED BY <1>1, <2>2, <2>3, <2>4 DEF Write, readVars, TypeOK, HeldOK, Ended
<1>2. CASE Write(e) /\ Ended(Peer(e)) /\ out' = [out EXCEPT ![e] = <<>>]
           /\ (IF Ended(e) THEN UNCHANGED <<pc, cause, held>>
               ELSE /\ pc' = [pc EXCEPT ![e] = "failed"]
                    /\ cause' = [cause EXCEPT ![e] = "io"]
                    /\ held' = held)
           /\ UNCHANGED <<wire, texts, due, mixed, parted>>
  <2>1. out' \in [End -> Seq(SoundPart)] BY <1>2 DEF TypeOK
  <2>2. UNCHANGED <<wire, bout, got, first, content, held, pings, made, texts, due, recvd, mixed, parted, astray, odd>>
    BY <1>2 DEF Write, readVars
  <2>3. CASE Ended(e)
    <3>1. UNCHANGED <<pc, cause>> BY <1>2, <2>3
    <3>2. QED BY <2>1, <2>2, <3>1 DEF TypeOK, HeldOK, Ended
  <2>4. CASE ~Ended(e)
    <3>1. pc' = [pc EXCEPT ![e] = "failed"] /\ cause' = [cause EXCEPT ![e] = "io"] BY <1>2, <2>4
    <3>2. /\ pc' \in [End -> {"app", "recv", "pong", "onlyPong", "closing", "closed", "failed"}]
          /\ cause' \in [End -> {"closed", "type", "protocol", "timeout", "io", None}]
      BY <3>1 DEF TypeOK
    <3>3. TypeOK' BY <2>1, <2>2, <3>2 DEF TypeOK
    <3>4. \A d \in End : HeldOK(d)' BY <2>2, <3>1 DEF TypeOK, HeldOK, Ended
    <3>5. QED BY <3>3, <3>4
  <2>5. QED BY <2>3, <2>4
<1>3. CASE WriteBroadcast(e) /\ Put(e, Head(bout[e])) /\ bout' = [bout EXCEPT ![e] = Tail(@)]
           /\ mixed' = (mixed \/ Open(out[e]))
  <2>1. Head(bout[e]) \in SoundPart /\ Tail(bout[e]) \in Seq(SoundPart) BY <1>0, <1>3, TailTypes DEF WriteBroadcast
  <2>2. /\ wire' \in [End -> Seq(SoundPart)] /\ texts' \in [End -> Seq(Nat)]
        /\ due' \in [End -> Nat \cup {None}]
    BY <1>3, <2>1, PutTypes
  <2>3. bout' \in [End -> Seq(SoundPart)] BY <1>3, <2>1 DEF TypeOK
  <2>4. mixed' \in BOOLEAN BY <1>3 DEF Open, TypeOK
  <2>5. QED BY <1>3, <2>2, <2>3, <2>4 DEF WriteBroadcast, readVars, TypeOK, HeldOK, Ended
<1>4. CASE WriteBroadcast(e) /\ Ended(Peer(e)) /\ bout' = [bout EXCEPT ![e] = <<>>]
           /\ UNCHANGED <<wire, texts, due, mixed>>
  <2>1. bout' \in [End -> Seq(SoundPart)] BY <1>4 DEF TypeOK
  <2>2. QED BY <1>4, <2>1 DEF WriteBroadcast, readVars, TypeOK, HeldOK, Ended
<1>5. QED BY <1>1, <1>2, <1>3, <1>4 DEF Write, WriteBroadcast
(* What happens to a packet, case by case.                                 *)
InClose(e, op) ==
  /\ pc[e] = "closing" /\ pc' = [pc EXCEPT ![e] = "closed"]
  /\ out' = (IF op = "Close" THEN [out EXCEPT ![e] = Control("Close")] ELSE out)
  /\ UNCHANGED <<cause, held, recvd>>
PingCame(e, op) ==
  /\ pc[e] # "closing" /\ op = "Ping" /\ out' = [out EXCEPT ![e] = Control("Pong")]
  /\ UNCHANGED <<pc, cause, held, recvd>>
CloseCame(e, op) ==
  /\ pc[e] # "closing" /\ op = "Close" /\ out' = [out EXCEPT ![e] = Control("Close")]
  /\ pc' = [pc EXCEPT ![e] = "failed"] /\ cause' = [cause EXCEPT ![e] = "closed"]
  /\ UNCHANGED <<held, recvd>>
Unwanted(e, op) ==
  /\ pc[e] # "closing" /\ op \notin {"Ping", "Close"} \cup Wanted(e)
  /\ pc' = [pc EXCEPT ![e] = "failed"] /\ cause' = [cause EXCEPT ![e] = "type"]
  /\ UNCHANGED <<out, held, recvd>>
PongCame(e, op) ==
  /\ pc[e] = "pong" /\ op = "Pong" /\ pc' = [pc EXCEPT ![e] = "recv"]
  /\ UNCHANGED <<held, recvd, out, cause>>
TextFirst(e, op, data) ==
  /\ pc[e] = "pong" /\ op = "Text" /\ pc' = [pc EXCEPT ![e] = "onlyPong"]
  /\ held' = [held EXCEPT ![e] = data]
  /\ UNCHANGED <<recvd, out, cause>>
ThenPong(e, op) ==
  /\ pc[e] = "onlyPong" /\ op = "Pong" /\ Returns(e, held[e])
  /\ UNCHANGED <<out, cause>>
TextCame(e, op, data) ==
  /\ pc[e] = "recv" /\ op = "Text" /\ Returns(e, data)
  /\ UNCHANGED <<out, cause>>

LEMMA PacketCases ==
  ASSUME NEW e \in End, NEW op, NEW data, Packet(e, op, data),
         pc[e] \in {"recv", "pong", "onlyPong", "closing"}
  PROVE  \/ InClose(e, op) \/ PingCame(e, op) \/ CloseCame(e, op) \/ Unwanted(e, op)
         \/ PongCame(e, op) \/ TextFirst(e, op, data) \/ ThenPong(e, op) \/ TextCame(e, op, data)
<1>1. CASE pc[e] = "closing"
  <2>1. Wanted(e) = {} BY <1>1 DEF Wanted
  <2>2. InClose(e, op) BY <1>1, <2>1 DEF Packet, InClose
  <2>3. QED BY <2>2
<1>2. CASE pc[e] # "closing" /\ op = "Ping"
  <2>1. op \notin Wanted(e) BY <1>2 DEF Wanted
  <2>2. PingCame(e, op) BY <1>2, <2>1 DEF Packet, PingCame
  <2>3. QED BY <2>2
<1>3. CASE pc[e] # "closing" /\ op = "Close"
  <2>1. op \notin Wanted(e) BY <1>3 DEF Wanted
  <2>2. CloseCame(e, op) BY <1>3, <2>1 DEF Packet, CloseCame, Throws
  <2>3. QED BY <2>2
<1>4. CASE pc[e] # "closing" /\ op \notin {"Ping", "Close"} \cup Wanted(e)
  <2>1. Unwanted(e, op) BY <1>4 DEF Packet, Unwanted, Throws
  <2>2. QED BY <2>1
<1>5. CASE pc[e] # "closing" /\ op \in Wanted(e)
  <2>1. op \notin {"Ping", "Close"} BY <1>5 DEF Wanted
  <2>2. /\ CASE pc[e] = "pong" /\ op = "Pong" -> pc' = [pc EXCEPT ![e] = "recv"] /\ UNCHANGED <<held, recvd>>
             [] pc[e] = "pong" /\ op = "Text" -> WaitsOnlyPong(e, data) /\ UNCHANGED recvd
             [] pc[e] = "onlyPong" -> Returns(e, held[e])
             [] OTHER -> Returns(e, data)
        /\ UNCHANGED <<out, cause>>
    BY <1>5, <2>1 DEF Packet
  <2>3. CASE pc[e] = "pong"
    <3>1. op = "Pong" \/ op = "Text" BY <1>5, <2>3 DEF Wanted
    <3>2. CASE op = "Pong"
      <4>1. PongCame(e, op) BY <2>2, <2>3, <3>2 DEF PongCame
      <4>2. QED BY <4>1
    <3>3. CASE op = "Text"
      <4>1. TextFirst(e, op, data) BY <2>2, <2>3, <3>3 DEF TextFirst, WaitsOnlyPong
      <4>2. QED BY <4>1
    <3>4. QED BY <3>1, <3>2, <3>3
  <2>4. CASE pc[e] = "onlyPong"
    <3>1. op = "Pong" BY <1>5, <2>4 DEF Wanted
    <3>2. ThenPong(e, op) BY <2>2, <2>4, <3>1 DEF ThenPong
    <3>3. QED BY <3>2
  <2>5. CASE pc[e] = "recv"
    <3>1. op = "Text" BY <1>5, <2>5 DEF Wanted
    <3>2. TextCame(e, op, data) BY <2>2, <2>5, <3>1 DEF TextCame
    <3>3. QED BY <3>2
  <2>6. QED BY <1>5, <2>3, <2>4, <2>5
<1>6. QED BY <1>1, <1>2, <1>3, <1>4, <1>5

LEMMA PacketTypes ==
  ASSUME TypeOK, \A d \in End : HeldOK(d), NEW e \in End, NEW op, NEW data \in Seq(Nat),
         pc[e] \in {"recv", "pong", "onlyPong", "closing"}, Packet(e, op, data)
  PROVE  /\ out' \in [End -> Seq(SoundPart)] /\ held' \in [End -> Seq(Nat) \cup {None}]
         /\ pc' \in [End -> {"app", "recv", "pong", "onlyPong", "closing", "closed", "failed"}]
         /\ cause' \in [End -> {"closed", "type", "protocol", "timeout", "io", None}]
         /\ recvd' \in [End -> Seq(Seq(Nat))] /\ \A d \in End : HeldOK(d)'
<1>1. \A c \in {"Ping", "Pong", "Close"} : Control(c) \in Seq(SoundPart) BY ControlOK
<1>2. data # None BY NoneDiffers
<1>3. HeldOK(e) OBVIOUS
<1>4. CASE InClose(e, op)
  <2>1. out' \in [End -> Seq(SoundPart)] BY <1>1, <1>4 DEF InClose, TypeOK
  <2>2. QED BY <1>4, <2>1 DEF InClose, TypeOK, HeldOK, Ended
<1>5. CASE PingCame(e, op)
  <2>1. out' \in [End -> Seq(SoundPart)] BY <1>1, <1>5 DEF PingCame, TypeOK
  <2>2. QED BY <1>5, <2>1 DEF PingCame, TypeOK, HeldOK, Ended
<1>6. CASE CloseCame(e, op)
  <2>1. out' \in [End -> Seq(SoundPart)] BY <1>1, <1>6 DEF CloseCame, TypeOK
  <2>2. QED BY <1>6, <2>1 DEF CloseCame, TypeOK, HeldOK, Ended
<1>7. CASE Unwanted(e, op) BY <1>7 DEF Unwanted, TypeOK, HeldOK, Ended
<1>8. CASE PongCame(e, op)
  <2>1. QED BY <1>8 DEF PongCame, TypeOK, HeldOK, Ended
<1>9. CASE TextFirst(e, op, data) BY <1>2, <1>9 DEF TextFirst, TypeOK, HeldOK, Ended
<1>10. CASE ThenPong(e, op)
  <2>1. held[e] \in Seq(Nat) BY <1>3, <1>10 DEF ThenPong, TypeOK, HeldOK, Ended
  <2>2. recvd' \in [End -> Seq(Seq(Nat))] BY <1>10, <2>1 DEF ThenPong, Returns, TypeOK
  <2>3. QED BY <1>10, <2>2 DEF ThenPong, Returns, TypeOK, HeldOK, Ended
<1>11. CASE TextCame(e, op, data)
  <2>2. recvd' \in [End -> Seq(Seq(Nat))] BY <1>11 DEF TextCame, Returns, TypeOK
  <2>3. QED BY <1>11, <2>2 DEF TextCame, Returns, TypeOK, HeldOK, Ended
<1>12. QED BY <1>4, <1>5, <1>6, <1>7, <1>8, <1>9, <1>10, <1>11, PacketCases

(* A content is read: one that does not fit, one of a fragment, or the     *)
(* last of a packet.                                                       *)
Misfit(e) ==
  /\ ~(wire[e][1].part = "content" /\ wire[e][1].op = got[e].op)
  /\ Throws(e, "protocol") /\ UNCHANGED <<out, readVars, held, recvd>>
Partial(e) ==
  /\ wire[e][1].part = "content" /\ wire[e][1].op = got[e].op /\ ~wire[e][1].fin
  /\ content' = [content EXCEPT ![e] = Appended(e, wire[e][1].data)]
  /\ got' = [got EXCEPT ![e] = None]
  /\ UNCHANGED <<out, pc, first, held, cause, recvd>>
Final(e) ==
  /\ wire[e][1].part = "content" /\ wire[e][1].op = got[e].op /\ wire[e][1].fin
  /\ Packet(e, first[e], Appended(e, wire[e][1].data)) /\ StartsPacket(e)

LEMMA ContentCases ==
  ASSUME TypeOK, NEW e \in End, ReadContent(e), e \notin astray
  PROVE  /\ pc[e] \in {"recv", "pong", "onlyPong", "closing"} /\ out[e] = <<>>
         /\ got[e] \in SoundPart /\ wire[e] # <<>> /\ wire[e][1] \in SoundPart
         /\ Head(wire[e]) = wire[e][1]
         /\ Appended(e, wire[e][1].data) \in Seq(Nat)
         /\ wire' = [wire EXCEPT ![e] = Tail(@)] /\ Tail(wire[e]) \in Seq(SoundPart)
         /\ UNCHANGED <<bout, made, texts, due, mixed, parted, pings, odd, astray>>
         /\ Misfit(e) \/ Partial(e) \/ Final(e)
<1>1. wire[e] \in Seq(SoundPart) /\ wire[e] # <<>> BY DEF ReadContent, TypeOK
<1>2. Head(wire[e]) = wire[e][1] /\ wire[e][1] \in SoundPart /\ Tail(wire[e]) \in Seq(SoundPart)
  BY <1>1, TailTypes, TailFacts
<1>3. wire[e][1].data \in Seq(Nat) /\ content[e] \in Seq(Nat) BY <1>2 DEF SoundPart, PartOfFrame, TypeOK
<1>4. Appended(e, wire[e][1].data) \in Seq(Nat) BY <1>3 DEF Appended
<1>7. Contents(e) = {wire[e][1]} BY <1>2 DEF Contents
<1>5. Misfit(e) \/ Partial(e) \/ Final(e)
  BY <1>7 DEF ReadContent, Misfit, Partial, Final
<1>6. got[e] \in SoundPart BY DEF ReadContent, TypeOK
<1>8. QED BY <1>1, <1>2, <1>4, <1>5, <1>6 DEF ReadContent, Reads, ReadKeeps

(* What is taken for a content has bytes, be it astray.                    *)
LEMMA ContentTypes ==
  ASSUME TypeOK, NEW e \in End, ReadContent(e), NEW part \in Contents(e)
  PROVE  Appended(e, part.data) \in Seq(Nat)
<1>1. part.data \in Seq(Nat)
  <2>1. CASE e \in astray
    <3>1. PICK data \in {<<>>, <<0>>} : part = Part("content", got[e].op, got[e].fin, data)
      BY <2>1 DEF Contents
    <3>2. part.data = data BY <3>1, PartFields
    <3>3. <<>> \in Seq(Nat) /\ <<0>> \in Seq(Nat) OBVIOUS
    <3>4. QED BY <3>2, <3>3
  <2>2. CASE e \notin astray
    <3>1. wire[e] \in Seq(SoundPart) /\ wire[e] # <<>> BY DEF ReadContent, TypeOK
    <3>2. part = Head(wire[e]) /\ part \in SoundPart BY <2>2, <3>1, TailTypes DEF Contents
    <3>3. QED BY <3>2 DEF SoundPart, PartOfFrame
  <2>3. QED BY <2>1, <2>2
<1>2. content[e] \in Seq(Nat) BY DEF TypeOK
<1>3. QED BY <1>1, <1>2 DEF Appended

LEMMA ReadTypes ==
  ASSUME TypeOK, \A d \in End : HeldOK(d), NEW e \in End, ReadHead(e) \/ ReadContent(e) \/ Timeout(e)
  PROVE  TypeOK' /\ \A d \in End : HeldOK(d)'
<1>1. CASE ReadHead(e)
  <2>1. wire[e] \in Seq(SoundPart) /\ wire[e] # <<>> BY <1>1 DEF ReadHead, TypeOK
  <2>2. Head(wire[e]) \in SoundPart /\ Tail(wire[e]) \in Seq(SoundPart) BY <2>1, TailTypes
  <2>3. wire' \in [End -> Seq(SoundPart)] BY <1>1, <2>2 DEF ReadHead, TypeOK
  <2>4. FirstOpCode(e, Head(wire[e]).op) \in Ops \cup {None}
    BY <2>2 DEF FirstOpCode, SoundPart, PartOfFrame, TypeOK
  <2>5. got' \in [End -> SoundPart \cup {None}] /\ first' \in [End -> Ops \cup {None}]
    <3>1. \/ /\ got' = [got EXCEPT ![e] = Head(wire[e])]
             /\ first' = [first EXCEPT ![e] = FirstOpCode(e, Head(wire[e]).op)]
          \/ UNCHANGED <<got, first>>
      BY <1>1 DEF ReadHead
    <3>2. CASE /\ got' = [got EXCEPT ![e] = Head(wire[e])]
               /\ first' = [first EXCEPT ![e] = FirstOpCode(e, Head(wire[e]).op)]
      <4>1. got' \in [End -> SoundPart \cup {None}] BY <2>2, <3>2 DEF TypeOK
      <4>2. first' \in [End -> Ops \cup {None}] BY <2>4, <3>2 DEF TypeOK
      <4>3. QED BY <4>1, <4>2
    <3>3. CASE UNCHANGED <<got, first>> BY <3>3 DEF TypeOK
    <3>4. QED BY <3>1, <3>2, <3>3
  <2>6. /\ pc' \in [End -> {"app", "recv", "pong", "onlyPong", "closing", "closed", "failed"}]
        /\ cause' \in [End -> {"closed", "type", "protocol", "timeout", "io", None}]
    BY <1>1 DEF ReadHead, Throws, TypeOK
  <2>10. astray' \in SUBSET End BY <1>1 DEF ReadHead, TypeOK
  <2>7. TypeOK' BY <1>1, <2>3, <2>5, <2>6, <2>10 DEF ReadHead, ReadKeeps, TypeOK
  <2>8. \A d \in End : HeldOK(d)' BY <1>1 DEF ReadHead, Throws, HeldOK, Ended, TypeOK
  <2>9. QED BY <2>7, <2>8
<1>2. CASE ReadContent(e)
  <2>1. PICK part \in Contents(e) :
          IF part.part = "content" /\ part.op = got[e].op
          THEN IF part.fin
               THEN Packet(e, first[e], Appended(e, part.data)) /\ StartsPacket(e)
               ELSE /\ content' = [content EXCEPT ![e] = Appended(e, part.data)]
                    /\ got' = [got EXCEPT ![e] = None]
                    /\ UNCHANGED <<out, pc, first, held, cause, recvd>>
          ELSE Throws(e, "protocol") /\ UNCHANGED <<out, readVars, held, recvd>>
    BY <1>2 DEF ReadContent
  <2>2. Appended(e, part.data) \in Seq(Nat) BY <1>2, ContentTypes
  <2>3. /\ pc[e] \in {"recv", "pong", "onlyPong", "closing"}
        /\ wire' = [wire EXCEPT ![e] = Tail(@)]
        /\ UNCHANGED <<bout, made, texts, due, mixed, parted, pings, odd, astray>>
    BY <1>2 DEF ReadContent, Reads, ReadKeeps
  <2>4. wire' \in [End -> Seq(SoundPart)]
    <3>1. wire[e] \in Seq(SoundPart) /\ wire[e] # <<>> BY <1>2 DEF ReadContent, TypeOK
    <3>2. Tail(wire[e]) \in Seq(SoundPart) BY <3>1, TailTypes
    <3>3. QED BY <2>3, <3>2 DEF TypeOK
  <2>5. CASE Throws(e, "protocol") /\ UNCHANGED <<out, readVars, held, recvd>>
    BY <2>3, <2>4, <2>5 DEF Throws, readVars, TypeOK, HeldOK, Ended
  <2>6. CASE /\ content' = [content EXCEPT ![e] = Appended(e, part.data)]
             /\ got' = [got EXCEPT ![e] = None]
             /\ UNCHANGED <<out, pc, first, held, cause, recvd>>
    <3>1. content' \in [End -> Seq(Nat)] BY <2>2, <2>6 DEF TypeOK
    <3>2. QED BY <2>3, <2>4, <2>6, <3>1 DEF TypeOK, HeldOK, Ended
  <2>7. CASE Packet(e, first[e], Appended(e, part.data)) /\ StartsPacket(e)
    <3>2. /\ out' \in [End -> Seq(SoundPart)] /\ held' \in [End -> Seq(Nat) \cup {None}]
          /\ pc' \in [End -> {"app", "recv", "pong", "onlyPong", "closing", "closed", "failed"}]
          /\ cause' \in [End -> {"closed", "type", "protocol", "timeout", "io", None}]
          /\ recvd' \in [End -> Seq(Seq(Nat))] /\ \A d \in End : HeldOK(d)'
      BY <2>2, <2>3, <2>7, PacketTypes
    <3>3. /\ got' \in [End -> SoundPart \cup {None}] /\ first' \in [End -> Ops \cup {None}]
          /\ content' \in [End -> Seq(Nat)]
      BY <2>7 DEF StartsPacket, TypeOK
    <3>4. TypeOK' BY <2>3, <2>4, <3>2, <3>3 DEF TypeOK
    <3>5. QED BY <3>2, <3>4
  <2>8. QED BY <2>1, <2>5, <2>6, <2>7
<1>3. CASE Timeout(e)
  <2>1. /\ got' \in [End -> SoundPart \cup {None}] /\ first' \in [End -> Ops \cup {None}]
        /\ content' \in [End -> Seq(Nat)]
    BY <1>3 DEF Timeout, StartsPacket, TypeOK
  <2>2. Control("Ping") \in Seq(SoundPart) BY ControlOK
  <2>9. out' \in [End -> Seq(SoundPart)] BY <1>3, <2>2 DEF Timeout, Throws, TypeOK
  <2>10. pings[e] + 1 \in Nat BY DEF TypeOK
  <2>12. pings' = [pings EXCEPT ![e] = @ + 1] \/ pings' = pings BY <1>3 DEF Timeout
  <2>11. pings' \in [End -> Nat] BY <2>10, <2>12 DEF TypeOK
  <2>3. out' \in [End -> Seq(SoundPart)] /\ pings' \in [End -> Nat] BY <2>9, <2>11
  <2>4. /\ pc' \in [End -> {"app", "recv", "pong", "onlyPong", "closing", "closed", "failed"}]
        /\ cause' \in [End -> {"closed", "type", "protocol", "timeout", "io", None}]
    BY <1>3 DEF Timeout, Throws, TypeOK
  <2>5. parted' \in BOOLEAN BY <1>3 DEF Timeout, TypeOK
  <2>6. TypeOK' BY <1>3, <2>1, <2>3, <2>4, <2>5 DEF Timeout, TypeOK
  <2>7. \A d \in End : HeldOK(d)' BY <1>3 DEF Timeout, Throws, HeldOK, Ended, TypeOK
  <2>8. QED BY <2>6, <2>7
<1>4. QED BY <1>1, <1>2, <1>3

LEMMA TypesKept == TypeOK /\ (\A d \in End : HeldOK(d)) /\ [Next]_vars => TypeOK' /\ \A d \in End : HeldOK(d)'
<1>1. SUFFICES ASSUME TypeOK, \A d \in End : HeldOK(d), [Next]_vars
               PROVE  TypeOK' /\ \A d \in End : HeldOK(d)'
  OBVIOUS
<1>2. ASSUME NEW e \in End, EndStep(e) PROVE TypeOK' /\ \A d \in End : HeldOK(d)'
  BY <1>1, <1>2, StartTypes, WriteTypes, ReadTypes DEF EndStep
<1>3. ASSUME NEW e \in Broadcasting, Broadcast(e) \/ WriteBroadcast(e)
      PROVE  TypeOK' /\ \A d \in End : HeldOK(d)'
  <2>1. e \in End BY WebSocketAssumption
  <2>2. QED BY <1>1, <1>3, <2>1, StartTypes, WriteTypes
<1>4. CASE UNCHANGED vars BY <1>1, <1>4 DEF vars, readVars, history, TypeOK, HeldOK, Ended
<1>5. ASSUME NEW e \in Foreign, SendStray(e) PROVE TypeOK' /\ \A d \in End : HeldOK(d)'
  <2>1. e \in End BY WebSocketAssumption
  <2>2. QED BY <1>1, <1>5, <2>1, StartTypes
<1>6. QED BY <1>1, <1>2, <1>3, <1>4, <1>5 DEF Next

-----------------------------------------------------------------------------
(* The strays. *)

LEMMA SentParts ==
  ASSUME NEW r
  PROVE  /\ Clean \subseteq Sent(r) /\ Sent(r) \subseteq SoundPart
         /\ \A op \in Ops \ {"Binary", "Bad"} : Seq({p \in SoundPart : p.op = op}) \subseteq Seq(Clean)
         /\ Seq(Clean) \subseteq Seq(Sent(r))
<1>1. Clean \subseteq Sent(r) /\ Sent(r) \subseteq SoundPart BY DEF Clean, Sent, Own
<1>2. ASSUME NEW op \in Ops \ {"Binary", "Bad"}, NEW w \in Seq({p \in SoundPart : p.op = op})
      PROVE  w \in Seq(Clean)
  <2>1. {p \in SoundPart : p.op = op} \subseteq Clean BY DEF Clean
  <2>2. QED BY <2>1
<1>3. ASSUME NEW w \in Seq(Clean) PROVE w \in Seq(Sent(r)) BY <1>1
<1>4. QED BY <1>1, <1>2, <1>3

(* More strays of the peer, and what it has sent stays its own.            *)
LEMMA SentGrows ==
  ASSUME NEW r, odd[Peer(r)] \subseteq odd'[Peer(r)]
  PROVE  /\ Seq(Sent(r)) \subseteq Seq(Sent(r)')
         /\ \A op : Own(op, r) => Own(op, r)'
<1>1. \A op : Own(op, r) => Own(op, r)' BY DEF Own
<1>2. Sent(r) \subseteq Sent(r)' BY <1>1 DEF Sent
<1> DEFINE S == Sent(r)
           T == Sent(r)'
<1>3. S \subseteq T BY <1>2
<1> HIDE DEF S, T
<1>4. ASSUME NEW w \in Seq(S) PROVE w \in Seq(T) BY <1>3
<1>5. QED BY <1>1, <1>4 DEF S, T

(* The end r goes on reading and its peer sending while the strays do not  *)
(* change.                                                                 *)
LEMMA StraysFrame ==
  ASSUME NEW r \in End, StraysOK(r), odd[Peer(r)] \subseteq odd'[Peer(r)],
         wire'[r] \in Seq(Sent(r)), out'[Peer(r)] \in Seq(Sent(r)), bout'[Peer(r)] \in Seq(Sent(r)),
         got'[r] = got[r] \/ got'[r] = None \/ Own(got'[r].op, r),
         first'[r] = first[r] \/ first'[r] = None \/ (first'[r] # "Bad" /\ Own(first'[r], r))
  PROVE  StraysOK(r)'
<1>1. \A op : Own(op, r) => Own(op, r)' BY SentGrows
<1>2. wire'[r] \in Seq(Sent(r)') /\ out'[Peer(r)] \in Seq(Sent(r)') /\ bout'[Peer(r)] \in Seq(Sent(r)')
  BY SentGrows
<1>3. got'[r] # None => Own(got'[r].op, r)
  BY DEF StraysOK
<1>4. first'[r] # None => first'[r] # "Bad" /\ Own(first'[r], r)
  BY DEF StraysOK
<1>5. /\ got'[r] # None => Own(got[r].op, r)'
      /\ first'[r] # None => first'[r] # "Bad" /\ Own(first[r], r)'
  <2>1. \A op : Own(op, r)' <=> (op \in {"Binary", "Bad"} => op \in odd'[Peer(r)]) BY DEF Own
  <2>2. got'[r] # None => (got'[r].op \in {"Binary", "Bad"} => got'[r].op \in odd'[Peer(r)]) BY <1>1, <1>3, <2>1
  <2>3. first'[r] # None => (first'[r] \in {"Binary", "Bad"} => first'[r] \in odd'[Peer(r)]) BY <1>1, <1>4, <2>1
  <2>4. QED BY <1>4, <2>2, <2>3 DEF Own
<1>6. QED BY <1>2, <1>5 DEF StraysOK

(* A step changes the wire of one end, and what one end sends.             *)
LEMMA SendKeepsStrays ==
  ASSUME TypeOK, NEW e \in End, \A r \in End : StraysOK(r),
         UNCHANGED <<wire, got, first>>, \A d \in End : odd[d] \subseteq odd'[d],
         LET p == Peer(e) IN
           /\ out'[p] = out[p] /\ bout'[p] = bout[p]
           /\ out'[e] = out[e] \/ out'[e] \in Seq(Clean) \/ out'[e] \in Seq(Sent(p)')
           /\ bout'[e] = bout[e] \/ bout'[e] \in Seq(Clean)
  PROVE  \A r \in End : StraysOK(r)'
<1> DEFINE p == Peer(e)
<1>0. p \in End /\ Peer(p) = e /\ \A r \in End : r = e \/ r = p BY PeerFacts
<1>1. StraysOK(e)'
  <2>1. wire'[e] \in Seq(Sent(e)) /\ out'[p] \in Seq(Sent(e)) /\ bout'[p] \in Seq(Sent(e)) BY DEF StraysOK
  <2>2. odd[p] \subseteq odd'[p] BY <1>0
  <2>3. QED BY <2>1, <2>2, StraysFrame
<1>2. StraysOK(p)'
  <2>1. /\ Seq(Clean) \subseteq Seq(Sent(p)')
        /\ Seq(Sent(p)) \subseteq Seq(Sent(p)')
        /\ \A op : Own(op, p) => Own(op, p)'
    <3>1. odd[Peer(p)] \subseteq odd'[Peer(p)] BY <1>0
    <3>2. Seq(Clean) \subseteq Seq(Sent(p)) BY SentParts
    <3>3. /\ Seq(Sent(p)) \subseteq Seq(Sent(p)')
          /\ \A op : Own(op, p) => Own(op, p)'
      BY <3>1, SentGrows
    <3>4. QED BY <3>2, <3>3
  <2>2. /\ wire[p] \in Seq(Sent(p)) /\ out[e] \in Seq(Sent(p)) /\ bout[e] \in Seq(Sent(p))
        /\ got[p] # None => Own(got[p].op, p)
        /\ first[p] # None => first[p] # "Bad" /\ Own(first[p], p)
    BY <1>0 DEF StraysOK
  <2>3. wire'[p] \in Seq(Sent(p)') /\ out'[e] \in Seq(Sent(p)') /\ bout'[e] \in Seq(Sent(p)')
    BY <2>1, <2>2
  <2>4. /\ got'[p] # None => Own(got[p].op, p)'
        /\ first'[p] # None => first'[p] # "Bad" /\ Own(first[p], p)'
    BY <2>1, <2>2 DEF Own
  <2>5. QED BY <1>0, <2>3, <2>4 DEF StraysOK
<1>3. QED BY <1>0, <1>1, <1>2

LEMMA StartKeepsStrays ==
  ASSUME TypeOK, NEW e \in End, \A r \in End : StraysOK(r),
         SendText(e) \/ RecvText(e) \/ Close(e) \/ Broadcast(e) \/ SendStray(e)
  PROVE  \A r \in End : StraysOK(r)'
<1> DEFINE p == Peer(e)
<1>0. p \in End /\ p # e /\ Peer(p) = e BY PeerFacts
<1>1. UNCHANGED <<wire, got, first>>
  BY DEF SendText, RecvText, Close, Broadcast, SendStray, CallKeeps, readVars
<1>2. out'[p] = out[p] /\ bout'[p] = bout[p]
  BY <1>0 DEF SendText, RecvText, Close, Broadcast, SendStray, CallKeeps, TypeOK
<1>3. made[e] + 1 \in Nat BY DEF TypeOK
<1>4. CASE SendText(e)
  <2>1. PICK form \in Forms(e, made[e] + 1) : out' = [out EXCEPT ![e] = form] BY <1>4 DEF SendText
  <2>2. form \in Seq(Clean) BY <1>3, <2>1, FormsOK
  <2>3. out'[e] \in Seq(Clean) /\ bout' = bout /\ odd' = odd
    BY <1>4, <2>1, <2>2 DEF SendText, CallKeeps, history, TypeOK
  <2>4. QED BY <1>1, <1>2, <2>3, SendKeepsStrays
<1>5. CASE RecvText(e)
  <2>1. out' = out /\ bout' = bout /\ odd' = odd BY <1>5 DEF RecvText, CallKeeps, history
  <2>2. QED BY <1>1, <1>2, <2>1, SendKeepsStrays
<1>6. CASE Close(e)
  <2>1. Control("Close") \in Seq(Clean)
    <3>1. Control("Close") \in Seq({q \in SoundPart : q.op = "Close"}) BY ControlOK
    <3>2. QED BY <3>1, SentParts DEF Ops, Data
  <2>2. out'[e] \in Seq(Clean) /\ bout' = bout /\ odd' = odd
    BY <1>6, <2>1 DEF Close, CallKeeps, history, TypeOK
  <2>3. QED BY <1>1, <1>2, <2>2, SendKeepsStrays
<1>7. CASE Broadcast(e)
  <2>1. Whole(made[e] + 1) \in Seq(Clean) BY <1>3, WholeOK
  <2>2. bout'[e] \in Seq(Clean) /\ out' = out /\ odd' = odd
    BY <1>7, <2>1 DEF Broadcast, history, TypeOK
  <2>3. QED BY <1>1, <1>2, <2>2, SendKeepsStrays
<1>8. CASE SendStray(e)
  <2>1. PICK op \in Strays : out' = [out EXCEPT ![e] = Control(op)] /\ odd' = [odd EXCEPT ![e] = @ \cup {op}]
    BY <1>8 DEF SendStray
  <2>2. out'[e] = Control(op) /\ odd'[e] = odd[e] \cup {op} /\ bout' = bout
        /\ \A d \in End : odd[d] \subseteq odd'[d]
    BY <1>8, <2>1 DEF SendStray, TypeOK
  <2>3. Control(op) \in Seq({q \in SoundPart : q.op = op}) BY ControlOK
  <2>4. {q \in SoundPart : q.op = op} \subseteq Sent(p)'
    <3>1. SoundPart' = SoundPart BY DEF SoundPart
    <3>2. op \in odd'[Peer(p)] BY <1>0, <2>2
    <3>3. QED BY <3>1, <3>2 DEF Sent, Own
  <2>5. out'[e] \in Seq(Sent(p)')
    <3> DEFINE S == {q \in SoundPart : q.op = op}
               T == Sent(p)'
    <3>1. out'[e] \in Seq(S) /\ S \subseteq T BY <2>2, <2>3, <2>4
    <3> HIDE DEF S, T
    <3>2. out'[e] \in Seq(T) BY <3>1
    <3>3. QED BY <3>2 DEF T
  <2>6. QED BY <1>1, <1>2, <2>2, <2>5, SendKeepsStrays
<1>9. QED BY <1>4, <1>5, <1>6, <1>7, <1>8

LEMMA WriteKeepsStrays ==
  ASSUME TypeOK, NEW e \in End, \A r \in End : StraysOK(r), Write(e) \/ WriteBroadcast(e)
  PROVE  \A r \in End : StraysOK(r)'
<1> DEFINE p == Peer(e)
           S == Sent(p)
<1>0. p \in End /\ p # e /\ Peer(p) = e /\ Peer(e) = p /\ \A r \in End : r = e \/ r = p BY PeerFacts
<1>1. UNCHANGED <<got, first, odd>> BY DEF Write, WriteBroadcast, readVars
<1>2. /\ wire[p] \in Seq(S) /\ out[e] \in Seq(S) /\ bout[e] \in Seq(S)
      /\ wire[e] \in Seq(Sent(e)) /\ out[p] \in Seq(Sent(e)) /\ bout[p] \in Seq(Sent(e))
  BY <1>0 DEF StraysOK
<1> HIDE DEF S
<1>3. /\ wire'[e] = wire[e] /\ out'[p] = out[p] /\ bout'[p] = bout[p]
      /\ wire'[p] \in Seq(S) /\ out'[e] \in Seq(S) /\ bout'[e] \in Seq(S)
  <2>1. CASE Write(e) /\ Put(e, Head(out[e])) /\ out' = [out EXCEPT ![e] = Tail(@)]
    <3>1. out[e] # <<>> /\ bout' = bout BY <2>1 DEF Write
    <3>2. Head(out[e]) \in S /\ Tail(out[e]) \in Seq(S) BY <1>2, <3>1, TailFacts
    <3>3. wire' = [wire EXCEPT ![p] = Append(@, Head(out[e]))] BY <2>1 DEF Put
    <3>4. wire'[p] = Append(wire[p], Head(out[e])) /\ wire'[e] = wire[e] /\ out'[e] = Tail(out[e]) /\ out'[p] = out[p]
      BY <1>0, <2>1, <3>3 DEF TypeOK
    <3>5. QED BY <1>2, <3>1, <3>2, <3>4
  <2>2. CASE Write(e) /\ out' = [out EXCEPT ![e] = <<>>] /\ wire' = wire
    <3>1. out'[e] = <<>> /\ out'[p] = out[p] /\ bout' = bout BY <1>0, <2>2 DEF Write, TypeOK
    <3>2. QED BY <1>2, <2>2, <3>1
  <2>3. CASE WriteBroadcast(e) /\ Put(e, Head(bout[e])) /\ bout' = [bout EXCEPT ![e] = Tail(@)]
    <3>1. bout[e] # <<>> /\ out' = out BY <2>3 DEF WriteBroadcast
    <3>2. Head(bout[e]) \in S /\ Tail(bout[e]) \in Seq(S) BY <1>2, <3>1, TailFacts
    <3>3. wire' = [wire EXCEPT ![p] = Append(@, Head(bout[e]))] BY <2>3 DEF Put
    <3>4. wire'[p] = Append(wire[p], Head(bout[e])) /\ wire'[e] = wire[e] /\ bout'[e] = Tail(bout[e]) /\ bout'[p] = bout[p]
      BY <1>0, <2>3, <3>3 DEF TypeOK
    <3>5. QED BY <1>2, <3>1, <3>2, <3>4
  <2>4. CASE WriteBroadcast(e) /\ bout' = [bout EXCEPT ![e] = <<>>] /\ wire' = wire
    <3>1. bout'[e] = <<>> /\ bout'[p] = bout[p] /\ out' = out BY <1>0, <2>4 DEF WriteBroadcast, TypeOK
    <3>2. QED BY <1>2, <2>4, <3>1
  <2>5. QED BY <2>1, <2>2, <2>3, <2>4 DEF Write, WriteBroadcast
<1>4. StraysOK(e)' BY <1>0, <1>1, <1>2, <1>3, StraysFrame
<1>5. StraysOK(p)' BY <1>0, <1>1, <1>3, StraysFrame DEF S
<1>6. QED BY <1>0, <1>4, <1>5

LEMMA ReadKeepsStrays ==
  ASSUME TypeOK, NEW e \in End, \A r \in End : StraysOK(r), ReadHead(e) \/ ReadContent(e) \/ Timeout(e)
  PROVE  \A r \in End : StraysOK(r)'
<1> DEFINE p == Peer(e)
           S == Sent(e)
<1>0. p \in End /\ p # e /\ Peer(p) = e /\ Peer(e) = p /\ \A r \in End : r = e \/ r = p BY PeerFacts
<1>1. /\ wire[e] \in Seq(S) /\ out[p] \in Seq(S) /\ bout[p] \in Seq(S)
      /\ wire[p] \in Seq(Sent(p)) /\ out[e] \in Seq(Sent(p)) /\ bout[e] \in Seq(Sent(p))
  BY <1>0 DEF StraysOK
<1>2. bout' = bout /\ odd' = odd BY DEF ReadHead, ReadContent, Timeout, ReadKeeps
<1>3. wire'[e] \in Seq(S) /\ wire'[p] = wire[p]
  <2>1. CASE wire' = wire BY <1>1, <2>1
  <2>2. CASE wire[e] # <<>> /\ wire' = [wire EXCEPT ![e] = Tail(@)]
    <3>1. Tail(wire[e]) \in Seq(S) BY <1>1, <2>2, TailFacts
    <3>2. QED BY <1>0, <2>2, <3>1 DEF TypeOK
  <2>3. QED BY <2>1, <2>2 DEF ReadHead, ReadContent, Timeout
<1>4. \/ out' = out
      \/ \E op \in {"Ping", "Pong", "Close"} : out' = [out EXCEPT ![e] = Control(op)]
  <2>1. CASE ReadHead(e) BY <2>1 DEF ReadHead
  <2>2. CASE ReadContent(e) BY <2>2 DEF ReadContent, Packet
  <2>3. CASE Timeout(e) BY <2>3 DEF Timeout
  <2>4. QED BY <2>1, <2>2, <2>3
<1>5. out'[p] = out[p] /\ out'[e] \in Seq(Sent(p))
  <2>1. CASE out' = out BY <1>1, <2>1
  <2>2. CASE \E op \in {"Ping", "Pong", "Close"} : out' = [out EXCEPT ![e] = Control(op)]
    <3>1. PICK op \in {"Ping", "Pong", "Close"} : out' = [out EXCEPT ![e] = Control(op)] BY <2>2
    <3>2. Control(op) \in Seq({q \in SoundPart : q.op = op}) BY ControlOK
    <3>3. Control(op) \in Seq(Sent(p)) BY <3>2, SentParts DEF Ops, Data
    <3>4. QED BY <1>0, <3>1, <3>3 DEF TypeOK
  <2>3. QED BY <1>4, <2>1, <2>2
<1>6. /\ got'[e] = got[e] \/ got'[e] = None \/ Own(got'[e].op, e)
      /\ first'[e] = first[e] \/ first'[e] = None \/ (first'[e] # "Bad" /\ Own(first'[e], e))
      /\ got'[p] = got[p] /\ first'[p] = first[p]
  <2>1. CASE ReadHead(e)
    <3>1. CASE UNCHANGED <<got, first>> BY <3>1
    <3>2. CASE /\ got' = [got EXCEPT ![e] = Head(wire[e])]
               /\ first' = [first EXCEPT ![e] = FirstOpCode(e, Head(wire[e]).op)]
               /\ Fits(e, Head(wire[e]).op)
      <4>1. Head(wire[e]) \in S BY <1>1, <2>1, TailFacts DEF ReadHead
      <4>2. Own(Head(wire[e]).op, e) /\ Head(wire[e]).op # "Bad" BY <3>2, <4>1 DEF Sent, Fits
      <4>3. /\ got'[e] = Head(wire[e]) /\ first'[e] = FirstOpCode(e, Head(wire[e]).op)
            /\ got'[p] = got[p] /\ first'[p] = first[p]
        BY <1>0, <3>2 DEF TypeOK
      <4>4. first'[e] = first[e] \/ first'[e] = Head(wire[e]).op BY <4>3 DEF FirstOpCode
      <4>5. QED BY <4>2, <4>3, <4>4
    <3>3. QED BY <2>1, <3>1, <3>2 DEF ReadHead
  <2>2. CASE ReadContent(e)
    <3>1. \/ UNCHANGED <<got, first>>
          \/ first' = first /\ got' = [got EXCEPT ![e] = None]
          \/ got' = [got EXCEPT ![e] = None] /\ first' = [first EXCEPT ![e] = None]
      BY <2>2 DEF ReadContent, StartsPacket, readVars
    <3>2. QED BY <1>0, <3>1 DEF TypeOK
  <2>3. CASE Timeout(e)
    <3>1. got' = [got EXCEPT ![e] = None] /\ first' = [first EXCEPT ![e] = None] BY <2>3 DEF Timeout, StartsPacket
    <3>2. QED BY <1>0, <3>1 DEF TypeOK
  <2>4. QED BY <2>1, <2>2, <2>3
<1> HIDE DEF S
<1>7. StraysOK(e)' BY <1>0, <1>1, <1>2, <1>3, <1>5, <1>6, StraysFrame DEF S
<1>8. StraysOK(p)' BY <1>0, <1>1, <1>2, <1>3, <1>5, <1>6, StraysFrame
<1>9. QED BY <1>0, <1>7, <1>8

LEMMA StraysKept == TypeOK /\ (\A r \in End : StraysOK(r)) /\ [Next]_vars => \A r \in End : StraysOK(r)'
<1>1. SUFFICES ASSUME TypeOK, \A r \in End : StraysOK(r), [Next]_vars
               PROVE  \A r \in End : StraysOK(r)'
  OBVIOUS
<1>2. ASSUME NEW e \in End, EndStep(e) PROVE \A r \in End : StraysOK(r)'
  BY <1>1, <1>2, StartKeepsStrays, WriteKeepsStrays, ReadKeepsStrays DEF EndStep
<1>3. ASSUME NEW e \in End, Broadcast(e) \/ WriteBroadcast(e) \/ SendStray(e)
      PROVE  \A r \in End : StraysOK(r)'
  BY <1>1, <1>3, StartKeepsStrays, WriteKeepsStrays
<1>4. CASE UNCHANGED vars
  <2>1. UNCHANGED <<wire, out, bout, got, first, odd>> BY <1>4 DEF vars, readVars, history
  <2>2. QED BY <1>1, <2>1 DEF StraysOK, Sent, Own
<1>5. QED BY <1>1, <1>2, <1>3, <1>4, WebSocketAssumption DEF Next

-----------------------------------------------------------------------------
(* Both senders of an end. *)

LEMMA OutTail ==
  ASSUME NEW w \in Seq(PartOfFrame), w # <<>>, NEW e, OutOK(w, e), ~BetweenFragments(w)
  PROVE  /\ OutOK(Tail(w), e) /\ PartOK(w[1]) /\ Head(w) = w[1] /\ Tail(w) \in Seq(PartOfFrame)
         /\ Tail(w) # <<>> => Follows(w[1], Tail(w)[1]) \/ BetweenFragments(Tail(w))
         /\ Tail(w) = <<>> => Done(w[1])
         /\ ~Starts(Tail(w), "Ping") /\ ~Starts(Tail(w), "Pong")
         /\ IsHead(w[1], "Ping") => Starts(w, "Ping")
         /\ IsHead(w[1], "Pong") => Starts(w, "Pong")
<1> DEFINE v == Tail(w)
<1>1. /\ Len(w) \in Nat \ {0} /\ v \in Seq(PartOfFrame) /\ Len(v) = Len(w) - 1
      /\ \A i \in 1..(Len(w) - 1) : v[i] = w[i + 1]
      /\ v = <<>> <=> Len(w) = 1
      /\ Head(w) = w[1]
  BY TailFacts
<1>2. v # <<>> => Head(v) = v[1] BY <1>1, TailFacts
<1> HIDE DEF v
<1>3. \A i \in 1..Len(v) : v[i] = w[i + 1] /\ i + 1 \in 1..Len(w) BY <1>1
<1>4. 1 \in 1..Len(w) BY <1>1
<1>5. ~Between(w, 1) BY <1>1 DEF Between, BetweenFragments, IsHead
<1>6. \A i \in 1..Len(v) : Between(w, i + 1) => Between(v, i) BY <1>1, <1>3 DEF Between
<1>7. AllOK(v) BY <1>3 DEF OutOK, AllOK
<1>8. PartOK(w[1]) BY <1>4 DEF OutOK, AllOK
<1>9. ASSUME NEW i \in 1..(Len(v) - 1)
      PROVE  Follows(v[i], v[i + 1]) \/ \E j \in 1..(i + 1) : Between(v, j)
  <2>1. i + 1 \in 1..(Len(w) - 1) /\ v[i] = w[i + 1] /\ v[i + 1] = w[i + 1 + 1] BY <1>1
  <2>2. CASE Follows(w[i + 1], w[i + 1 + 1]) BY <2>1, <2>2
  <2>3. CASE \E j \in 1..(i + 1 + 1) : Between(w, j)
    <3>1. PICK j \in 1..(i + 1 + 1) : Between(w, j) BY <2>3
    <3>2. j # 1 BY <1>5, <3>1
    <3>3. j - 1 \in 1..(i + 1) /\ j - 1 \in 1..Len(v) /\ (j - 1) + 1 = j BY <1>1, <2>1, <3>2
    <3>4. Between(v, j - 1) BY <1>6, <3>1, <3>3
    <3>5. QED BY <3>3, <3>4
  <2>4. QED BY <2>1, <2>2, <2>3 DEF OutOK
<1>10. ASSUME NEW i \in 1..Len(v)
       PROVE  /\ ~IsHead(v[i], "Pong")
              /\ IsHead(v[i], "Ping") => Between(v, i)
  <2>1. v[i] = w[i + 1] /\ i + 1 \in 1..Len(w) /\ i + 1 # 1 BY <1>3
  <2>2. QED BY <1>6, <2>1 DEF OutOK
<1>11. ASSUME v # <<>> PROVE Done(v[Len(v)])
  <2>1. Len(v) \in 1..Len(v) /\ Len(v) + 1 = Len(w) BY <1>1, <1>11
  <2>2. v[Len(v)] = w[Len(w)] BY <1>3, <2>1
  <2>3. w # <<>> OBVIOUS
  <2>4. QED BY <2>2, <2>3 DEF OutOK
<1>12. ASSUME e \notin Foreign PROVE Len(v) <= 2 /\ \A i \in 1..Len(v) : v[i].op # "Cont" /\ v[i].fin
  <2>1. Len(w) <= 2 /\ \A i \in 1..Len(w) : w[i].op # "Cont" /\ w[i].fin BY <1>12 DEF OutOK
  <2>2. Len(v) <= 2 BY <1>1, <2>1
  <2>3. QED BY <1>3, <2>1, <2>2
<1>13. OutOK(v, e) BY <1>7, <1>9, <1>10, <1>11, <1>12 DEF OutOK
<1>14. ASSUME v # <<>> PROVE Follows(w[1], v[1]) \/ BetweenFragments(v)
  <2>1. 1 \in 1..(Len(w) - 1) /\ v[1] = w[1 + 1] /\ 1 \in 1..Len(v) BY <1>1, <1>14
  <2>2. Follows(w[1], w[1 + 1]) \/ \E j \in 1..(1 + 1) : Between(w, j) BY <2>1 DEF OutOK
  <2>3. CASE \E j \in 1..(1 + 1) : Between(w, j)
    <3>1. PICK j \in 1..2 : Between(w, j) BY <2>3
    <3>2. j = 2 BY <1>5, <3>1
    <3>3. Between(v, 1) BY <1>6, <2>1, <3>1, <3>2
    <3>4. IsHead(v[1], "Ping") /\ 2 < Len(v) BY <3>3 DEF Between
    <3>5. BetweenFragments(v) BY <1>1, <1>2, <1>14, <3>4 DEF BetweenFragments, IsHead
    <3>6. QED BY <3>5
  <2>4. QED BY <2>1, <2>2, <2>3
<1>15. ASSUME v = <<>> PROVE Done(w[1])
  <2>1. Len(w) = 1 /\ w # <<>> BY <1>1, <1>15
  <2>2. QED BY <2>1 DEF OutOK
<1>16. ~Starts(v, "Ping") /\ ~Starts(v, "Pong")
  <2>1. SUFFICES ASSUME Len(v) = 2, IsHead(v[1], "Ping") \/ IsHead(v[1], "Pong") PROVE FALSE BY DEF Starts
  <2>2. 1 \in 1..Len(v) BY <2>1
  <2>3. Between(v, 1) BY <1>10, <2>1, <2>2
  <2>4. QED BY <2>1, <2>3 DEF Between
<1>17. /\ IsHead(w[1], "Ping") => Starts(w, "Ping")
       /\ IsHead(w[1], "Pong") => Starts(w, "Pong")
  BY <1>4, <1>5 DEF OutOK, Starts
<1>18. QED BY <1>1, <1>8, <1>13, <1>14, <1>15, <1>16, <1>17 DEF v

LEMMA HeadCounts ==
  ASSUME NEW w \in Seq(PartOfFrame), w # <<>>
  PROVE  Open(w) <=> w[1].part = "content"
BY TailFacts DEF Open

LEMMA NotOpen == ~Open(<<>>)
BY DEF Open

LEMMA PartKinds ==
  ASSUME NEW p \in PartOfFrame
  PROVE  p.part \in {"head", "content"} /\ p.fin \in BOOLEAN /\ p.op \in Ops /\ p.data \in Seq(Nat)
BY DEF PartOfFrame

(* A new frame fits after p.                                               *)
LEMMA DoneThenFrame ==
  ASSUME NEW p, NEW q, Done(p), q.part = "head", q.op # "Cont"
  PROVE  Follows(p, q)
BY DEF Done, Follows

LEMMA FrameThenDone ==
  ASSUME NEW p \in PartOfFrame, NEW q, Follows(p, q), q.part = "head", q.op # "Cont"
  PROVE  Done(p)
<1>1. p.part # "head"
  <2>1. SUFFICES ASSUME p.part = "head" PROVE FALSE OBVIOUS
  <2>2. q = [p EXCEPT !.part = "content"] BY <2>1 DEF Follows
  <2>3. q.part = "content" BY <2>2 DEF PartOfFrame
  <2>4. QED BY <2>3
<1>2. p.part = "content" BY <1>1, PartKinds
<1>3. p.fin
  <2>1. SUFFICES ASSUME ~p.fin PROVE FALSE OBVIOUS
  <2>2. q.op = "Cont" BY <1>1, <2>1 DEF Follows
  <2>3. QED BY <2>2
<1>4. QED BY <1>2, <1>3 DEF Done

LEMMA HeadThenOpen ==
  ASSUME NEW p \in PartOfFrame, NEW q, Follows(p, q), p.part = "head"
  PROVE  q.part = "content" /\ q.op = p.op
<1>1. q = [p EXCEPT !.part = "content"] BY DEF Follows
<1>2. QED BY <1>1 DEF PartOfFrame

LEMMA NonFragmenting ==
  ASSUME NEW e \in End, NEW o \in Seq(PartOfFrame), NEW b \in Seq(PartOfFrame), OutOK(o, e), BoutOK(b, e), b # <<>>
  PROVE  /\ ~BetweenFragments(o)
         /\ \A i \in 1..Len(o) : o[i].op # "Cont" /\ o[i].fin
         /\ b[1].op # "Cont" /\ b[1].fin
<1>1. e \notin Foreign BY WebSocketAssumption DEF BoutOK
<1>2. Len(o) <= 2 /\ \A i \in 1..Len(o) : o[i].op # "Cont" /\ o[i].fin BY <1>1 DEF OutOK
<1>3. Len(o) \in Nat OBVIOUS
<1>4. ~BetweenFragments(o) BY <1>2, <1>3 DEF BetweenFragments
<1>5. 1 \in 1..Len(b) BY TailFacts
<1>6. QED BY <1>2, <1>4, <1>5 DEF BoutOK

(* The end's coroutine writes its next part.                               *)
LEMMA LinkedWrites ==
  ASSUME NEW e \in End, NEW p, NEW o \in Seq(PartOfFrame), NEW b \in Seq(PartOfFrame),
         Linked(p, o, b), OutOK(o, e), BoutOK(b, e), o # <<>>, ~Open(b), ~BetweenFragments(o)
  PROVE  Follows(p, o[1]) /\ Linked(o[1], Tail(o), b)
<1> DEFINE v == Tail(o)
<1>0. /\ Len(o) \in Nat \ {0} /\ o[1] \in PartOfFrame /\ Len(v) = Len(o) - 1
      /\ v = <<>> <=> Len(o) = 1
  BY TailFacts
<1>1. /\ v \in Seq(PartOfFrame)
      /\ v # <<>> => Follows(o[1], v[1]) \/ BetweenFragments(v)
      /\ v = <<>> => Done(o[1])
      /\ OutOK(v, e)
  BY OutTail
<1> HIDE DEF v
<1>2. Follows(p, o[1]) BY DEF Linked
<1>3. ASSUME b # <<>>, ~Open(v) PROVE Follows(o[1], b[1])
  <2>1. /\ ~BetweenFragments(v) /\ o[1].fin /\ b[1].op # "Cont"
    <3>1. 1 \in 1..Len(o) BY <1>0
    <3>2. QED BY <1>1, <1>3, <3>1, NonFragmenting
  <2>2. b[1] \in PartOfFrame /\ b[1].part = "head"
    BY <1>3, HeadCounts, TailFacts, PartKinds
  <2>3. o[1].part = "content"
    <3>1. SUFFICES ASSUME o[1].part = "head" PROVE FALSE BY <1>0, PartKinds
    <3>2. v # <<>> BY <1>1, <3>1 DEF Done
    <3>3. Follows(o[1], v[1]) BY <1>1, <2>1, <3>2
    <3>4. v[1].part = "content" BY <1>0, <3>1, <3>3, HeadThenOpen
    <3>5. QED BY <1>1, <1>3, <3>2, <3>4, HeadCounts
  <2>4. Done(o[1]) BY <2>1, <2>3 DEF Done
  <2>5. QED BY <2>1, <2>2, <2>4, DoneThenFrame
<1>4. Linked(o[1], v, b) BY <1>1, <1>3 DEF Linked
<1>5. QED BY <1>2, <1>4 DEF v

LEMMA BoutTail ==
  ASSUME NEW e \in End, NEW b \in Seq(PartOfFrame), BoutOK(b, e), b # <<>>
  PROVE  BoutOK(Tail(b), e)
<1> DEFINE v == Tail(b)
<1>0. /\ Len(b) \in Nat \ {0} /\ Len(v) = Len(b) - 1
      /\ \A i \in 1..(Len(b) - 1) : v[i] = b[i + 1]
      /\ v = <<>> <=> Len(b) = 1
  BY TailFacts
<1> HIDE DEF v
<1>1. \A i \in 1..Len(v) : v[i] = b[i + 1] /\ i + 1 \in 1..Len(b) BY <1>0
<1>2. AllOK(v) /\ \A i \in 1..Len(v) : v[i].op = "Text" /\ v[i].fin BY <1>1 DEF BoutOK, AllOK
<1>3. Len(v) <= 1
  <2>1. Len(b) <= 2 BY DEF BoutOK
  <2>2. QED BY <1>0, <2>1
<1>4. \A i \in 1..(Len(v) - 1) : Follows(v[i], v[i + 1]) BY <1>0, <1>3
<1>5. ASSUME v # <<>> PROVE Done(v[Len(v)]) /\ e \in Broadcasting
  <2>1. Len(v) = 1 /\ Len(b) = 2 BY <1>0, <1>3, <1>5
  <2>2. v[Len(v)] = b[Len(b)] BY <1>1, <2>1
  <2>3. QED BY <2>2 DEF BoutOK
<1>6. Len(v) <= 2 BY <1>0, <1>3
<1>7. BoutOK(v, e) BY <1>2, <1>4, <1>5, <1>6 DEF BoutOK
<1>8. QED BY <1>7 DEF v

(* The second coroutine writes its next part.                              *)
LEMMA LinkedBroadcasts ==
  ASSUME NEW e \in End, NEW p, NEW o \in Seq(PartOfFrame), NEW b \in Seq(PartOfFrame),
         Linked(p, o, b), OutOK(o, e), BoutOK(b, e), b # <<>>, ~Open(o)
  PROVE  /\ Follows(p, b[1]) /\ Linked(b[1], o, Tail(b))
         /\ PartOK(b[1]) /\ b[1].op = "Text"
<1> DEFINE v == Tail(b)
<1>0. /\ Len(b) \in Nat \ {0} /\ b[1] \in PartOfFrame /\ Len(v) = Len(b) - 1
      /\ v \in Seq(PartOfFrame)
      /\ \A i \in 1..(Len(b) - 1) : v[i] = b[i + 1]
      /\ v = <<>> <=> Len(b) = 1
  BY TailFacts
<1> HIDE DEF v
<1>a. 1 \in 1..Len(b) BY <1>0
<1>1. Follows(p, b[1]) BY DEF Linked
<1>2. PartOK(b[1]) /\ b[1].op = "Text" /\ b[1].fin BY <1>a DEF BoutOK, AllOK
<1>3. ASSUME v # <<>> PROVE Follows(b[1], v[1])
  <2>1. 1 \in 1..(Len(b) - 1) /\ v[1] = b[1 + 1] BY <1>0, <1>3
  <2>2. QED BY <2>1 DEF BoutOK
<1>4. ASSUME v = <<>> PROVE Done(b[1])
  <2>1. Len(b) = 1 BY <1>0, <1>4
  <2>2. QED BY <2>1 DEF BoutOK
<1>6. Done(b[1]) \/ Open(v)
  <2>1. SUFFICES ASSUME ~Open(v) PROVE Done(b[1]) OBVIOUS
  <2>2. CASE v = <<>> BY <1>4, <2>2
  <2>3. CASE v # <<>>
    <3>1. v[1].part # "content" BY <1>0, <2>1, <2>3, HeadCounts
    <3>2. b[1].part # "head" BY <1>0, <1>3, <2>3, <3>1, HeadThenOpen
    <3>3. QED BY <1>0, <1>2, <3>2, PartKinds DEF Done
  <2>4. QED BY <2>2, <2>3
<1>7. ASSUME o # <<>>, ~Open(v) PROVE Follows(b[1], o[1])
  <2>1. 1 \in 1..Len(o) /\ o[1] \in PartOfFrame BY <1>7, TailFacts
  <2>2. o[1].part = "head" BY <1>7, <2>1, HeadCounts, PartKinds
  <2>3. o[1].op # "Cont" BY <2>1, NonFragmenting
  <2>4. QED BY <1>6, <1>7, <2>2, <2>3, DoneThenFrame
<1>8. Linked(b[1], o, v) BY <1>3, <1>6, <1>7 DEF Linked
<1>9. QED BY <1>1, <1>2, <1>8 DEF v

LEMMA LinkedStarts ==
  ASSUME NEW p, NEW b, Linked(p, <<>>, b), NEW w \in Seq(PartOfFrame), Fresh(w)
  PROVE  Linked(p, w, b)
<1>1. w # <<>> /\ w[1].part = "head" /\ w[1].op # "Cont" BY DEF Fresh
<1>2. ~Open(w) BY <1>1, HeadCounts
<1>3. ~Open(b) => Follows(p, w[1]) BY <1>1, DoneThenFrame DEF Linked
<1>4. b # <<>> => Follows(p, b[1]) BY NotOpen DEF Linked
<1>5. QED BY <1>1, <1>2, <1>3, <1>4 DEF Linked

LEMMA LinkedStartsBroadcast ==
  ASSUME NEW e \in End, NEW p \in PartOfFrame, NEW o \in Seq(PartOfFrame), OutOK(o, e),
         Linked(p, o, <<>>), NEW w \in Seq(PartOfFrame), Fresh(w), BoutOK(w, e)
  PROVE  Linked(p, o, w)
<1>1. w # <<>> /\ w[1].part = "head" /\ w[1].op # "Cont" BY DEF Fresh
<1>2. ~Open(w) /\ ~Open(<<>>) BY <1>1, HeadCounts, NotOpen
<1>3. ASSUME ~Open(o) PROVE Done(p)
  <2>1. CASE o = <<>> BY <1>2, <2>1 DEF Linked
  <2>2. CASE o # <<>>
    <3>1. Follows(p, o[1]) BY <1>1, <1>2, <2>2, NonFragmenting DEF Linked
    <3>2. 1 \in 1..Len(o) /\ o[1] \in PartOfFrame BY <2>2, TailFacts
    <3>3. o[1].part = "head" BY <1>3, <2>2, <3>2, HeadCounts, PartKinds
    <3>4. o[1].op # "Cont" BY <1>1, <3>2, NonFragmenting
    <3>5. QED BY <3>1, <3>3, <3>4, FrameThenDone
  <2>3. QED BY <2>1, <2>2
<1>4. ~Open(o) => Follows(p, w[1]) BY <1>1, <1>3, DoneThenFrame
<1>5. QED BY <1>1, <1>2, <1>4 DEF Linked

LEMMA LinkedEases ==
  ASSUME NEW p, NEW q, NEW o, NEW b, Linked(p, o, b), NoStricter(p, q)
  PROVE  Linked(q, o, b)
BY DEF Linked, NoStricter

-----------------------------------------------------------------------------
(* The ping. *)

LEMMA CarryAppend ==
  ASSUME NEW w \in Seq(PartOfFrame), NEW q \in PartOfFrame, NEW op
  PROVE  /\ ~IsHead(q, op) => (Carries(Append(w, q), op) => Carries(w, op))
         /\ ~IsHead(q, op) /\ Alone(w, op) => Alone(Append(w, q), op)
         /\ ~Carries(w, op) => Alone(Append(w, q), op)
<1> DEFINE v == Append(w, q)
<1>1. /\ Len(w) \in Nat /\ Len(v) = Len(w) + 1 /\ v[Len(w) + 1] = q
      /\ \A i \in 1..Len(w) : v[i] = w[i]
  OBVIOUS
<1> HIDE DEF v
<1>2. ASSUME NEW i \in 1..Len(v), IsHead(v[i], op), ~IsHead(q, op) PROVE i \in 1..Len(w) /\ IsHead(w[i], op)
  <2>1. i # Len(w) + 1
    <3>1. SUFFICES ASSUME i = Len(w) + 1 PROVE FALSE OBVIOUS
    <3>2. v[i] = q BY <1>1, <3>1
    <3>3. QED BY <1>2, <3>2
  <2>2. i \in 1..Len(w) BY <1>1, <2>1
  <2>3. QED BY <1>1, <1>2, <2>2
<1>3. ASSUME NEW i \in 1..Len(v), IsHead(v[i], op), ~Carries(w, op) PROVE i = Len(w) + 1
  <2>1. SUFFICES ASSUME i # Len(w) + 1 PROVE FALSE OBVIOUS
  <2>2. i \in 1..Len(w) BY <1>1, <2>1
  <2>3. IsHead(w[i], op) BY <1>1, <1>3, <2>2
  <2>4. QED BY <1>3, <2>2, <2>3 DEF Carries
<1>4. ~IsHead(q, op) => (Carries(v, op) => Carries(w, op)) BY <1>2 DEF Carries
<1>5. ~IsHead(q, op) /\ Alone(w, op) => Alone(v, op) BY <1>2 DEF Alone
<1>6. ~Carries(w, op) => Alone(v, op) BY <1>3 DEF Alone
<1>7. QED BY <1>4, <1>5, <1>6 DEF v

LEMMA CarryTail ==
  ASSUME NEW w \in Seq(PartOfFrame), w # <<>>, NEW op
  PROVE  /\ Carries(Tail(w), op) => Carries(w, op)
         /\ Alone(w, op) => Alone(Tail(w), op)
         /\ Alone(w, op) /\ IsHead(w[1], op) => Carries(w, op) /\ ~Carries(Tail(w), op)
<1> DEFINE v == Tail(w)
<1>1. /\ Len(w) \in Nat \ {0} /\ Len(v) = Len(w) - 1
      /\ \A i \in 1..(Len(w) - 1) : v[i] = w[i + 1]
  BY TailFacts
<1> HIDE DEF v
<1>2. \A i \in 1..Len(v) : v[i] = w[i + 1] /\ i + 1 \in 1..Len(w) /\ i + 1 # 1 BY <1>1
<1>3. 1 \in 1..Len(w) BY <1>1
<1>4. Carries(v, op) => Carries(w, op) BY <1>2 DEF Carries
<1>5. ASSUME Alone(w, op) PROVE Alone(v, op)
  <2>1. ASSUME NEW i \in 1..Len(v), NEW j \in 1..Len(v), IsHead(v[i], op), IsHead(v[j], op) PROVE i = j
    <3>1. i + 1 = j + 1 BY <1>2, <1>5, <2>1 DEF Alone
    <3>2. i \in Int /\ j \in Int OBVIOUS
    <3>3. QED BY <3>1, <3>2
  <2>2. QED BY <2>1 DEF Alone
<1>6. ASSUME Alone(w, op), IsHead(w[1], op) PROVE Carries(w, op) /\ ~Carries(v, op)
  <2>1. ASSUME NEW i \in 1..Len(v), IsHead(v[i], op) PROVE FALSE
    <3>1. i + 1 = 1 BY <1>2, <1>3, <1>6, <2>1 DEF Alone
    <3>2. QED BY <1>2, <3>1
  <2>2. QED BY <1>3, <1>6, <2>1 DEF Carries
<1>7. QED BY <1>4, <1>5, <1>6 DEF v

(* A ping or its pong goes from stage a to stage b, and nothing comes up.  *)
LEMMA PingMoves ==
  ASSUME NEW r \in End, OnePing(r), NEW a \in 1..6, NEW b \in 1..6,
         Alone(wire[Peer(r)], "Ping")', Alone(wire[r], "Pong")',
         \A c \in 1..6 : c # b => (Stage(c, r)' => Stage(c, r)),
         Stage(b, r)' => Stage(b, r) \/ (a # b /\ Stage(a, r) /\ ~Stage(a, r)'),
         ~Waiting(r)' => ~Waiting(r) \/ \A c \in 1..6 : ~Stage(c, r)'
  PROVE  OnePing(r)'
<1>1. ASSUME NEW x \in 1..6, NEW y \in 1..6, Stage(x, r)', Stage(y, r)', y # b PROVE x = y
  <2>1. Stage(y, r) BY <1>1
  <2>2. CASE x # b \/ Stage(b, r)
    <3>1. Stage(x, r) BY <1>1, <2>2
    <3>2. QED BY <2>1, <3>1 DEF OnePing
  <2>3. CASE x = b /\ ~Stage(b, r)
    <3>1. Stage(a, r) /\ ~Stage(a, r)' BY <1>1, <2>3
    <3>2. y = a BY <2>1, <3>1 DEF OnePing
    <3>3. QED BY <1>1, <3>1, <3>2
  <2>4. QED BY <2>2, <2>3
<1>2. ASSUME NEW x \in 1..6, NEW y \in 1..6, Stage(x, r)', Stage(y, r)' PROVE x = y
  <2>1. CASE y # b BY <1>1, <1>2, <2>1
  <2>2. CASE x # b BY <1>1, <1>2, <2>2
  <2>3. QED BY <2>1, <2>2
<1>3. ASSUME ~Waiting(r)', NEW c \in 1..6 PROVE ~Stage(c, r)'
  <2>1. CASE ~Waiting(r)
    <3>1. \A d \in 1..6 : ~Stage(d, r) BY <2>1 DEF OnePing
    <3>2. QED BY <3>1
  <2>2. QED BY <1>3, <2>1
<1>4. QED BY <1>2, <1>3 DEF OnePing

LEMMA SixStages ==
  /\ \A n \in 1..6 : n = 1 \/ n = 2 \/ n = 3 \/ n = 4 \/ n = 5 \/ n = 6
  /\ 1 \in 1..6 /\ 2 \in 1..6 /\ 3 \in 1..6 /\ 4 \in 1..6 /\ 5 \in 1..6 /\ 6 \in 1..6
OBVIOUS

-----------------------------------------------------------------------------
(* What an end sends. *)

LEMMA PrevKind ==
  ASSUME TypeOK, NEW r \in End
  PROVE  /\ Prev(r) \in PartOfFrame /\ wire[r] \in Seq(PartOfFrame)
         /\ Tip(Prev(r), wire[r]) \in PartOfFrame
         /\ out[r] \in Seq(PartOfFrame) /\ bout[r] \in Seq(PartOfFrame)
<1>1. /\ wire[r] \in Seq(PartOfFrame) /\ out[r] \in Seq(PartOfFrame) /\ bout[r] \in Seq(PartOfFrame)
  BY SoundInSet DEF TypeOK
<1>2. Prev(r) \in PartOfFrame
  <2>1. CASE got[r] # None BY <2>1, SoundInSet DEF Prev, TypeOK
  <2>2. CASE got[r] = None
    <3>1. content[r] \in Seq(Nat) BY DEF TypeOK
    <3>2. Part("content", "Pong", TRUE, content[r]) \in PartOfFrame /\ Part("content", "Text", FALSE, content[r]) \in PartOfFrame
      BY <3>1 DEF Part, PartOfFrame, Ops, Data
    <3>3. CASE first[r] = None BY <2>2, <3>2, <3>3 DEF Prev
    <3>4. CASE first[r] # None
      <4>1. (first[r] = None) = FALSE BY <3>4
      <4>2. Prev(r) = Part("content", "Text", FALSE, content[r]) BY <2>2, <3>4, <4>1 DEF Prev
      <4>3. QED BY <3>2, <4>2
    <3>5. QED BY <3>3, <3>4
  <2>3. QED BY <2>1, <2>2
<1>3. Tip(Prev(r), wire[r]) \in PartOfFrame
  <2>1. wire[r] # <<>> => Len(wire[r]) \in 1..Len(wire[r]) BY <1>1, TailFacts
  <2>2. wire[r] # <<>> => wire[r][Len(wire[r])] \in PartOfFrame BY <1>1, <2>1
  <2>3. QED BY <1>2, <2>2 DEF Tip
<1>4. QED BY <1>1, <1>2, <1>3

LEMMA TakenKind ==
  ASSUME TypeOK, NEW r \in End
  PROVE  /\ Len(recvd[r]) \in Nat /\ Kept(r) \in Nat /\ Taken(r) \in Nat /\ texts[Peer(r)] \in Seq(Nat)
         /\ held[r] # None => Kept(r) = Len(recvd[r]) + 1
         /\ held[r] = None => Kept(r) = Len(recvd[r])
         /\ first[r] = "Text" => Taken(r) = Kept(r) + 1
         /\ first[r] # "Text" => Taken(r) = Kept(r)
<1>1. Len(recvd[r]) \in Nat /\ texts[Peer(r)] \in Seq(Nat) BY PeerFacts DEF TypeOK
<1>2. Kept(r) \in Nat /\ (held[r] # None => Kept(r) = Len(recvd[r]) + 1) /\ (held[r] = None => Kept(r) = Len(recvd[r]))
  <2>1. CASE held[r] # None BY <1>1, <2>1 DEF Kept
  <2>2. CASE held[r] = None BY <1>1, <2>2 DEF Kept
  <2>3. QED BY <2>1, <2>2
<1>3. Taken(r) \in Nat /\ (first[r] = "Text" => Taken(r) = Kept(r) + 1) /\ (first[r] # "Text" => Taken(r) = Kept(r))
  <2>1. CASE first[r] = "Text" BY <1>2, <2>1 DEF Taken
  <2>2. CASE first[r] # "Text" BY <1>2, <2>2 DEF Taken
  <2>3. QED BY <2>1, <2>2
<1>4. QED BY <1>1, <1>2, <1>3

LEMMA TakenSent ==
  ASSUME TypeOK, NEW r \in End,
         Counted(wire[r], texts[Peer(r)], Taken(r), due[Peer(r)], first[r] = "Close")
  PROVE  Taken(r) <= Len(texts[Peer(r)])
         /\ (due[Peer(r)] # None /\ first[r] = "Close" => due[Peer(r)] = Taken(r))
BY DEF Counted, Placed, Closed

(* A part of s arrives on the wire of r, after what came before.           *)
LEMMA Arrives ==
  ASSUME TypeOK, NEW r \in End, Direction(r), NEW q \in SoundPart, PartOK(q), Put(Peer(r), q),
         Follows(Tip(Prev(r), wire[r]), q),
         UNCHANGED <<got, first, content, held, recvd>>
  PROVE  /\ ReadOK(r)' /\ InHand(r)'
         /\ Chained(Prev(r), wire[r])' /\ Tip(Prev(r), wire[r])' = q
         /\ Counted(wire[r], texts[Peer(r)], Taken(r), due[Peer(r)], first[r] = "Close")'
<1> DEFINE s == Peer(r)
<1>0. s \in End /\ Peer(s) = r /\ s # r BY PeerFacts
<1>1. q \in PartOfFrame /\ wire[r] \in Seq(PartOfFrame) /\ Prev(r) \in PartOfFrame
  BY SoundInSet, PrevKind
<1>2. wire'[r] = Append(wire[r], q) BY <1>0 DEF Put, TypeOK
<1>3. /\ texts'[s] = IF IsHead(q, "Text") THEN Append(texts[s], q.data[1]) ELSE texts[s]
      /\ due'[s] = IF q.op = "Close" /\ due[s] = None THEN Len(texts[s]) ELSE due[s]
  BY <1>0 DEF Put, TypeOK, IsHead
<1>4. Prev(r)' = Prev(r) BY DEF Prev
<1>5. Chained(Prev(r), wire[r]) /\ ReadOK(r) /\ InHand(r)
      /\ Counted(wire[r], texts[s], Taken(r), due[s], first[r] = "Close")
  BY DEF Direction, Stream
<1>6. Chained(Prev(r), wire'[r]) /\ Tip(Prev(r), wire'[r]) = q BY <1>1, <1>2, <1>5, Extend
<1>7. ReadOK(r)' BY <1>5 DEF ReadOK
<1>8. Taken(r)' = Taken(r) /\ Kept(r)' = Kept(r) BY DEF Taken, Kept
<1>9. texts[s] \in Seq(Nat) /\ Len(texts[s]) \in Nat /\ Taken(r) \in Nat /\ Kept(r) \in Nat /\ Len(recvd[r]) \in Nat
  <2>1. texts[s] \in Seq(Nat) /\ Taken(r) \in Nat /\ Kept(r) \in Nat /\ Len(recvd[r]) \in Nat BY TakenKind
  <2>2. QED BY <2>1
<1>10. IsHead(q, "Text") => q.data[1] \in Nat
  <2>1. SUFFICES ASSUME IsHead(q, "Text") PROVE q.data[1] \in Nat OBVIOUS
  <2>2. q.data \in Seq(Nat) /\ q.data # <<>> BY <2>1 DEF SoundPart, PartOfFrame, IsHead
  <2>3. QED BY <2>2, TailFacts
<1>11. q.op = "Close" /\ due[s] = None => IsHead(q, "Close")
  <2>1. SUFFICES ASSUME q.op = "Close", due[s] = None, q.part # "head" PROVE FALSE BY DEF IsHead
  <2>2. PICK f : Closed(wire[r], texts[s], Taken(r), due[s], first[r] = "Close", f) BY <1>5 DEF Counted
  <2>3. first[r] # "Close" /\ \A i \in 1..Len(wire[r]) : ~IsHead(wire[r][i], "Close")
    BY <2>1, <2>2 DEF Closed
  <2>4. Tip(Prev(r), wire[r]).part = "head" /\ Tip(Prev(r), wire[r]).op = "Close"
    <3>0. Tip(Prev(r), wire[r]) \in PartOfFrame BY PrevKind
    <3>1. Tip(Prev(r), wire[r]).part = "head" BY <2>1, <3>0, PartKinds DEF Follows
    <3>2. QED BY <2>1, <3>0, <3>1, HeadThenOpen
  <2>5. wire[r] = <<>>
    <3>1. SUFFICES ASSUME wire[r] # <<>> PROVE FALSE OBVIOUS
    <3>2. Len(wire[r]) \in 1..Len(wire[r]) BY <1>1, <3>1, TailFacts
    <3>3. QED BY <2>3, <2>4, <3>1, <3>2 DEF Tip, IsHead
  <2>6. Prev(r).part = "head" /\ Prev(r).op = "Close" BY <2>4, <2>5 DEF Tip
  <2>7. got[r] # None BY <2>6, PartFields DEF Prev
  <2>8. got[r].op = "Close" BY <2>6, <2>7 DEF Prev
  <2>9. first[r] = "Close" BY <1>5, <2>7, <2>8 DEF ReadOK
  <2>10. QED BY <2>3, <2>9
<1>12. Counted(wire'[r], texts'[s], Taken(r), due'[s], first[r] = "Close")
  <2>1. CASE IsHead(q, "Text")
    <3>1. due'[s] = due[s] BY <1>3, <2>1 DEF IsHead
    <3>2. QED BY <1>1, <1>2, <1>3, <1>5, <1>9, <1>10, <2>1, <3>1, CountedAdds
  <2>2. CASE q.op = "Close" /\ due[s] = None
    <3>1. IsHead(q, "Close") /\ ~IsHead(q, "Text") BY <1>11, <2>2 DEF IsHead
    <3>2. texts'[s] = texts[s] /\ due'[s] = Len(texts[s]) BY <1>3, <2>2, <3>1
    <3>3. Counted(wire[r], texts[s], Taken(r), None, first[r] = "Close") BY <1>5, <2>2
    <3>4. Counted(Append(wire[r], q), texts[s], Taken(r), Len(texts[s]), first[r] = "Close")
      BY <1>1, <1>9, <3>1, <3>3, CountedShuts
    <3>5. QED BY <1>2, <3>2, <3>4
  <2>3. CASE ~IsHead(q, "Text") /\ ~(q.op = "Close" /\ due[s] = None)
    <3>1. texts'[s] = texts[s] /\ due'[s] = due[s] BY <1>3, <2>3
    <3>2. IsHead(q, "Close") => due[s] # None BY <2>3 DEF IsHead
    <3>3. QED BY <1>1, <1>2, <1>5, <1>9, <2>3, <3>1, <3>2, CountedGrows
  <2>4. QED BY <2>1, <2>2, <2>3
<1>13. InHand(r)'
  <2>1. Taken(r) <= Len(texts[s]) BY <1>5, TakenSent
  <2>2. \A i \in 1..Len(texts[s]) : texts'[s][i] = texts[s][i] BY <1>3, <1>9, <1>10
  <2>a. Kept(r) <= Taken(r) /\ (first[r] = "Text" => Taken(r) = Kept(r) + 1)
        /\ (held[r] # None => Kept(r) = Len(recvd[r]) + 1)
    <3>1. first[r] # "Text" => Taken(r) = Kept(r) BY TakenKind
    <3>2. first[r] = "Text" => Taken(r) = Kept(r) + 1 BY TakenKind
    <3>3. held[r] # None => Kept(r) = Len(recvd[r]) + 1 BY TakenKind
    <3>4. QED BY <1>9, <3>1, <3>2, <3>3
  <2>3. held[r] # None => Len(recvd[r]) + 1 \in 1..Len(texts[s]) BY <1>9, <2>1, <2>a
  <2>4. first[r] = "Text" => Kept(r) + 1 \in 1..Len(texts[s]) BY <1>9, <2>1, <2>a
  <2>5. held[r] # None => texts'[s][Len(recvd[r]) + 1] = texts[s][Len(recvd[r]) + 1] BY <2>2, <2>3
  <2>6. first[r] = "Text" => texts'[s][Kept(r) + 1] = texts[s][Kept(r) + 1] BY <2>2, <2>4
  <2>7. QED BY <1>5, <1>8, <2>5, <2>6 DEF InHand
<1>14. QED BY <1>4, <1>6, <1>7, <1>8, <1>12, <1>13

LEMMA DirectionFrame ==
  ASSUME NEW r \in End, Stream(r), InHand(r),
         Counted(wire[r], texts[Peer(r)], Taken(r), due[Peer(r)], first[r] = "Close"),
         wire'[r] = wire[r], got'[r] = got[r], first'[r] = first[r], content'[r] = content[r],
         held'[r] = held[r], recvd'[r] = recvd[r], texts'[Peer(r)] = texts[Peer(r)],
         due'[Peer(r)] = due[Peer(r)], out'[Peer(r)] = out[Peer(r)], bout'[Peer(r)] = bout[Peer(r)]
  PROVE  /\ Stream(r)' /\ InHand(r)'
         /\ Counted(wire[r], texts[Peer(r)], Taken(r), due[Peer(r)], first[r] = "Close")'
<1>1. Prev(r)' = Prev(r) /\ Taken(r)' = Taken(r) /\ Kept(r)' = Kept(r) BY DEF Prev, Taken, Kept
<1>2. ReadOK(r)' BY DEF Stream, ReadOK
<1>3. Stream(r)' BY <1>1, <1>2 DEF Stream
<1>4. InHand(r)' BY <1>1 DEF InHand
<1>5. Counted(wire[r], texts[Peer(r)], Taken(r), due[Peer(r)], first[r] = "Close")' BY <1>1
<1>6. QED BY <1>3, <1>4, <1>5

LEMMA AnswersKept ==
  ASSUME NEW r, Answers(r), odd[Peer(r)] \subseteq odd'[Peer(r)], OnePing(r) => OnePing(r)'
  PROVE  Answers(r)'
BY DEF Answers

LEMMA VerdictFrame ==
  ASSUME NEW r \in End, Verdict(r),
         held'[r] = held[r], recvd'[r] = recvd[r], cause'[r] = cause[r], texts'[Peer(r)] = texts[Peer(r)],
         due'[Peer(r)] = due[Peer(r)], odd[Peer(r)] \subseteq odd'[Peer(r)]
  PROVE  Verdict(r)'
BY DEF Verdict

LEMMA VerdictSent ==
  ASSUME TypeOK, NEW r \in End, Verdict(r), NEW q \in SoundPart, Put(Peer(r), q),
         UNCHANGED <<held, recvd, cause, odd>>
  PROVE  Verdict(r)'
<1> DEFINE s == Peer(r)
<1>0. s \in End BY PeerFacts
<1>1. texts[s] \in Seq(Nat) /\ Len(texts[s]) \in Nat /\ Len(recvd[r]) \in Nat
  <2>1. texts[s] \in Seq(Nat) /\ recvd[r] \in Seq(Seq(Nat)) BY <1>0 DEF TypeOK
  <2>2. QED BY <2>1
<1>2. /\ texts'[s] = IF IsHead(q, "Text") THEN Append(texts[s], q.data[1]) ELSE texts[s]
      /\ due'[s] = IF q.op = "Close" /\ due[s] = None THEN Len(texts[s]) ELSE due[s]
  BY <1>0 DEF Put, TypeOK, IsHead
<1>3. IsHead(q, "Text") => q.data[1] \in Nat
  <2>1. SUFFICES ASSUME IsHead(q, "Text") PROVE q.data[1] \in Nat OBVIOUS
  <2>2. q.data \in Seq(Nat) /\ q.data # <<>> BY <2>1 DEF SoundPart, PartOfFrame, IsHead
  <2>3. QED BY <2>2, TailFacts
<1>4. /\ Len(texts'[s]) \in Nat /\ Len(texts[s]) <= Len(texts'[s])
      /\ \A i \in 1..Len(texts[s]) : texts'[s][i] = texts[s][i]
  BY <1>1, <1>2, <1>3
<1>5. due[s] # None => due'[s] = due[s] BY <1>2
<1>6. ASSUME NEW i \in 1..Len(recvd[r])
      PROVE  i <= Len(texts'[s]) /\ recvd[r][i] = <<texts'[s][i], texts'[s][i]>>
  <2>1. i <= Len(texts[s]) /\ recvd[r][i] = <<texts[s][i], texts[s][i]>> BY DEF Verdict
  <2>2. i \in 1..Len(texts[s]) BY <1>1, <2>1
  <2>3. i <= Len(texts'[s]) BY <1>1, <1>4, <2>1
  <2>4. QED BY <1>4, <2>1, <2>2, <2>3
<1>7. cause[r] = "closed" => held[r] # None \/ (Len(recvd[r]) = due'[s] /\ due'[s] # None) BY <1>5 DEF Verdict
<1>8. /\ cause[r] = "type" => held[r] # None \/ odd[s] \cap {"Binary", "Pong"} # {}
      /\ cause[r] = "protocol" => "Bad" \in odd[s]
  BY DEF Verdict
<1>9. QED BY <1>6, <1>7, <1>8 DEF Verdict

(* The pings of both ends while one of them writes.                        *)
LEMMA PingsWritten ==
  ASSUME TypeOK, NEW e \in End, NEW q \in SoundPart, Put(e, q),
         UNCHANGED <<pc, first>>, out'[Peer(e)] = out[Peer(e)],
         ~Starts(out'[e], "Ping") \/ out'[e] = out[e], ~Starts(out'[e], "Pong") \/ out'[e] = out[e],
         IsHead(q, "Ping") => Starts(out[e], "Ping") /\ out'[e] # out[e],
         IsHead(q, "Pong") => Starts(out[e], "Pong") /\ out'[e] # out[e],
         NEW r \in End, OnePing(r)
  PROVE  OnePing(r)'
<1> DEFINE p == Peer(e)
<1>0. p \in End /\ p # e /\ Peer(p) = e /\ (r = e \/ r = p) BY PeerFacts
<1>1. wire'[p] = Append(wire[p], q) /\ wire'[e] = wire[e] BY <1>0 DEF Put, TypeOK
<1>2. wire[p] \in Seq(PartOfFrame) /\ q \in PartOfFrame BY <1>0, SoundInSet DEF TypeOK
<1>3. Waiting(r)' = Waiting(r) BY DEF Waiting
<1>4. IsHead(q, "Ping") => ~IsHead(q, "Pong") BY DEF IsHead
<1>5. CASE r = e
  <2>1. /\ Stage(1, r)' => Stage(1, r) /\ ~IsHead(q, "Ping")
        /\ Stage(3, r)' => Stage(3, r)
        /\ Stage(4, r)' => Stage(4, r)
        /\ Stage(5, r)' => Stage(5, r)
        /\ Stage(6, r)' => Stage(6, r)
    BY <1>0, <1>1, <1>5 DEF Stage
  <2>2. Alone(wire[r], "Pong")' BY <1>1, <1>5 DEF OnePing
  <2>3. CASE IsHead(q, "Ping")
    <3>1. Stage(1, r) BY <1>5, <2>3 DEF Stage
    <3>2. ~Stage(1, r)' BY <2>1, <2>3
    <3>3. ~Stage(2, r) BY <3>1, SixStages DEF OnePing
    <3>4. ~Carries(wire[p], "Ping") BY <1>5, <3>3 DEF Stage
    <3>5. Alone(wire'[p], "Ping") BY <1>1, <1>2, <3>4, CarryAppend
    <3>6. Alone(wire[Peer(r)], "Ping")' BY <1>5, <3>5
    <3>7. \A c \in 1..6 : c # 2 => (Stage(c, r)' => Stage(c, r)) BY <2>1, SixStages
    <3>8. Stage(2, r)' => 1 # 2 /\ Stage(1, r) /\ ~Stage(1, r)' BY <3>1, <3>2
    <3>9. QED BY <1>3, <2>2, <3>6, <3>7, <3>8, PingMoves, SixStages
  <2>4. CASE ~IsHead(q, "Ping")
    <3>1. Carries(wire'[p], "Ping") => Carries(wire[p], "Ping") BY <1>1, <1>2, <2>4, CarryAppend
    <3>2. Stage(2, r)' => Stage(2, r) BY <1>5, <3>1 DEF Stage
    <3>3. Alone(wire[p], "Ping") BY <1>5 DEF OnePing
    <3>4. Alone(wire'[p], "Ping") BY <1>1, <1>2, <2>4, <3>3, CarryAppend
    <3>5. Alone(wire[Peer(r)], "Ping")' BY <1>5, <3>4
    <3>6. \A c \in 1..6 : Stage(c, r)' => Stage(c, r) BY <2>1, <3>2, SixStages
    <3>7. QED BY <1>3, <2>2, <3>5, <3>6, PingMoves, SixStages
  <2>5. QED BY <2>3, <2>4
<1>6. CASE r = p
  <2>1. /\ Stage(1, r)' => Stage(1, r)
        /\ Stage(2, r)' => Stage(2, r)
        /\ Stage(3, r)' => Stage(3, r)
        /\ Stage(4, r)' => Stage(4, r) /\ ~IsHead(q, "Pong")
        /\ Stage(6, r)' => Stage(6, r)
    BY <1>0, <1>1, <1>6 DEF Stage
  <2>2. Alone(wire[Peer(r)], "Ping")' BY <1>0, <1>1, <1>6 DEF OnePing
  <2>3. CASE IsHead(q, "Pong")
    <3>1. Stage(4, r) BY <1>0, <1>6, <2>3 DEF Stage
    <3>2. ~Stage(4, r)' BY <2>1, <2>3
    <3>3. ~Stage(5, r) BY <3>1, SixStages DEF OnePing
    <3>4. ~Carries(wire[p], "Pong") BY <1>6, <3>3 DEF Stage
    <3>5. Alone(wire'[p], "Pong") BY <1>1, <1>2, <3>4, CarryAppend
    <3>6. Alone(wire[r], "Pong")' BY <1>6, <3>5
    <3>7. \A c \in 1..6 : c # 5 => (Stage(c, r)' => Stage(c, r)) BY <2>1, SixStages
    <3>8. Stage(5, r)' => 4 # 5 /\ Stage(4, r) /\ ~Stage(4, r)' BY <3>1, <3>2
    <3>9. QED BY <1>3, <2>2, <3>6, <3>7, <3>8, PingMoves, SixStages
  <2>4. CASE ~IsHead(q, "Pong")
    <3>1. Carries(wire'[p], "Pong") => Carries(wire[p], "Pong") BY <1>1, <1>2, <2>4, CarryAppend
    <3>2. Stage(5, r)' => Stage(5, r) BY <1>6, <3>1 DEF Stage
    <3>3. Alone(wire[p], "Pong") BY <1>6 DEF OnePing
    <3>4. Alone(wire'[p], "Pong") BY <1>1, <1>2, <2>4, <3>3, CarryAppend
    <3>5. Alone(wire[r], "Pong")' BY <1>6, <3>4
    <3>6. \A c \in 1..6 : Stage(c, r)' => Stage(c, r) BY <2>1, <3>2, SixStages
    <3>7. QED BY <1>3, <2>2, <3>5, <3>6, PingMoves, SixStages
  <2>5. QED BY <2>3, <2>4
<1>7. QED BY <1>0, <1>5, <1>6

LEMMA WriteSafe ==
  ASSUME TypeOK, \A d \in End : HeldOK(d), \A d \in End : EndOK(d), NEW e \in End, Write(e), ~Disturbed'
  PROVE  \A d \in End : EndOK(d)'
<1> DEFINE p == Peer(e)
           q == out[e][1]
<1>0. p \in End /\ p # e /\ Peer(p) = e /\ \A d \in End : d = e \/ d = p BY PeerFacts
<1>1. out[e] \in Seq(PartOfFrame) /\ bout[e] \in Seq(PartOfFrame) /\ out[e] # <<>> BY PrevKind DEF Write
<1>2. OutOK(out[e], e) /\ BoutOK(bout[e], e) /\ OutOK(out[p], p) /\ BoutOK(bout[p], p) BY <1>0 DEF EndOK
<1>3. CASE Put(e, Head(out[e])) /\ out' = [out EXCEPT ![e] = Tail(@)]
           /\ mixed' = (mixed \/ Open(bout[e])) /\ parted' = (parted \/ BetweenFragments(out[e]))
           /\ UNCHANGED <<pc, cause, held>>
  <2>1. ~Open(bout[e]) /\ ~BetweenFragments(out[e]) BY <1>3 DEF Disturbed
  <2>2. /\ OutOK(Tail(out[e]), e) /\ PartOK(q) /\ Head(out[e]) = q
        /\ ~Starts(Tail(out[e]), "Ping") /\ ~Starts(Tail(out[e]), "Pong")
        /\ IsHead(q, "Ping") => Starts(out[e], "Ping")
        /\ IsHead(q, "Pong") => Starts(out[e], "Pong")
    BY <1>1, <1>2, <2>1, OutTail
  <2>3. q \in SoundPart /\ Put(e, q)
    <3>1. out[e] \in Seq(SoundPart) BY DEF TypeOK
    <3>2. QED BY <1>1, <1>3, <2>2, <3>1, TailTypes
  <2>4. out'[e] = Tail(out[e]) /\ out'[p] = out[p] BY <1>0, <1>3 DEF TypeOK
  <2>5. UNCHANGED <<bout, got, first, content, held, recvd, pc, cause, odd>> BY <1>3 DEF Write, readVars
  <2>a. wire'[e] = wire[e] /\ texts'[p] = texts[p] /\ due'[p] = due[p] BY <1>0, <2>3 DEF Put, TypeOK
  <2> HIDE DEF q
  <2>b. IsHead(q, "Ping") \/ IsHead(q, "Pong") => out'[e] # out[e] BY <2>2, <2>4
  <2>6. \A r \in End : OnePing(r) => OnePing(r)'
    BY <2>2, <2>3, <2>4, <2>5, <2>b, PingsWritten
  <2>7. EndOK(e)'
    <3>1. OutOK(out[e], e)' /\ BoutOK(bout[e], e)' BY <1>2, <2>2, <2>4, <2>5
    <3>2. Verdict(e)' BY <2>5, <2>a, VerdictFrame DEF EndOK
    <3>3. ASSUME ~Ended(e)' PROVE Direction(e)'
      <4>1. Direction(e) BY <2>5, <3>3 DEF Ended, EndOK
      <4>2. /\ Stream(e)' /\ InHand(e)'
            /\ Counted(wire[e], texts[Peer(e)], Taken(e), due[Peer(e)], first[e] = "Close")'
        BY <2>4, <2>5, <2>a, <4>1, DirectionFrame DEF Direction
      <4>3. Answers(e)' BY <2>5, <2>6, <4>1, AnswersKept DEF Direction
      <4>4. QED BY <4>2, <4>3 DEF Direction
    <3>4. QED BY <3>1, <3>2, <3>3 DEF EndOK
  <2>8. EndOK(p)'
    <3>1. OutOK(out[p], p)' /\ BoutOK(bout[p], p)' BY <1>2, <2>4, <2>5
    <3>2. Verdict(p)' BY <1>0, <2>3, <2>5, VerdictSent DEF EndOK
    <3>3. ASSUME ~Ended(p)' PROVE Direction(p)'
      <4>1. Direction(p) BY <1>0, <2>5, <3>3 DEF Ended, EndOK
      <4>2. Linked(Tip(Prev(p), wire[p]), out[e], bout[e]) BY <1>0, <4>1 DEF Direction, Stream
      <4>3. Follows(Tip(Prev(p), wire[p]), q) /\ Linked(q, Tail(out[e]), bout[e])
        BY <1>1, <1>2, <2>1, <4>2, LinkedWrites DEF q
      <4>4. /\ ReadOK(p)' /\ InHand(p)'
            /\ Chained(Prev(p), wire[p])' /\ Tip(Prev(p), wire[p])' = q
            /\ Counted(wire[p], texts[Peer(p)], Taken(p), due[Peer(p)], first[p] = "Close")'
        BY <1>0, <2>2, <2>3, <2>5, <4>1, <4>3, Arrives
      <4>5. Linked(Tip(Prev(p), wire[p]), out[Peer(p)], bout[Peer(p)])'
        BY <1>0, <2>4, <2>5, <4>3, <4>4
      <4>6. Answers(p)' BY <1>0, <2>5, <2>6, <4>1, AnswersKept DEF Direction
      <4>7. QED BY <4>4, <4>5, <4>6 DEF Direction, Stream
    <3>4. QED BY <3>1, <3>2, <3>3 DEF EndOK
  <2>9. QED BY <1>0, <2>7, <2>8
<1>4. CASE Ended(p) /\ out' = [out EXCEPT ![e] = <<>>]
           /\ (IF Ended(e) THEN UNCHANGED <<pc, cause, held>>
               ELSE /\ pc' = [pc EXCEPT ![e] = "failed"]
                    /\ cause' = [cause EXCEPT ![e] = "io"]
                    /\ held' = held)
           /\ UNCHANGED <<wire, texts, due, mixed, parted>>
  <2>1. out'[e] = <<>> /\ out'[p] = out[p] BY <1>0, <1>4 DEF TypeOK
  <2>2. UNCHANGED <<wire, texts, due, bout, got, first, content, held, recvd, odd>> BY <1>4 DEF Write, readVars
  <2>3. Ended(e)' /\ Ended(p)' /\ cause'[p] = cause[p] /\ (cause'[e] = cause[e] \/ cause'[e] = "io")
    BY <1>0, <1>4 DEF Ended, TypeOK
  <2>4. Verdict(p)' BY <1>0, <2>2, <2>3, VerdictFrame DEF EndOK
  <2>5. Verdict(e)' BY <2>2, <2>3 DEF EndOK, Verdict
  <2>6. OutOK(<<>>, e) BY DEF OutOK, AllOK
  <2>7. EndOK(e)' BY <1>2, <2>1, <2>2, <2>3, <2>5, <2>6 DEF EndOK
  <2>8. EndOK(p)' BY <1>0, <1>2, <2>1, <2>2, <2>3, <2>4 DEF EndOK
  <2>9. QED BY <1>0, <2>7, <2>8
<1>5. QED BY <1>3, <1>4 DEF Write

LEMMA WriteBroadcastSafe ==
  ASSUME TypeOK, \A d \in End : HeldOK(d), \A d \in End : EndOK(d), NEW e \in End, WriteBroadcast(e), ~Disturbed'
  PROVE  \A d \in End : EndOK(d)'
<1> DEFINE p == Peer(e)
           q == bout[e][1]
<1>0. p \in End /\ p # e /\ Peer(p) = e /\ \A d \in End : d = e \/ d = p BY PeerFacts
<1>1. out[e] \in Seq(PartOfFrame) /\ bout[e] \in Seq(PartOfFrame) /\ bout[e] # <<>> BY PrevKind DEF WriteBroadcast
<1>2. OutOK(out[e], e) /\ BoutOK(bout[e], e) /\ OutOK(out[p], p) /\ BoutOK(bout[p], p) BY <1>0 DEF EndOK
<1>a. UNCHANGED <<out, got, first, content, held, recvd, pc, cause, parted, odd>> BY DEF WriteBroadcast, readVars
<1>3. CASE Put(e, Head(bout[e])) /\ bout' = [bout EXCEPT ![e] = Tail(@)]
           /\ mixed' = (mixed \/ Open(out[e]))
  <2>1. ~Open(out[e]) BY <1>3 DEF Disturbed
  <2>3. q \in SoundPart /\ Put(e, q) /\ Head(bout[e]) = q
    <3>1. bout[e] \in Seq(SoundPart) BY DEF TypeOK
    <3>2. QED BY <1>1, <1>3, <3>1, TailTypes
  <2>4. bout'[e] = Tail(bout[e]) /\ bout'[p] = bout[p] BY <1>0, <1>3 DEF TypeOK
  <2>a. wire'[e] = wire[e] /\ texts'[p] = texts[p] /\ due'[p] = due[p] BY <1>0, <2>3 DEF Put, TypeOK
  <2>b. PartOK(q) /\ q.op = "Text"
    <3>1. 1 \in 1..Len(bout[e]) BY <1>1, TailFacts
    <3>2. QED BY <1>2, <3>1 DEF BoutOK, AllOK
  <2>c. BoutOK(Tail(bout[e]), e) BY <1>1, <1>2, BoutTail
  <2> HIDE DEF q
  <2>d. ~IsHead(q, "Ping") /\ ~IsHead(q, "Pong") BY <2>b DEF IsHead
  <2>6. \A r \in End : OnePing(r) => OnePing(r)'
    BY <1>a, <2>3, <2>d, PingsWritten
  <2>7. EndOK(e)'
    <3>1. OutOK(out[e], e)' /\ BoutOK(bout[e], e)' BY <1>2, <1>a, <2>c, <2>4
    <3>2. Verdict(e)' BY <1>a, <2>a, VerdictFrame DEF EndOK
    <3>3. ASSUME ~Ended(e)' PROVE Direction(e)'
      <4>1. Direction(e) BY <1>a, <3>3 DEF Ended, EndOK
      <4>2. /\ Stream(e)' /\ InHand(e)'
            /\ Counted(wire[e], texts[Peer(e)], Taken(e), due[Peer(e)], first[e] = "Close")'
        BY <2>4, <1>a, <2>a, <4>1, DirectionFrame DEF Direction
      <4>3. Answers(e)' BY <1>a, <2>6, <4>1, AnswersKept DEF Direction
      <4>4. QED BY <4>2, <4>3 DEF Direction
    <3>4. QED BY <3>1, <3>2, <3>3 DEF EndOK
  <2>8. EndOK(p)'
    <3>1. OutOK(out[p], p)' /\ BoutOK(bout[p], p)' BY <1>2, <1>a, <2>4
    <3>2. Verdict(p)' BY <1>0, <1>a, <2>3, VerdictSent DEF EndOK
    <3>3. ASSUME ~Ended(p)' PROVE Direction(p)'
      <4>1. Direction(p) BY <1>0, <1>a, <3>3 DEF Ended, EndOK
      <4>2. Linked(Tip(Prev(p), wire[p]), out[e], bout[e]) BY <1>0, <4>1 DEF Direction, Stream
      <4>3. Follows(Tip(Prev(p), wire[p]), q) /\ Linked(q, out[e], Tail(bout[e]))
        BY <1>1, <1>2, <2>1, <4>2, LinkedBroadcasts DEF q
      <4>4. /\ ReadOK(p)' /\ InHand(p)'
            /\ Chained(Prev(p), wire[p])' /\ Tip(Prev(p), wire[p])' = q
            /\ Counted(wire[p], texts[Peer(p)], Taken(p), due[Peer(p)], first[p] = "Close")'
        BY <1>0, <1>a, <2>b, <2>3, <4>1, <4>3, Arrives
      <4>5. Linked(Tip(Prev(p), wire[p]), out[Peer(p)], bout[Peer(p)])'
        BY <1>0, <1>a, <2>4, <4>3, <4>4
      <4>6. Answers(p)' BY <1>0, <1>a, <2>6, <4>1, AnswersKept DEF Direction
      <4>7. QED BY <4>4, <4>5, <4>6 DEF Direction, Stream
    <3>4. QED BY <3>1, <3>2, <3>3 DEF EndOK
  <2>9. QED BY <1>0, <2>7, <2>8
<1>4. CASE Ended(p) /\ bout' = [bout EXCEPT ![e] = <<>>] /\ UNCHANGED <<wire, texts, due, mixed>>
  <2>1. bout'[e] = <<>> /\ bout'[p] = bout[p] BY <1>0, <1>4 DEF TypeOK
  <2>2. BoutOK(<<>>, e) BY DEF BoutOK, AllOK
  <2>3. \A d \in End : Verdict(d)' BY <1>4, <1>a, VerdictFrame, PeerFacts DEF EndOK
  <2>4. ASSUME ~Ended(e)' PROVE Direction(e)'
    <3>1. Direction(e) BY <1>a, <2>4 DEF Ended, EndOK
    <3>2. /\ Stream(e)' /\ InHand(e)'
          /\ Counted(wire[e], texts[Peer(e)], Taken(e), due[Peer(e)], first[e] = "Close")'
      BY <1>4, <1>a, <2>1, <3>1, DirectionFrame DEF Direction
    <3>3. Answers(e)'
      <4>1. OnePing(e) => OnePing(e)' BY <1>4, <1>a DEF OnePing, Stage, Waiting
      <4>2. QED BY <1>a, <3>1, <4>1, AnswersKept DEF Direction
    <3>4. QED BY <3>2, <3>3 DEF Direction
  <2>5. Ended(p)' BY <1>4, <1>a DEF Ended
  <2>6. EndOK(e)' BY <1>2, <1>a, <2>1, <2>2, <2>3, <2>4 DEF EndOK
  <2>7. EndOK(p)' BY <1>0, <1>2, <1>a, <2>1, <2>3, <2>5 DEF EndOK
  <2>8. QED BY <1>0, <2>6, <2>7
<1>5. QED BY <1>3, <1>4 DEF WriteBroadcast

-----------------------------------------------------------------------------
(* What an end begins. *)

(* An end that sends nothing begins the frame w.                           *)
LEMMA StreamStarts ==
  ASSUME TypeOK, NEW e \in End, Stream(Peer(e)), out[e] = <<>>,
         NEW w \in Seq(PartOfFrame), Fresh(w), out'[e] = w, bout'[e] = bout[e],
         LET p == Peer(e) IN wire'[p] = wire[p] /\ got'[p] = got[p] /\ first'[p] = first[p] /\ content'[p] = content[p]
  PROVE  Stream(Peer(e))'
<1> DEFINE p == Peer(e)
<1>0. p \in End /\ Peer(p) = e BY PeerFacts
<1>1. Prev(p)' = Prev(p) BY DEF Prev
<1>2. ReadOK(p)' BY DEF Stream, ReadOK
<1>3. Linked(Tip(Prev(p), wire[p]), <<>>, bout[e]) BY <1>0 DEF Stream
<1>4. Linked(Tip(Prev(p), wire[p]), w, bout[e]) BY <1>3, LinkedStarts
<1>5. Linked(Tip(Prev(p), wire[p]), out[Peer(p)], bout[Peer(p)])' BY <1>0, <1>1, <1>4
<1>6. Chained(Prev(p), wire[p])' BY <1>1 DEF Stream
<1>7. QED BY <1>2, <1>5, <1>6 DEF Stream

(* The direction of what e sends, when e begins a frame or does not.       *)
LEMMA OtherDirection ==
  ASSUME TypeOK, NEW e \in End, Direction(Peer(e)), Answers(Peer(e))',
         LET p == Peer(e) IN
           /\ wire'[p] = wire[p] /\ got'[p] = got[p] /\ first'[p] = first[p] /\ content'[p] = content[p]
           /\ held'[p] = held[p] /\ recvd'[p] = recvd[p],
         texts'[e] = texts[e], due'[e] = due[e], bout'[e] = bout[e],
         out'[e] = out[e] \/ (out[e] = <<>> /\ out'[e] \in Seq(PartOfFrame) /\ Fresh(out'[e]))
  PROVE  Direction(Peer(e))'
<1> DEFINE p == Peer(e)
<1>0. p \in End /\ Peer(p) = e BY PeerFacts
<1>1. Counted(wire[p], texts[e], Taken(p), due[e], first[p] = "Close") /\ InHand(p) /\ Stream(p)
  BY <1>0 DEF Direction
<1>2. Taken(p)' = Taken(p) /\ Kept(p)' = Kept(p) BY DEF Taken, Kept
<1>3. Counted(wire[p], texts[Peer(p)], Taken(p), due[Peer(p)], first[p] = "Close")' BY <1>0, <1>1, <1>2
<1>4. InHand(p)' BY <1>0, <1>1, <1>2 DEF InHand
<1>5. Stream(p)'
  <2>1. CASE out'[e] = out[e]
    <3>1. Prev(p)' = Prev(p) /\ ReadOK(p)' BY <1>1 DEF Prev, Stream, ReadOK
    <3>2. QED BY <1>0, <1>1, <2>1, <3>1 DEF Stream
  <2>2. CASE out[e] = <<>> /\ out'[e] \in Seq(PartOfFrame) /\ Fresh(out'[e]) BY <1>1, <2>2, StreamStarts
  <2>3. QED BY <2>1, <2>2
<1>6. QED BY <1>3, <1>4, <1>5 DEF Direction

(* The pings while no end reads or writes.                                 *)
LEMMA PingsBegun ==
  ASSUME NEW e \in End, UNCHANGED <<wire, first>>, out'[Peer(e)] = out[Peer(e)],
         NEW r \in End, OnePing(r), ~Waiting(r)' => ~Waiting(r),
         ~Starts(out'[e], "Ping") \/ out'[e] = out[e],
         ~Starts(out'[e], "Pong") \/ out'[e] = out[e] \/ r = e
  PROVE  OnePing(r)'
<1>0. Peer(e) \in End /\ Peer(Peer(e)) = e /\ (r = e \/ r = Peer(e)) BY PeerFacts
<1>1. Alone(wire[Peer(r)], "Ping")' /\ Alone(wire[r], "Pong")' BY DEF OnePing
<1>2. /\ Stage(1, r)' => Stage(1, r)
      /\ Stage(2, r)' => Stage(2, r)
      /\ Stage(3, r)' => Stage(3, r)
      /\ Stage(4, r)' => Stage(4, r)
      /\ Stage(5, r)' => Stage(5, r)
      /\ Stage(6, r)' => Stage(6, r)
  BY <1>0 DEF Stage
<1>3. \A c \in 1..6 : Stage(c, r)' => Stage(c, r) BY <1>2, SixStages
<1>4. QED BY <1>1, <1>3, PingMoves, SixStages

LEMMA StartSafe ==
  ASSUME TypeOK, \A d \in End : HeldOK(d), \A d \in End : EndOK(d), NEW e \in End,
         SendText(e) \/ RecvText(e) \/ Close(e) \/ SendStray(e)
  PROVE  \A d \in End : EndOK(d)'
<1> DEFINE p == Peer(e)
<1>0. p \in End /\ p # e /\ Peer(p) = e /\ Peer(e) = p /\ \A d \in End : d = e \/ d = p BY PeerFacts
<1>1. UNCHANGED <<wire, bout, got, first, content, held, cause, texts, due, recvd>>
  BY DEF SendText, RecvText, Close, SendStray, CallKeeps, readVars, history
<1>2. out[e] = <<>> /\ pc[e] = "app" BY DEF SendText, RecvText, Close, SendStray, Calls
<1>3. pc'[p] = pc[p] /\ out'[p] = out[p] /\ ~Ended(e)
  BY <1>0, <1>2 DEF SendText, RecvText, Close, SendStray, TypeOK, Ended
<1>a. \A d \in End : odd[d] \subseteq odd'[d]
  <2>1. CASE SendText(e) \/ RecvText(e) \/ Close(e)
    <3>1. odd' = odd BY <2>1 DEF SendText, RecvText, Close, CallKeeps, history
    <3>2. QED BY <3>1
  <2>2. CASE SendStray(e)
    <3>1. PICK op \in Strays : odd' = [odd EXCEPT ![e] = @ \cup {op}] BY <2>2 DEF SendStray
    <3>2. odd \in [End -> SUBSET Strays] BY DEF TypeOK
    <3>3. QED BY <3>1, <3>2
  <2>3. QED BY <2>1, <2>2
<1>4. \/ out'[e] = out[e]
      \/ /\ out'[e] \in Seq(PartOfFrame) /\ OutOK(out'[e], e) /\ Fresh(out'[e])
         /\ ~Starts(out'[e], "Ping") /\ (~Starts(out'[e], "Pong") \/ "Pong" \in odd'[e])
  <2>1. CASE SendText(e)
    <3>1. made[e] + 1 \in Nat BY DEF TypeOK
    <3>2. PICK form \in Forms(e, made[e] + 1) : out' = [out EXCEPT ![e] = form] BY <2>1 DEF SendText
    <3>3. OutOK(form, e) /\ Fresh(form) /\ IsHead(form[1], "Text") /\ form \in Seq(SoundPart)
      BY <3>1, <3>2, FormsOK
    <3>4. out'[e] = form BY <3>2 DEF TypeOK
    <3>5. ~Starts(form, "Ping") /\ ~Starts(form, "Pong") BY <3>3 DEF Starts, IsHead
    <3>6. QED BY <3>3, <3>4, <3>5, SoundInSet
  <2>2. CASE RecvText(e) BY <2>2 DEF RecvText
  <2>3. CASE Close(e)
    <3>1. out'[e] = Control("Close") BY <2>3 DEF Close, TypeOK
    <3>2. OutOK(out'[e], e) /\ Fresh(out'[e]) /\ IsHead(out'[e][1], "Close") /\ out'[e] \in Seq(SoundPart)
      BY <3>1, ControlOK
    <3>3. ~Starts(out'[e], "Ping") /\ ~Starts(out'[e], "Pong") BY <3>2 DEF Starts, IsHead
    <3>4. QED BY <3>2, <3>3, SoundInSet
  <2>4. CASE SendStray(e)
    <3>1. PICK op \in Strays : out' = [out EXCEPT ![e] = Control(op)] /\ odd' = [odd EXCEPT ![e] = @ \cup {op}]
      BY <2>4 DEF SendStray
    <3>2. out'[e] = Control(op) /\ op \in odd'[e] BY <3>1 DEF TypeOK
    <3>3. OutOK(out'[e], e) /\ Fresh(out'[e]) /\ IsHead(out'[e][1], op) /\ out'[e] \in Seq(SoundPart)
      BY <3>2, ControlOK
    <3>4. ~Starts(out'[e], "Ping") /\ (~Starts(out'[e], "Pong") \/ op = "Pong") BY <3>3 DEF Starts, IsHead, Strays
    <3>5. QED BY <3>2, <3>3, <3>4, SoundInSet
  <2>5. QED BY <2>1, <2>2, <2>3, <2>4
<1>5. \A r \in End : ~Waiting(r)' => ~Waiting(r) BY <1>0, <1>2, <1>3 DEF Waiting
<1>6. ASSUME NEW r \in End, Answers(r) PROVE Answers(r)'
  <2>1. odd[Peer(r)] \subseteq odd'[Peer(r)] BY <1>0, <1>a, PeerFacts
  <2>2. CASE "Pong" \in odd'[Peer(r)] BY <2>2 DEF Answers
  <2>3. CASE "Pong" \notin odd'[Peer(r)]
    <3>1. ~Starts(out'[e], "Pong") \/ out'[e] = out[e] \/ r = e BY <1>0, <1>4, <2>3
    <3>2. ~Starts(out'[e], "Ping") \/ out'[e] = out[e] BY <1>4
    <3>3. OnePing(r) => OnePing(r)' BY <1>1, <1>3, <1>5, <3>1, <3>2, PingsBegun
    <3>4. QED BY <1>6, <2>1, <3>3, AnswersKept
  <2>4. QED BY <2>2, <2>3
<1>7. \A r \in End : Verdict(r)' BY <1>1, <1>a, VerdictFrame, PeerFacts DEF EndOK
<1>8. EndOK(e)'
  <2>1. Direction(e) BY <1>3 DEF EndOK
  <2>2. /\ Stream(e)' /\ InHand(e)'
        /\ Counted(wire[e], texts[Peer(e)], Taken(e), due[Peer(e)], first[e] = "Close")'
    BY <1>1, <1>3, <2>1, DirectionFrame DEF Direction
  <2>3. Answers(e)' BY <1>6, <2>1 DEF Direction
  <2>4. OutOK(out[e], e)' /\ BoutOK(bout[e], e)' BY <1>1, <1>4 DEF EndOK
  <2>5. QED BY <1>7, <2>2, <2>3, <2>4 DEF EndOK, Direction
<1>9. EndOK(p)'
  <2>1. OutOK(out[p], p)' /\ BoutOK(bout[p], p)' BY <1>0, <1>1, <1>3 DEF EndOK
  <2>2. ASSUME ~Ended(p)' PROVE Direction(p)'
    <3>1. Direction(p) BY <1>0, <1>3, <2>2 DEF EndOK, Ended
    <3>2. Answers(p)' BY <1>0, <1>6, <3>1 DEF Direction
    <3>3. QED BY <1>0, <1>1, <1>2, <1>4, <3>1, <3>2, OtherDirection
  <2>3. QED BY <1>0, <1>7, <2>1, <2>2 DEF EndOK
<1>10. QED BY <1>0, <1>8, <1>9

LEMMA BroadcastSafe ==
  ASSUME TypeOK, \A d \in End : HeldOK(d), \A d \in End : EndOK(d), NEW e \in Broadcasting, e \in End, Broadcast(e)
  PROVE  \A d \in End : EndOK(d)'
<1> DEFINE p == Peer(e)
           w == Whole(made[e] + 1)
<1>0. p \in End /\ p # e /\ Peer(p) = e /\ Peer(e) = p /\ \A d \in End : d = e \/ d = p BY PeerFacts
<1>1. UNCHANGED <<wire, out, pc, got, first, content, held, cause, texts, due, recvd, odd>>
  BY DEF Broadcast, readVars, history
<1>2. bout[e] = <<>> /\ bout'[e] = w /\ bout'[p] = bout[p] BY <1>0 DEF Broadcast, TypeOK
<1>3. w \in Seq(PartOfFrame) /\ Fresh(w) /\ BoutOK(w, e)
  <2>1. made[e] + 1 \in Nat BY DEF TypeOK
  <2>2. QED BY <2>1, WholeOK, SoundInSet
<1> HIDE DEF w
<1>4. \A r \in End : OnePing(r) => OnePing(r)' BY <1>1 DEF OnePing, Stage, Waiting
<1>5. \A r \in End : Verdict(r)' BY <1>1, VerdictFrame DEF EndOK
<1>6. EndOK(e)'
  <2>1. OutOK(out[e], e)' /\ BoutOK(bout[e], e)' BY <1>1, <1>2, <1>3 DEF EndOK
  <2>2. ASSUME ~Ended(e)' PROVE Direction(e)'
    <3>1. Direction(e) BY <1>1, <2>2 DEF EndOK, Ended
    <3>2. /\ Stream(e)' /\ InHand(e)'
          /\ Counted(wire[e], texts[Peer(e)], Taken(e), due[Peer(e)], first[e] = "Close")'
      BY <1>1, <1>2, <3>1, DirectionFrame DEF Direction
    <3>3. QED BY <1>1, <1>4, <3>1, <3>2, AnswersKept DEF Direction
  <2>3. QED BY <1>5, <2>1, <2>2 DEF EndOK
<1>7. EndOK(p)'
  <2>1. OutOK(out[p], p)' /\ BoutOK(bout[p], p)' BY <1>0, <1>1, <1>2 DEF EndOK
  <2>2. ASSUME ~Ended(p)' PROVE Direction(p)'
    <3>1. Direction(p) BY <1>0, <1>1, <2>2 DEF EndOK, Ended
    <3>2. Answers(p)' BY <1>0, <1>1, <1>4, <3>1, AnswersKept DEF Direction
    <3>3. Counted(wire[p], texts[e], Taken(p), due[e], first[p] = "Close") /\ InHand(p) /\ Stream(p)
      BY <1>0, <3>1 DEF Direction
    <3>4. Counted(wire[Peer(e)], texts[Peer(p)], Taken(p), due[Peer(p)], first[p] = "Close")'
      BY <1>0, <1>1, <3>3 DEF Taken, Kept
    <3>5. InHand(p)' BY <1>1, <3>3 DEF InHand, Kept
    <3>6. Prev(p)' = Prev(p) /\ ReadOK(p)' BY <1>1, <3>3 DEF Prev, Stream, ReadOK
    <3>7. Linked(Tip(Prev(p), wire[p]), out[e], <<>>) BY <1>0, <1>2, <3>3 DEF Stream
    <3>8. Tip(Prev(p), wire[p]) \in PartOfFrame /\ out[e] \in Seq(PartOfFrame) BY <1>0, PrevKind
    <3>9. Linked(Tip(Prev(p), wire[p]), out[e], w) BY <1>3, <3>7, <3>8, LinkedStartsBroadcast DEF EndOK
    <3>10. Linked(Tip(Prev(p), wire[p]), out[Peer(p)], bout[Peer(p)])' BY <1>0, <1>1, <1>2, <3>6, <3>9
    <3>11. Chained(Prev(p), wire[p])' BY <1>1, <3>3, <3>6 DEF Stream
    <3>12. QED BY <3>2, <3>4, <3>5, <3>6, <3>10, <3>11 DEF Direction, Stream
  <2>3. QED BY <1>0, <1>5, <2>1, <2>2 DEF EndOK
<1>8. QED BY <1>0, <1>6, <1>7

-----------------------------------------------------------------------------
(* What an end reads. *)

(* A head read whole.                                                      *)
LEMMA HeadRead ==
  ASSUME NEW e, ReadHead(e), e \notin astray'
  PROVE  \/ /\ Head(wire[e]).part = "head" /\ Fits(e, Head(wire[e]).op)
            /\ got' = [got EXCEPT ![e] = Head(wire[e])]
            /\ first' = [first EXCEPT ![e] = FirstOpCode(e, Head(wire[e]).op)]
            /\ UNCHANGED <<pc, cause>>
         \/ /\ ~(Head(wire[e]).part = "head" /\ Fits(e, Head(wire[e]).op))
            /\ Throws(e, "protocol") /\ UNCHANGED <<got, first>>
BY DEF ReadHead

(* A head that is not bad fits: recvPacket does not throw.                 *)
LEMMA HeadFits ==
  ASSUME TypeOK, NEW e \in End, Direction(e), ReadHead(e), e \notin astray', wire[e][1].op # "Bad"
  PROVE  /\ wire[e] \in Seq(PartOfFrame) /\ wire[e] # <<>> /\ got[e] = None
         /\ wire[e][1] \in PartOfFrame /\ PartOK(wire[e][1]) /\ wire[e][1].part = "head"
         /\ wire'[e] = Tail(wire[e]) /\ wire'[Peer(e)] = wire[Peer(e)]
         /\ got'[e] = wire[e][1] /\ got'[Peer(e)] = got[Peer(e)] /\ first'[Peer(e)] = first[Peer(e)]
         /\ \/ first[e] = None /\ content[e] = <<>> /\ first'[e] = wire[e][1].op /\ wire[e][1].op # "Cont"
            \/ first[e] = "Text" /\ first'[e] = "Text" /\ wire[e][1].op = "Cont" /\ content[e] = wire[e][1].data
         /\ UNCHANGED <<pc, cause, out, bout, content, held, recvd, texts, due, odd>>
<1> DEFINE h == wire[e][1]
<1>0. Peer(e) \in End /\ Peer(e) # e BY PeerFacts
<1>1. wire[e] \in Seq(PartOfFrame) /\ wire[e] # <<>> /\ got[e] = None BY PrevKind DEF ReadHead
<1>2. Head(wire[e]) = h /\ h \in PartOfFrame /\ 1 \in 1..Len(wire[e]) BY <1>1, TailFacts
<1>3. PartOK(h) /\ Follows(Prev(e), h) BY <1>1, <1>2 DEF Direction, Stream, Chained, AllOK
<1>4. Prev(e) = Part("content", IF first[e] = None THEN "Pong" ELSE "Text", first[e] = None, content[e])
  BY <1>1 DEF Prev
<1>5. /\ Prev(e).part = "content" /\ Prev(e).fin = (first[e] = None) /\ Prev(e).data = content[e]
  BY <1>4, PartFields
<1>6. h.part = "head" BY <1>3, <1>5 DEF Follows
<1>7. \/ first[e] = None /\ content[e] = <<>>
      \/ first[e] = "Text"
  BY <1>1 DEF Direction, Stream, ReadOK
<1>8. first[e] = None => h.op # "Cont" BY <1>3, <1>5 DEF Follows
<1>9. first[e] # None => h.op = "Cont" /\ h.data = content[e]
  <2>1. SUFFICES ASSUME first[e] # None PROVE h.op = "Cont" /\ h.data = content[e] OBVIOUS
  <2>2. ~Prev(e).fin BY <1>5, <2>1
  <2>3. QED BY <1>3, <1>5, <2>2 DEF Follows
<1>10. Fits(e, h.op) BY <1>9 DEF Fits
<1>11. /\ got' = [got EXCEPT ![e] = h] /\ first' = [first EXCEPT ![e] = FirstOpCode(e, h.op)]
       /\ UNCHANGED <<pc, cause>>
  BY <1>2, <1>6, <1>10, HeadRead
<1>12. /\ wire' = [wire EXCEPT ![e] = Tail(@)]
       /\ UNCHANGED <<out, content, held, recvd, bout, texts, due, odd>>
  BY DEF ReadHead, ReadKeeps
<1>13. /\ wire'[e] = Tail(wire[e]) /\ wire'[Peer(e)] = wire[Peer(e)]
       /\ got'[e] = h /\ got'[Peer(e)] = got[Peer(e)]
       /\ first'[e] = FirstOpCode(e, h.op) /\ first'[Peer(e)] = first[Peer(e)]
  BY <1>0, <1>11, <1>12 DEF TypeOK
<1>14. first[e] = None => FirstOpCode(e, h.op) = h.op BY DEF FirstOpCode
<1>15. first[e] = "Text" => FirstOpCode(e, h.op) = "Text" BY <1>9, NoneDiffers DEF FirstOpCode, Data
<1>16. \/ first[e] = None /\ content[e] = <<>> /\ first'[e] = h.op /\ h.op # "Cont"
       \/ first[e] = "Text" /\ first'[e] = "Text" /\ h.op = "Cont" /\ content[e] = h.data
  BY <1>7, <1>8, <1>9, <1>13, <1>14, <1>15, NoneDiffers
<1> HIDE DEF h
<1>17. QED BY <1>1, <1>2, <1>3, <1>6, <1>11, <1>12, <1>13, <1>16 DEF h

(* The ping or the pong of either end moves on when its head is read.      *)
LEMMA PingsHeadRead ==
  ASSUME TypeOK, NEW e \in End, Direction(e), ReadHead(e), e \notin astray', wire[e][1].op # "Bad",
         NEW r \in End, OnePing(r)
  PROVE  OnePing(r)'
<1> DEFINE p == Peer(e)
           h == wire[e][1]
<1>0. p \in End /\ Peer(p) = e /\ (r = e \/ r = p) BY PeerFacts
<1>1. /\ wire[e] \in Seq(PartOfFrame) /\ wire[e] # <<>> /\ h.part = "head"
      /\ wire'[e] = Tail(wire[e]) /\ wire'[p] = wire[p] /\ first'[p] = first[p]
      /\ UNCHANGED <<pc, out>>
      /\ (first'[e] = h.op /\ h.op # "Cont") \/ (first'[e] = "Text")
  BY HeadFits
<1> HIDE DEF h
<1>a. Waiting(r)' = Waiting(r) BY <1>1 DEF Waiting
<1>2. CASE r = e
  <2>1. Alone(wire[p], "Ping")' /\ Alone(wire[e], "Pong")' BY <1>1, <1>2, CarryTail DEF OnePing
  <2>2. ~Stage(6, e)' \/ (Stage(5, e) /\ ~Stage(5, e)')
    <3>1. SUFFICES ASSUME first'[e] = "Pong" PROVE Stage(5, e) /\ ~Stage(5, e)' BY DEF Stage
    <3>2. IsHead(h, "Pong") BY <1>1, <3>1 DEF IsHead
    <3>3. Carries(wire[e], "Pong") /\ ~Carries(Tail(wire[e]), "Pong")
      BY <1>1, <1>2, <3>2, CarryTail DEF OnePing, h
    <3>4. QED BY <1>1, <3>3 DEF Stage
  <2>3. Carries(Tail(wire[e]), "Pong") => Carries(wire[e], "Pong") BY <1>1, CarryTail
  <2>4. /\ Stage(1, e)' => Stage(1, e)
        /\ Stage(2, e)' => Stage(2, e)
        /\ Stage(3, e)' => Stage(3, e)
        /\ Stage(4, e)' => Stage(4, e)
        /\ Stage(5, e)' => Stage(5, e)
    BY <1>1, <2>3 DEF Stage
  <2>5. \A c \in 1..6 : c # 6 => (Stage(c, e)' => Stage(c, e)) BY <2>4, SixStages
  <2>6. QED BY <1>2, <1>a, <2>1, <2>2, <2>5, PingMoves, SixStages
<1>3. CASE r = p
  <2>1. Alone(wire[e], "Ping")' /\ Alone(wire[p], "Pong")' BY <1>0, <1>1, <1>3, CarryTail DEF OnePing
  <2>2. ~Stage(3, p)' \/ (Stage(2, p) /\ ~Stage(2, p)')
    <3>1. SUFFICES ASSUME first'[e] = "Ping" PROVE Stage(2, p) /\ ~Stage(2, p)' BY <1>0 DEF Stage
    <3>2. IsHead(h, "Ping") BY <1>1, <3>1 DEF IsHead
    <3>3. Carries(wire[e], "Ping") /\ ~Carries(Tail(wire[e]), "Ping")
      BY <1>0, <1>1, <1>3, <3>2, CarryTail DEF OnePing, h
    <3>4. QED BY <1>0, <1>1, <3>3 DEF Stage
  <2>3. Carries(Tail(wire[e]), "Ping") => Carries(wire[e], "Ping") BY <1>1, CarryTail
  <2>4. /\ Stage(1, p)' => Stage(1, p)
        /\ Stage(2, p)' => Stage(2, p)
        /\ Stage(4, p)' => Stage(4, p)
        /\ Stage(5, p)' => Stage(5, p)
        /\ Stage(6, p)' => Stage(6, p)
    BY <1>0, <1>1, <2>3 DEF Stage
  <2>5. \A c \in 1..6 : c # 3 => (Stage(c, p)' => Stage(c, p)) BY <2>4, SixStages
  <2>6. QED BY <1>0, <1>3, <1>a, <2>1, <2>2, <2>5, PingMoves, SixStages
<1>4. QED BY <1>0, <1>2, <1>3

(* The count of the messages after a head.                                 *)
LEMMA HeadCounted ==
  ASSUME TypeOK, NEW e \in End, Direction(e), ReadHead(e), e \notin astray', wire[e][1].op # "Bad"
  PROVE  /\ Counted(wire[e], texts[Peer(e)], Taken(e), due[Peer(e)], first[e] = "Close")'
         /\ InHand(e)'
<1> DEFINE h == wire[e][1]
           t == texts[Peer(e)]
           d == due[Peer(e)]
<1>1. /\ wire[e] \in Seq(PartOfFrame) /\ wire[e] # <<>> /\ h.part = "head" /\ h \in PartOfFrame
      /\ wire'[e] = Tail(wire[e]) /\ got'[e] = h
      /\ \/ first[e] = None /\ content[e] = <<>> /\ first'[e] = h.op /\ h.op # "Cont"
         \/ first[e] = "Text" /\ first'[e] = "Text" /\ h.op = "Cont" /\ content[e] = h.data
      /\ UNCHANGED <<held, recvd, texts, due>>
  BY HeadFits
<1>2. /\ t \in Seq(Nat) /\ Taken(e) \in Nat /\ Kept(e) \in Nat
      /\ first[e] = "Text" => Taken(e) = Kept(e) + 1
      /\ first[e] # "Text" => Taken(e) = Kept(e)
  BY TakenKind
<1>3. Counted(wire[e], t, Taken(e), d, first[e] = "Close") /\ InHand(e) BY DEF Direction
<1>4. got'[e] # None BY <1>1, NoneDiffers
<1>5. Kept(e)' = Kept(e) BY <1>1 DEF Kept
<1>6. /\ first'[e] = "Text" => Taken(e)' = Kept(e) + 1
      /\ first'[e] # "Text" => Taken(e)' = Kept(e)
  <2>1. Taken(e)' = Kept(e) + (IF first'[e] = "Text" THEN 1 ELSE 0) BY <1>5 DEF Taken
  <2>2. CASE first'[e] = "Text" BY <2>1, <2>2
  <2>3. CASE first'[e] # "Text" BY <1>2, <2>1, <2>3
  <2>4. QED BY <2>2, <2>3
<1>7. held'[e] # None => held'[e] = <<t[Len(recvd[e]) + 1], t[Len(recvd[e]) + 1]>>
  BY <1>1, <1>3 DEF InHand
<1>8. SUFFICES /\ Counted(Tail(wire[e]), t, Taken(e)', d, first'[e] = "Close")
               /\ first'[e] = "Text" => h.data[1] = t[Kept(e) + 1]
  BY <1>1, <1>4, <1>5, <1>7 DEF InHand
<1>9. CASE first[e] = "Text" /\ first'[e] = "Text" /\ h.op = "Cont" /\ content[e] = h.data
  <2>1. content[e] = <<t[Kept(e) + 1]>> BY <1>1, <1>3, <1>9 DEF InHand, ReadHead
  <2>2. h.data[1] = t[Kept(e) + 1] BY <1>9, <2>1
  <2>3. ~IsHead(h, "Text") /\ ~IsHead(h, "Close") BY <1>9 DEF IsHead
  <2>4. Counted(wire[e], t, Taken(e), d, FALSE) BY <1>3, <1>9
  <2>5. Counted(Tail(wire[e]), t, Taken(e), d, FALSE) BY <1>1, <1>2, <2>3, <2>4, CountedSkips DEF h
  <2>6. QED BY <1>2, <1>6, <1>9, <2>2, <2>5
<1>10. CASE first[e] = None /\ first'[e] = h.op /\ h.op # "Cont"
  <2>1. Taken(e) = Kept(e) BY <1>2, <1>10, NoneDiffers
  <2>2. Counted(wire[e], t, Kept(e), d, FALSE) BY <1>3, <1>10, <2>1, NoneDiffers
  <2>3. CASE h.op = "Text"
    <3>1. IsHead(h, "Text") BY <1>1, <2>3 DEF IsHead
    <3>2. h.data[1] = t[Kept(e) + 1] /\ Counted(Tail(wire[e]), t, Kept(e) + 1, d, FALSE)
      BY <1>1, <1>2, <2>2, <3>1, CountedTakes DEF h
    <3>3. QED BY <1>6, <1>10, <2>3, <3>2
  <2>4. CASE h.op = "Close"
    <3>1. IsHead(h, "Close") BY <1>1, <2>4 DEF IsHead
    <3>2. Counted(Tail(wire[e]), t, Kept(e), d, TRUE) BY <1>1, <1>2, <2>2, <3>1, CountedCloses DEF h
    <3>3. QED BY <1>6, <1>10, <2>4, <3>2
  <2>5. CASE h.op # "Text" /\ h.op # "Close"
    <3>1. ~IsHead(h, "Text") /\ ~IsHead(h, "Close") BY <2>5 DEF IsHead
    <3>2. Counted(Tail(wire[e]), t, Kept(e), d, FALSE) BY <1>1, <1>2, <2>2, <3>1, CountedSkips DEF h
    <3>3. QED BY <1>6, <1>10, <2>5, <3>2
  <2>6. QED BY <2>3, <2>4, <2>5
<1>11. QED BY <1>1, <1>9, <1>10

LEMMA HeadStream ==
  ASSUME TypeOK, NEW e \in End, Direction(e), ReadHead(e), e \notin astray', wire[e][1].op # "Bad"
  PROVE  Stream(e)'
<1> DEFINE h == wire[e][1]
<1>0. Peer(e) \in End BY PeerFacts
<1>1. /\ wire[e] \in Seq(PartOfFrame) /\ wire[e] # <<>> /\ h.part = "head" /\ h \in PartOfFrame /\ PartOK(h)
      /\ wire'[e] = Tail(wire[e]) /\ got'[e] = h
      /\ \/ first[e] = None /\ content[e] = <<>> /\ first'[e] = h.op /\ h.op # "Cont"
         \/ first[e] = "Text" /\ first'[e] = "Text" /\ h.op = "Cont" /\ content[e] = h.data
      /\ UNCHANGED <<out, bout, content>>
  BY HeadFits
<1>4. got'[e] # None BY <1>1, NoneDiffers
<1> HIDE DEF h
<1>5. Prev(e)' = h BY <1>1, <1>4 DEF Prev
<1>6. ReadOK(e)' BY <1>1, <1>4 DEF ReadOK
<1>7. /\ Chained(Prev(e), wire[e])
      /\ Linked(Tip(Prev(e), wire[e]), out[Peer(e)], bout[Peer(e)])
  BY DEF Direction, Stream
<1>8. NoStricter(h, h) BY DEF NoStricter
<1>9. Chained(h, Tail(wire[e])) /\ NoStricter(Tip(Prev(e), wire[e]), Tip(h, Tail(wire[e])))
  BY <1>1, <1>7, <1>8, Shrink DEF h
<1>10. Linked(Tip(h, Tail(wire[e])), out[Peer(e)], bout[Peer(e)]) BY <1>7, <1>9, LinkedEases
<1>11. QED BY <1>1, <1>5, <1>6, <1>9, <1>10 DEF Stream

(* The pings when a content is read: a ping is answered, a pong is taken.  *)
LEMMA PingsContentRead ==
  ASSUME NEW e \in End, wire[e] \in Seq(PartOfFrame), wire[e] # <<>>,
         wire'[e] = Tail(wire[e]), wire'[Peer(e)] = wire[Peer(e)], first'[Peer(e)] = first[Peer(e)],
         pc'[Peer(e)] = pc[Peer(e)], out'[Peer(e)] = out[Peer(e)],
         first'[e] = "Ping" => first[e] = "Ping", first'[e] = "Pong" => first[e] = "Pong",
         ~Starts(out'[e], "Ping"),
         Starts(out'[e], "Pong") => first[e] = "Ping" /\ first'[e] # "Ping",
         NEW r \in End, OnePing(r),
         r = e /\ ~Waiting(e)' => ~Waiting(e) \/ (first[e] = "Pong" /\ first'[e] # "Pong")
  PROVE  OnePing(r)'
<1> DEFINE p == Peer(e)
<1>0. p \in End /\ Peer(p) = e /\ (r = e \/ r = p) BY PeerFacts
<1>1. CASE r = e
  <2>1. Alone(wire[p], "Ping")' /\ Alone(wire[e], "Pong")' BY <1>1, CarryTail DEF OnePing
  <2>2. Carries(Tail(wire[e]), "Pong") => Carries(wire[e], "Pong") BY CarryTail
  <2>3. /\ Stage(1, e)' => Stage(1, e)
        /\ Stage(2, e)' => Stage(2, e)
        /\ Stage(3, e)' => Stage(3, e)
        /\ Stage(4, e)' => Stage(4, e)
        /\ Stage(5, e)' => Stage(5, e)
        /\ Stage(6, e)' => Stage(6, e)
    BY <2>2 DEF Stage
  <2>4. \A c \in 1..6 : Stage(c, e)' => Stage(c, e) BY <2>3, SixStages
  <2>5. ASSUME ~Waiting(e)', Waiting(e), NEW c \in 1..6 PROVE ~Stage(c, e)'
    <3>1. Stage(6, e) /\ ~Stage(6, e)' BY <1>1, <2>5 DEF Stage
    <3>2. Stage(c, e) => c = 6 BY <1>1, <3>1, SixStages DEF OnePing
    <3>3. QED BY <2>4, <3>1, <3>2
  <2>6. QED BY <1>1, <2>1, <2>4, <2>5, PingMoves, SixStages
<1>2. CASE r = p
  <2>1. Alone(wire[e], "Ping")' /\ Alone(wire[p], "Pong")' BY <1>0, <1>2, CarryTail DEF OnePing
  <2>2. Carries(Tail(wire[e]), "Ping") => Carries(wire[e], "Ping") BY CarryTail
  <2>3. /\ Stage(1, p)' => Stage(1, p)
        /\ Stage(2, p)' => Stage(2, p)
        /\ Stage(3, p)' => Stage(3, p)
        /\ Stage(5, p)' => Stage(5, p)
        /\ Stage(6, p)' => Stage(6, p)
    BY <1>0, <2>2 DEF Stage
  <2>4. \A c \in 1..6 : c # 4 => (Stage(c, p)' => Stage(c, p)) BY <2>3, SixStages
  <2>5. Stage(4, p)' => Stage(3, p) /\ ~Stage(3, p)' BY <1>0 DEF Stage
  <2>6. ~Waiting(p)' => ~Waiting(p) BY DEF Waiting
  <2>7. QED BY <1>0, <1>2, <2>1, <2>4, <2>5, <2>6, PingMoves, SixStages
<1>3. QED BY <1>0, <1>1, <1>2

LEMMA ReadHeadSafe ==
  ASSUME TypeOK, \A d \in End : EndOK(d), NEW e \in End, ReadHead(e), e \notin astray', StraysOK(e)
  PROVE  \A d \in End : EndOK(d)'
<1> DEFINE p == Peer(e)
<1>0. p \in End /\ p # e /\ Peer(p) = e /\ \A d \in End : d = e \/ d = p BY PeerFacts
<1>1. ~Ended(e) /\ out[e] = <<>> BY DEF ReadHead, Reads, Ended
<1>2. Direction(e) BY <1>1 DEF EndOK
<1>3. CASE wire[e][1].op # "Bad"
  <2>1. /\ wire'[p] = wire[p] /\ got'[p] = got[p] /\ first'[p] = first[p]
        /\ UNCHANGED <<pc, cause, out, bout, content, held, recvd, texts, due, odd>>
    BY <1>2, <1>3, HeadFits
  <2>2. \A r \in End : OnePing(r) => OnePing(r)' BY <1>2, <1>3, PingsHeadRead
  <2>3. \A r \in End : Answers(r) => Answers(r)' BY <2>1, <2>2, AnswersKept
  <2>4. \A r \in End : Verdict(r)' BY <2>1, VerdictFrame DEF EndOK
  <2>5. \A r \in End : OutOK(out[r], r)' /\ BoutOK(bout[r], r)' BY <2>1 DEF EndOK
  <2>6. Direction(e)' BY <1>2, <1>3, <2>3, HeadCounted, HeadStream DEF Direction
  <2>7. ASSUME ~Ended(p)' PROVE Direction(p)'
    <3>1. Direction(p) BY <1>0, <2>1, <2>7 DEF EndOK, Ended
    <3>2. /\ Stream(p)' /\ InHand(p)'
          /\ Counted(wire[p], texts[Peer(p)], Taken(p), due[Peer(p)], first[p] = "Close")'
      BY <1>0, <2>1, <3>1, DirectionFrame DEF Direction
    <3>3. QED BY <1>0, <2>3, <3>1, <3>2 DEF Direction
  <2>8. EndOK(e)' /\ EndOK(p)' BY <1>0, <2>4, <2>5, <2>6, <2>7 DEF EndOK
  <2>9. QED BY <1>0, <2>8
<1>4. CASE wire[e][1].op = "Bad"
  <2>1. wire[e] \in Seq(PartOfFrame) /\ wire[e] # <<>> BY PrevKind DEF ReadHead
  <2>2. Head(wire[e]) = wire[e][1] BY <2>1, TailFacts
  <2>3. Throws(e, "protocol") /\ UNCHANGED <<got, first>> BY <1>4, <2>2, HeadRead DEF Fits
  <2>4. /\ wire' = [wire EXCEPT ![e] = Tail(@)]
        /\ UNCHANGED <<out, bout, content, held, recvd, texts, due, odd>>
    BY DEF ReadHead, ReadKeeps
  <2>5. "Bad" \in odd[p]
    <3>1. wire[e] \in Seq(Sent(e)) BY DEF StraysOK
    <3>2. wire[e][1] \in Sent(e) BY <2>1, <3>1, TailFacts
    <3>3. QED BY <1>4, <3>2 DEF Sent, Own
  <2>6. /\ wire'[e] = Tail(wire[e]) /\ wire'[p] = wire[p]
        /\ pc'[e] = "failed" /\ pc'[p] = pc[p] /\ cause'[e] = "protocol" /\ cause'[p] = cause[p]
    BY <1>0, <2>3, <2>4 DEF Throws, TypeOK
  <2>7. Ended(e)' BY <2>6 DEF Ended
  <2>8. Verdict(e)' BY <2>4, <2>5, <2>6 DEF EndOK, Verdict
  <2>9. Verdict(p)' BY <1>0, <2>4, <2>6, VerdictFrame DEF EndOK
  <2>10. \A r \in End : OutOK(out[r], r)' /\ BoutOK(bout[r], r)' BY <2>4 DEF EndOK
  <2>11. ASSUME ~Ended(p)' PROVE Direction(p)'
    <3>1. Direction(p) BY <1>0, <2>6, <2>11 DEF EndOK, Ended
    <3>2. ~Starts(out'[e], "Ping") /\ ~Starts(out'[e], "Pong") BY <1>1, <2>4 DEF Starts
    <3>3. OnePing(p) => OnePing(p)' BY <1>0, <2>1, <2>3, <2>4, <2>6, <3>2, PingsContentRead
    <3>4. Answers(p)' BY <2>4, <3>1, <3>3, AnswersKept DEF Direction
    <3>5. QED BY <2>3, <2>4, <2>6, <3>1, <3>4, OtherDirection
  <2>12. EndOK(e)' /\ EndOK(p)' BY <1>0, <2>7, <2>8, <2>9, <2>10, <2>11 DEF EndOK
  <2>13. QED BY <1>0, <2>12
<1>5. QED BY <1>3, <1>4

LEMMA ContentEnds ==
  ASSUME NEW p, NEW q, p.part = "content", q.part = "content", p.fin = q.fin, ~p.fin => p.data = q.data
  PROVE  NoStricter(p, q)
<1>1. p.part # "head" /\ q.part # "head" OBVIOUS
<1>2. ASSUME NEW x, Follows(p, x) PROVE Follows(q, x) BY <1>1, <1>2 DEF Follows
<1>3. Done(p) => Done(q) BY DEF Done
<1>4. QED BY <1>2, <1>3 DEF NoStricter

(* A content fits its head: recvPacket does not throw.                     *)
LEMMA ContentFits ==
  ASSUME TypeOK, NEW e \in End, Direction(e), ReadContent(e), e \notin astray
  PROVE  /\ wire[e] \in Seq(PartOfFrame) /\ wire[e] # <<>> /\ out[e] = <<>>
         /\ pc[e] \in {"recv", "pong", "onlyPong", "closing"}
         /\ got[e] # None /\ got[e] \in PartOfFrame /\ PartOK(got[e])
         /\ wire[e][1].part = "content" /\ wire[e][1].fin = got[e].fin /\ wire[e][1].data = got[e].data
         /\ wire'[e] = Tail(wire[e]) /\ wire'[Peer(e)] = wire[Peer(e)]
         /\ IF got[e].op = "Cont" THEN first[e] = "Text" /\ content[e] = got[e].data
            ELSE first[e] = got[e].op /\ content[e] = <<>>
         /\ UNCHANGED <<bout, texts, due, odd>>
         /\ Partial(e) \/ Final(e)
<1> DEFINE c == wire[e][1]
<1>0. Peer(e) \in End /\ Peer(e) # e BY PeerFacts
<1>1. /\ pc[e] \in {"recv", "pong", "onlyPong", "closing"} /\ out[e] = <<>>
      /\ got[e] \in SoundPart /\ wire[e] # <<>>
      /\ wire' = [wire EXCEPT ![e] = Tail(@)]
      /\ UNCHANGED <<bout, made, texts, due, mixed, parted, pings, odd>>
      /\ Misfit(e) \/ Partial(e) \/ Final(e)
  BY ContentCases
<1>2. wire[e] \in Seq(PartOfFrame) BY PrevKind
<1>3. got[e] \in PartOfFrame /\ got[e] # None BY <1>1, SoundInSet, NoneDiffers
<1>4. /\ got[e].part = "head" /\ PartOK(got[e])
      /\ IF got[e].op = "Cont" THEN first[e] = "Text" /\ content[e] = got[e].data
         ELSE first[e] = got[e].op /\ content[e] = <<>>
  BY <1>3 DEF Direction, Stream, ReadOK
<1>5. Prev(e) = got[e] BY <1>3 DEF Prev
<1>6. Follows(got[e], c) BY <1>1, <1>5 DEF Direction, Stream, Chained
<1>7. c = [got[e] EXCEPT !.part = "content"] BY <1>4, <1>6 DEF Follows
<1>8. c.part = "content" /\ c.op = got[e].op /\ c.fin = got[e].fin /\ c.data = got[e].data
  BY <1>3, <1>7 DEF PartOfFrame
<1>9. ~Misfit(e) BY <1>8 DEF Misfit
<1>10. wire'[e] = Tail(wire[e]) /\ wire'[Peer(e)] = wire[Peer(e)] BY <1>0, <1>1 DEF TypeOK
<1> HIDE DEF c
<1>11. QED BY <1>1, <1>2, <1>3, <1>4, <1>8, <1>9, <1>10 DEF c

(* The first fragment of a message is read.                                *)
LEMMA PartialSafe ==
  ASSUME TypeOK, \A d \in End : EndOK(d), NEW e \in End, ReadContent(e), e \notin astray, Partial(e)
  PROVE  \A d \in End : EndOK(d)'
<1> DEFINE p == Peer(e)
           g == got[e]
           t == texts[Peer(e)]
<1>0. p \in End /\ p # e /\ Peer(p) = e /\ \A d \in End : d = e \/ d = p BY PeerFacts
<1>1. Direction(e) BY DEF EndOK, ReadContent, Reads, Ended
<1>2. /\ wire[e] \in Seq(PartOfFrame) /\ wire[e] # <<>> /\ out[e] = <<>>
      /\ g # None /\ g \in PartOfFrame /\ PartOK(g)
      /\ wire[e][1].part = "content" /\ wire[e][1].fin = g.fin /\ wire[e][1].data = g.data
      /\ wire'[e] = Tail(wire[e]) /\ wire'[p] = wire[p]
      /\ IF g.op = "Cont" THEN first[e] = "Text" /\ content[e] = g.data
         ELSE first[e] = g.op /\ content[e] = <<>>
      /\ UNCHANGED <<bout, texts, due, odd>>
  BY <1>1, ContentFits
<1>3. /\ UNCHANGED <<out, pc, first, held, cause, recvd>>
      /\ got'[e] = None /\ got'[p] = got[p]
      /\ content'[e] = Appended(e, g.data) /\ content'[p] = content[p]
  BY <1>0, <1>2 DEF Partial, TypeOK
<1>4. ~g.fin BY <1>2 DEF Partial
<1> HIDE DEF g
<1>5. PICK m \in Nat : g.op = "Text" /\ g.data = <<m>>
  <2>1. g.op = "Text" BY <1>2, <1>4 DEF PartOK
  <2>2. QED BY <1>2, <1>4, <2>1 DEF PartOK
<1>6. first[e] = "Text" /\ content[e] = <<>> BY <1>2, <1>5
<1>7. content'[e] = <<m>> /\ g.data = <<m>>
  <2>1. content'[e] = <<>> \o <<m>> BY <1>3, <1>5, <1>6 DEF Appended
  <2>2. <<>> \o <<m>> = <<m>> OBVIOUS
  <2>3. QED BY <1>5, <2>1, <2>2
<1>8. m = t[Kept(e) + 1]
  <2>1. got[e].data[1] = t[Kept(e) + 1] BY <1>1, <1>2, <1>6 DEF Direction, InHand, g
  <2>2. <<m>>[1] = m OBVIOUS
  <2>3. QED BY <1>7, <2>1, <2>2 DEF g
<1>9. \A r \in End : OnePing(r) => OnePing(r)'
  <2>1. ~Starts(out'[e], "Ping") /\ ~Starts(out'[e], "Pong") BY <1>2, <1>3 DEF Starts
  <2>2. ~Waiting(e)' => ~Waiting(e) BY <1>3 DEF Waiting
  <2>3. QED BY <1>2, <1>3, <2>1, <2>2, PingsContentRead
<1>10. \A r \in End : Verdict(r)' BY <1>2, <1>3, VerdictFrame DEF EndOK
<1>11. \A r \in End : OutOK(out[r], r)' /\ BoutOK(bout[r], r)' BY <1>2, <1>3 DEF EndOK
<1>12. Stream(e)'
  <2>1. Prev(e)' = Part("content", "Text", FALSE, <<m>>)
    <3>1. first'[e] # None BY <1>3, <1>6, NoneDiffers
    <3>2. (first'[e] = None) = FALSE BY <3>1
    <3>3. QED BY <1>3, <1>7, <3>1, <3>2 DEF Prev
  <2>2. NoStricter(wire[e][1], Prev(e)')
    <3>1. Prev(e)'.part = "content" /\ Prev(e)'.fin = FALSE /\ Prev(e)'.data = <<m>> BY <2>1 DEF Part
    <3>2. wire[e][1].fin = FALSE
      <4>1. g.fin \in BOOLEAN BY <1>2, PartKinds
      <4>2. QED BY <1>2, <1>4, <4>1
    <3>3. QED BY <1>2, <1>7, <3>1, <3>2, ContentEnds
  <2>3. Chained(Prev(e), wire[e]) /\ Linked(Tip(Prev(e), wire[e]), out[p], bout[p])
    BY <1>1 DEF Direction, Stream
  <2>4. Chained(Prev(e)', Tail(wire[e])) /\ NoStricter(Tip(Prev(e), wire[e]), Tip(Prev(e)', Tail(wire[e])))
    BY <1>2, <2>2, <2>3, Shrink
  <2>5. Linked(Tip(Prev(e)', Tail(wire[e])), out[p], bout[p]) BY <2>3, <2>4, LinkedEases
  <2>6. ReadOK(e)' BY <1>3, <1>6, <1>7 DEF ReadOK
  <2>7. QED BY <1>2, <1>3, <2>4, <2>5, <2>6 DEF Stream
<1>13. Taken(e)' = Taken(e) /\ Kept(e)' = Kept(e) BY <1>3 DEF Taken, Kept
<1>14. Counted(wire[e], texts[Peer(e)], Taken(e), due[Peer(e)], first[e] = "Close")'
  <2>1. Counted(wire[e], t, Taken(e), due[p], first[e] = "Close") BY <1>1 DEF Direction
  <2>2. t \in Seq(Nat) /\ Taken(e) \in Nat BY TakenKind
  <2>3. ~IsHead(wire[e][1], "Text") /\ ~IsHead(wire[e][1], "Close") BY <1>2 DEF IsHead
  <2>4. Counted(Tail(wire[e]), t, Taken(e), due[p], first[e] = "Close") BY <1>2, <2>1, <2>2, <2>3, CountedSkips
  <2>5. QED BY <1>2, <1>3, <1>13, <2>4
<1>15. InHand(e)'
  <2>1. held[e] # None => held[e] = <<t[Len(recvd[e]) + 1], t[Len(recvd[e]) + 1]>>
    BY <1>1 DEF Direction, InHand
  <2>2. QED BY <1>2, <1>3, <1>7, <1>8, <1>13, <2>1 DEF InHand
<1>16. Direction(e)' BY <1>1, <1>2, <1>9, <1>12, <1>14, <1>15, AnswersKept DEF Direction
<1>17. ASSUME ~Ended(p)' PROVE Direction(p)'
  <2>1. Direction(p) BY <1>0, <1>3, <1>17 DEF EndOK, Ended
  <2>2. Answers(p)' BY <1>0, <1>2, <1>9, <2>1, AnswersKept DEF Direction
  <2>3. QED BY <1>0, <1>2, <1>3, <2>1, <2>2, OtherDirection
<1>18. EndOK(e)' /\ EndOK(p)' BY <1>0, <1>10, <1>11, <1>16, <1>17 DEF EndOK
<1>19. QED BY <1>0, <1>18

(* The message the last content completes is the next one.                 *)
LEMMA FinalData ==
  ASSUME TypeOK, NEW e \in End, StraysOK(e), Direction(e), ReadContent(e), e \notin astray, Final(e)
  PROVE  /\ first[e] \in {"Text", "Binary", "Ping", "Pong", "Close"}
         /\ first[e] = "Text" =>
              LET m == texts[Peer(e)][Kept(e) + 1] IN Appended(e, wire[e][1].data) = <<m, m>>
<1> DEFINE g == got[e]
           n == texts[Peer(e)][Kept(e) + 1]
<1>1. /\ g # None /\ g \in PartOfFrame /\ PartOK(g)
      /\ wire[e][1].fin = g.fin /\ wire[e][1].data = g.data
      /\ IF g.op = "Cont" THEN first[e] = "Text" /\ content[e] = g.data
         ELSE first[e] = g.op /\ content[e] = <<>>
  BY ContentFits
<1>2. g.fin BY <1>1 DEF Final
<1>3. first[e] = "Text" => g.data[1] = n BY <1>1 DEF Direction, InHand
<1>4. Appended(e, wire[e][1].data) = content[e] \o g.data BY <1>1 DEF Appended
<1> HIDE DEF g
<1>5. g.op \in Ops BY <1>1, PartKinds
<1>6. first[e] \in {"Text", "Binary", "Ping", "Pong", "Close"} BY <1>1, <1>5, NoneDiffers DEF Ops, Data, StraysOK
<1>7. ASSUME first[e] = "Text" PROVE content[e] \o g.data = <<n, n>>
  <2>1. CASE g.op = "Cont"
    <3>1. PICK m \in Nat : g.data = <<m>> BY <1>1, <2>1 DEF PartOK
    <3>2. <<m>>[1] = m /\ <<m>> \o <<m>> = <<m, m>> BY TwoFacts
    <3>3. m = n BY <1>3, <1>7, <3>1, <3>2
    <3>4. content[e] = <<m>> BY <1>1, <2>1, <3>1
    <3>5. content[e] \o g.data = <<m, m>> BY <3>1, <3>2, <3>4
    <3>6. QED BY <3>3, <3>5
  <2>2. CASE g.op # "Cont"
    <3>1. g.op = "Text" /\ content[e] = <<>> BY <1>1, <1>7, <2>2
    <3>2. PICK m \in Nat : g.data = <<m, m>> BY <1>1, <1>2, <3>1 DEF PartOK
    <3>3. <<m, m>>[1] = m /\ <<>> \o <<m, m>> = <<m, m>> OBVIOUS
    <3>4. m = n BY <1>3, <1>7, <3>2, <3>3
    <3>5. content[e] \o g.data = <<m, m>> BY <3>1, <3>2, <3>3
    <3>6. QED BY <3>4, <3>5
  <2>3. QED BY <2>1, <2>2
<1>8. QED BY <1>4, <1>6, <1>7

(* recvText returns the next message.                                      *)
LEMMA ReturnsNext ==
  ASSUME TypeOK, NEW e \in End, Verdict(e), NEW n \in Nat, n = Len(recvd[e]) + 1, n <= Len(texts[Peer(e)]),
         NEW data, data = <<texts[Peer(e)][n], texts[Peer(e)][n]>>,
         recvd'[e] = Append(recvd[e], data), texts' = texts
  PROVE  \A i \in 1..Len(recvd'[e]) :
           i <= Len(texts'[Peer(e)]) /\ recvd'[e][i] = <<texts'[Peer(e)][i], texts'[Peer(e)][i]>>
<1> DEFINE t == texts[Peer(e)]
<1>1. recvd[e] \in Seq(Seq(Nat)) BY DEF TypeOK
<1>2. /\ Len(recvd[e]) \in Nat /\ Len(recvd'[e]) = n /\ recvd'[e][n] = data
      /\ \A i \in 1..Len(recvd[e]) : recvd'[e][i] = recvd[e][i]
  BY <1>1
<1>3. \A i \in 1..Len(recvd[e]) : i <= Len(t) /\ recvd[e][i] = <<t[i], t[i]>> BY DEF Verdict
<1> HIDE DEF t
<1>4. ASSUME NEW i \in 1..Len(recvd'[e]) PROVE i <= Len(t) /\ recvd'[e][i] = <<t[i], t[i]>>
  <2>1. CASE i = n BY <1>2, <2>1 DEF t
  <2>2. CASE i # n
    <3>1. i \in 1..Len(recvd[e]) BY <1>2, <2>2
    <3>2. QED BY <1>2, <1>3, <3>1
  <2>3. QED BY <2>1, <2>2
<1>5. QED BY <1>4 DEF t

(* What a packet makes of the messages, by what recv or close did with it. *)
LEMMA FinalPacket ==
  ASSUME TypeOK, NEW e \in End, HeldOK(e), StraysOK(e), Verdict(e), Direction(e),
         ReadContent(e), e \notin astray, Final(e)
  PROVE  /\ LET p == Peer(e) IN
              /\ out'[p] = out[p] /\ pc'[p] = pc[p] /\ held'[p] = held[p]
              /\ cause'[p] = cause[p] /\ recvd'[p] = recvd[p]
         /\ \/ out'[e] = out[e]
            \/ first[e] = "Ping" /\ out'[e] = Control("Pong")
            \/ out'[e] = Control("Close")
         /\ Verdict(e)'
         /\ ~Ended(e)' =>
              /\ first[e] # "Close" /\ Kept(e)' = Taken(e)
              /\ ~Waiting(e)' => ~Waiting(e) \/ first[e] = "Pong"
              /\ LET n == texts[Peer(e)][Len(recvd'[e]) + 1] IN held'[e] # None => held'[e] = <<n, n>>
<1> DEFINE p == Peer(e)
           t == texts[Peer(e)]
           data == Appended(e, wire[e][1].data)
<1>0. p \in End /\ p # e BY PeerFacts
<1>1. UNCHANGED <<texts, due, odd>> /\ pc[e] \in {"recv", "pong", "onlyPong", "closing"} BY ContentFits
<1>2. /\ first[e] \in {"Text", "Binary", "Ping", "Pong", "Close"}
      /\ first[e] = "Text" => data = <<t[Kept(e) + 1], t[Kept(e) + 1]>>
  BY FinalData
<1>3. data \in Seq(Nat) BY ContentCases
<1> HIDE DEF data
<1>4. ~Ended(e) /\ cause[e] = None /\ (held[e] # None <=> pc[e] = "onlyPong") BY <1>1 DEF HeldOK, Ended
<1>5. /\ Len(recvd[e]) \in Nat /\ Kept(e) \in Nat /\ t \in Seq(Nat) /\ Taken(e) \in Nat
      /\ held[e] # None => Kept(e) = Len(recvd[e]) + 1
      /\ held[e] = None => Kept(e) = Len(recvd[e])
      /\ first[e] = "Text" => Taken(e) = Kept(e) + 1
      /\ first[e] # "Text" => Taken(e) = Kept(e)
  BY TakenKind
<1>6. /\ Taken(e) <= Len(t)
      /\ due[p] # None /\ first[e] = "Close" => due[p] = Taken(e)
      /\ first[e] = "Close" => due[p] # None
  <2>1. Counted(wire[e], t, Taken(e), due[p], first[e] = "Close") BY DEF Direction
  <2>2. first[e] = "Close" => due[p] # None BY <2>1 DEF Counted, Closed
  <2>3. QED BY <2>1, <2>2, TakenSent
<1>7. held[e] # None => held[e] = <<t[Len(recvd[e]) + 1], t[Len(recvd[e]) + 1]>> BY DEF Direction, InHand
<1>8. /\ \A i \in 1..Len(recvd[e]) : i <= Len(t) /\ recvd[e][i] = <<t[i], t[i]>>
  BY DEF Verdict
<1>9. ASSUME held'[e] = held[e], recvd'[e] = recvd[e] PROVE Kept(e)' = Kept(e) BY <1>9 DEF Kept
<1>10. \/ InClose(e, first[e]) \/ PingCame(e, first[e]) \/ CloseCame(e, first[e]) \/ Unwanted(e, first[e])
       \/ PongCame(e, first[e]) \/ TextFirst(e, first[e], data) \/ ThenPong(e, first[e]) \/ TextCame(e, first[e], data)
  BY <1>1, PacketCases DEF Final, data
<1>11. CASE InClose(e, first[e])
  <2>1. /\ pc' = [pc EXCEPT ![e] = "closed"] /\ UNCHANGED <<cause, held, recvd>>
        /\ out' = [out EXCEPT ![e] = Control("Close")] \/ out' = out
    BY <1>11 DEF InClose
  <2>2. Verdict(e)' BY <1>1, <2>1, VerdictFrame
  <2>3. Ended(e)' BY <2>1 DEF Ended, TypeOK
  <2>4. /\ out'[p] = out[p] /\ pc'[p] = pc[p] /\ held'[p] = held[p] /\ cause'[p] = cause[p] /\ recvd'[p] = recvd[p]
        /\ out'[e] = out[e] \/ out'[e] = Control("Close")
    BY <1>0, <2>1 DEF TypeOK
  <2>5. QED BY <2>2, <2>3, <2>4
<1>12. CASE PingCame(e, first[e])
  <2>1. /\ first[e] = "Ping" /\ out' = [out EXCEPT ![e] = Control("Pong")]
        /\ UNCHANGED <<pc, cause, held, recvd>>
    BY <1>12 DEF PingCame
  <2>2. Verdict(e)' BY <1>1, <2>1, VerdictFrame
  <2>3. out'[p] = out[p] /\ out'[e] = Control("Pong") BY <1>0, <2>1 DEF TypeOK
  <2>4. Kept(e)' = Taken(e) BY <1>5, <1>9, <2>1
  <2>5. Waiting(e)' = Waiting(e) BY <2>1 DEF Waiting
  <2>6. QED BY <1>1, <1>7, <2>1, <2>2, <2>3, <2>4, <2>5
<1>13. CASE CloseCame(e, first[e])
  <2>1. /\ first[e] = "Close" /\ out' = [out EXCEPT ![e] = Control("Close")]
        /\ pc' = [pc EXCEPT ![e] = "failed"] /\ cause' = [cause EXCEPT ![e] = "closed"]
        /\ UNCHANGED <<held, recvd>>
    BY <1>13 DEF CloseCame
  <2>2. cause'[e] = "closed" BY <2>1 DEF TypeOK
  <2>3. held[e] # None \/ (Len(recvd[e]) = due[p] /\ due[p] # None) BY <1>5, <1>6, <2>1
  <2>4. Verdict(e)' BY <1>1, <1>8, <2>1, <2>2, <2>3 DEF Verdict
  <2>5. Ended(e)' BY <2>1 DEF Ended, TypeOK
  <2>6. /\ out'[p] = out[p] /\ pc'[p] = pc[p] /\ held'[p] = held[p] /\ cause'[p] = cause[p] /\ recvd'[p] = recvd[p]
        /\ out'[e] = Control("Close")
    BY <1>0, <2>1 DEF TypeOK
  <2>7. QED BY <2>4, <2>5, <2>6
<1>14. CASE Unwanted(e, first[e])
  <2>1. /\ first[e] \notin {"Ping", "Close"} \cup Wanted(e) /\ pc[e] # "closing"
        /\ pc' = [pc EXCEPT ![e] = "failed"] /\ cause' = [cause EXCEPT ![e] = "type"]
        /\ UNCHANGED <<out, held, recvd>>
    BY <1>14 DEF Unwanted
  <2>2. held[e] # None \/ odd[p] \cap {"Binary", "Pong"} # {}
    <3>1. CASE first[e] = "Binary"
      <4>1. "Binary" \in odd[p] BY <3>1, NoneDiffers DEF StraysOK, Own
      <4>2. QED BY <4>1
    <3>2. CASE pc[e] = "recv" /\ first[e] # "Binary"
      <4>1. first[e] = "Pong" BY <1>2, <2>1, <3>2 DEF Wanted
      <4>2. Stage(6, e) BY <4>1 DEF Stage
      <4>3. ~Waiting(e) BY <3>2 DEF Waiting
      <4>4. ~OnePing(e) BY <4>2, <4>3, SixStages DEF OnePing
      <4>5. "Pong" \in odd[p] BY <4>4 DEF Direction, Answers
      <4>6. QED BY <4>5
    <3>3. CASE pc[e] # "recv" /\ first[e] # "Binary"
      <4>1. first[e] = "Text" \/ first[e] = "Pong" BY <1>2, <2>1, <3>3
      <4>2. pc[e] # "pong" BY <2>1, <4>1 DEF Wanted
      <4>3. QED BY <1>1, <1>4, <2>1, <3>3, <4>2
    <3>4. QED BY <3>1, <3>2, <3>3
  <2>3. cause'[e] = "type" BY <2>1 DEF TypeOK
  <2>4. Verdict(e)' BY <1>1, <1>8, <2>1, <2>2, <2>3 DEF Verdict
  <2>5. Ended(e)' BY <2>1 DEF Ended, TypeOK
  <2>6. pc'[p] = pc[p] /\ cause'[p] = cause[p] BY <1>0, <2>1 DEF TypeOK
  <2>7. QED BY <2>1, <2>4, <2>5, <2>6
<1>15. CASE PongCame(e, first[e])
  <2>1. first[e] = "Pong" /\ pc' = [pc EXCEPT ![e] = "recv"] /\ UNCHANGED <<held, recvd, out, cause>>
    BY <1>15 DEF PongCame
  <2>2. Verdict(e)' BY <1>1, <2>1, VerdictFrame
  <2>3. pc'[p] = pc[p] BY <1>0, <2>1 DEF TypeOK
  <2>4. Kept(e)' = Taken(e) BY <1>5, <1>9, <2>1
  <2>5. QED BY <1>1, <1>7, <2>1, <2>2, <2>3, <2>4
<1>16. CASE TextFirst(e, first[e], data)
  <2>1. /\ first[e] = "Text" /\ pc[e] = "pong" /\ pc' = [pc EXCEPT ![e] = "onlyPong"]
        /\ held' = [held EXCEPT ![e] = data] /\ UNCHANGED <<recvd, out, cause>>
    BY <1>16 DEF TextFirst
  <2>2. held[e] = None /\ Kept(e) = Len(recvd[e]) BY <1>4, <1>5, <2>1
  <2>3. /\ pc'[p] = pc[p] /\ held'[p] = held[p] /\ held'[e] = data /\ pc'[e] = "onlyPong"
    BY <1>0, <2>1 DEF TypeOK
  <2>4. held'[e] # None BY <1>3, <2>3, NoneDiffers
  <2>5. Kept(e)' = Taken(e) BY <1>5, <2>1, <2>2, <2>4 DEF Kept
  <2>6. Verdict(e)' BY <1>1, <1>4, <1>8, <2>1, NoneDiffers DEF Verdict
  <2>7. Waiting(e)' BY <2>3 DEF Waiting
  <2>8. held'[e] = <<t[Len(recvd'[e]) + 1], t[Len(recvd'[e]) + 1]>> BY <1>2, <2>1, <2>2, <2>3
  <2>9. QED BY <2>1, <2>3, <2>5, <2>6, <2>7, <2>8
<1>17. CASE ThenPong(e, first[e])
  <2>1. /\ first[e] = "Pong" /\ pc[e] = "onlyPong" /\ pc' = [pc EXCEPT ![e] = "app"]
        /\ recvd' = [recvd EXCEPT ![e] = Append(@, held[e])] /\ held' = [held EXCEPT ![e] = None]
        /\ UNCHANGED <<out, cause>>
    BY <1>17 DEF ThenPong, Returns
  <2>2. held[e] # None /\ Kept(e) = Len(recvd[e]) + 1 BY <1>4, <1>5, <2>1
  <2>3. /\ pc'[p] = pc[p] /\ held'[p] = held[p] /\ recvd'[p] = recvd[p]
        /\ held'[e] = None /\ recvd'[e] = Append(recvd[e], held[e])
    BY <1>0, <2>1 DEF TypeOK
  <2>4. Len(recvd'[e]) = Len(recvd[e]) + 1
    <3>1. recvd[e] \in Seq(Seq(Nat)) /\ held[e] \in Seq(Nat) BY <2>2 DEF TypeOK
    <3>2. QED BY <2>3, <3>1
  <2>5. Kept(e)' = Taken(e)
    <3>1. Kept(e)' = Len(recvd'[e]) + 0 BY <2>3 DEF Kept
    <3>2. QED BY <1>5, <2>1, <2>2, <2>4, <3>1
  <2>6. Len(recvd[e]) + 1 \in Nat /\ Len(recvd[e]) + 1 <= Len(t) BY <1>5, <1>6, <2>1, <2>2
  <2>7. \A i \in 1..Len(recvd'[e]) : i <= Len(texts'[p]) /\ recvd'[e][i] = <<texts'[p][i], texts'[p][i]>>
    BY <1>1, <1>7, <2>2, <2>3, <2>6, ReturnsNext
  <2>8. Verdict(e)' BY <1>4, <2>1, <2>7, NoneDiffers DEF Verdict
  <2>9. QED BY <2>1, <2>3, <2>5, <2>8
<1>18. CASE TextCame(e, first[e], data)
  <2>1. /\ first[e] = "Text" /\ pc[e] = "recv" /\ pc' = [pc EXCEPT ![e] = "app"]
        /\ recvd' = [recvd EXCEPT ![e] = Append(@, data)] /\ held' = [held EXCEPT ![e] = None]
        /\ UNCHANGED <<out, cause>>
    BY <1>18 DEF TextCame, Returns
  <2>2. held[e] = None /\ Kept(e) = Len(recvd[e]) BY <1>4, <1>5, <2>1
  <2>3. /\ pc'[p] = pc[p] /\ held'[p] = held[p] /\ recvd'[p] = recvd[p]
        /\ held'[e] = None /\ recvd'[e] = Append(recvd[e], data)
    BY <1>0, <2>1 DEF TypeOK
  <2>4. Len(recvd'[e]) = Len(recvd[e]) + 1
    <3>1. recvd[e] \in Seq(Seq(Nat)) BY DEF TypeOK
    <3>2. QED BY <1>3, <2>3, <3>1
  <2>5. Kept(e)' = Taken(e)
    <3>1. Kept(e)' = Len(recvd'[e]) + 0 BY <2>3 DEF Kept
    <3>2. QED BY <1>5, <2>1, <2>2, <2>4, <3>1
  <2>6. Len(recvd[e]) + 1 \in Nat /\ Len(recvd[e]) + 1 <= Len(t) BY <1>5, <1>6, <2>1, <2>2
  <2>7. data = <<t[Len(recvd[e]) + 1], t[Len(recvd[e]) + 1]>> BY <1>2, <2>1, <2>2
  <2>8. \A i \in 1..Len(recvd'[e]) : i <= Len(texts'[p]) /\ recvd'[e][i] = <<texts'[p][i], texts'[p][i]>>
    BY <1>1, <2>3, <2>6, <2>7, ReturnsNext
  <2>9. Verdict(e)' BY <1>4, <2>1, <2>8, NoneDiffers DEF Verdict
  <2>10. ~Waiting(e) BY <2>1 DEF Waiting
  <2>11. QED BY <2>1, <2>3, <2>5, <2>9, <2>10
<1>19. QED BY <1>10, <1>11, <1>12, <1>13, <1>14, <1>15, <1>16, <1>17, <1>18

(* The last content of a packet is read.                                   *)
LEMMA FinalSafe ==
  ASSUME TypeOK, \A d \in End : HeldOK(d), \A d \in End : EndOK(d), NEW e \in End,
         ReadContent(e), e \notin astray, StraysOK(e), Final(e)
  PROVE  \A d \in End : EndOK(d)'
<1> DEFINE p == Peer(e)
           t == texts[Peer(e)]
<1>0. p \in End /\ p # e /\ Peer(p) = e /\ \A d \in End : d = e \/ d = p BY PeerFacts
<1>1. Direction(e) BY DEF EndOK, ReadContent, Reads, Ended
<1>2. /\ wire[e] \in Seq(PartOfFrame) /\ wire[e] # <<>> /\ out[e] = <<>>
      /\ wire[e][1].part = "content"
      /\ wire'[e] = Tail(wire[e]) /\ wire'[p] = wire[p]
      /\ UNCHANGED <<bout, texts, due, odd>>
  BY <1>1, ContentFits
<1>3. /\ got'[e] = None /\ got'[p] = got[p] /\ first'[e] = None /\ first'[p] = first[p]
      /\ content'[e] = <<>> /\ content'[p] = content[p] /\ wire[e][1].fin
  BY <1>0 DEF Final, StartsPacket, TypeOK
<1>4. /\ out'[p] = out[p] /\ pc'[p] = pc[p] /\ held'[p] = held[p] /\ cause'[p] = cause[p] /\ recvd'[p] = recvd[p]
      /\ \/ out'[e] = out[e]
         \/ first[e] = "Ping" /\ out'[e] = Control("Pong")
         \/ out'[e] = Control("Close")
      /\ Verdict(e)'
      /\ ~Ended(e)' =>
           /\ first[e] # "Close" /\ Kept(e)' = Taken(e)
           /\ ~Waiting(e)' => ~Waiting(e) \/ first[e] = "Pong"
           /\ LET n == t[Len(recvd'[e]) + 1] IN held'[e] # None => held'[e] = <<n, n>>
  BY <1>1, FinalPacket DEF EndOK
<1>5. Verdict(p)' BY <1>0, <1>2, <1>4, VerdictFrame DEF EndOK
<1>6. \/ out'[e] = out[e]
      \/ out'[e] \in Seq(PartOfFrame) /\ OutOK(out'[e], e) /\ Fresh(out'[e])
  BY <1>4, ControlOK, SoundInSet
<1>7. /\ OutOK(out[e], e)' /\ BoutOK(bout[e], e)' /\ OutOK(out[p], p)' /\ BoutOK(bout[p], p)'
  BY <1>0, <1>2, <1>4, <1>6 DEF EndOK
<1>8. /\ ~Starts(out'[e], "Ping")
      /\ Starts(out'[e], "Pong") => first[e] = "Ping"
  <2>1. CASE out'[e] = out[e] BY <1>2, <2>1 DEF Starts
  <2>2. CASE first[e] = "Ping" /\ out'[e] = Control("Pong") BY <2>2, ControlOK DEF Starts, IsHead
  <2>3. CASE out'[e] = Control("Close") BY <2>3, ControlOK DEF Starts, IsHead
  <2>4. QED BY <1>4, <2>1, <2>2, <2>3
<1>9. ASSUME ~Ended(e)' PROVE Direction(e)'
  <2>1. Answers(e)'
    <3>1. Answers(e) BY <1>1 DEF Direction
    <3>2. ~Waiting(e)' => ~Waiting(e) \/ (first[e] = "Pong" /\ first'[e] # "Pong") BY <1>3, <1>4, <1>9, NoneDiffers
    <3>3. first'[e] # "Ping" /\ first'[e] # "Pong" BY <1>3, NoneDiffers
    <3>4. OnePing(e) => OnePing(e)' BY <1>2, <1>3, <1>4, <1>8, <3>2, <3>3, PingsContentRead
    <3>5. QED BY <1>2, <3>1, <3>4, AnswersKept
  <2>2. Stream(e)'
    <3>1. Prev(e)' = Part("content", "Pong", TRUE, <<>>) BY <1>3 DEF Prev
    <3>2. NoStricter(wire[e][1], Prev(e)')
      <4>1. Prev(e)'.part = "content" /\ Prev(e)'.fin BY <3>1 DEF Part
      <4>2. wire[e][1].fin \in BOOLEAN /\ Prev(e)'.fin \in BOOLEAN
        <5>1. wire[e][1] \in PartOfFrame BY <1>2, TailFacts
        <5>2. Prev(e)'.fin = TRUE BY <3>1 DEF Part
        <5>3. QED BY <5>1, <5>2, PartKinds
      <4>3. QED BY <1>2, <1>3, <4>1, <4>2, ContentEnds
    <3>3. Chained(Prev(e), wire[e]) /\ Linked(Tip(Prev(e), wire[e]), out[p], bout[p])
      BY <1>1 DEF Direction, Stream
    <3>4. Chained(Prev(e)', Tail(wire[e])) /\ NoStricter(Tip(Prev(e), wire[e]), Tip(Prev(e)', Tail(wire[e])))
      BY <1>2, <3>2, <3>3, Shrink
    <3>5. Linked(Tip(Prev(e)', Tail(wire[e])), out[p], bout[p]) BY <3>3, <3>4, LinkedEases
    <3>6. ReadOK(e)' BY <1>3 DEF ReadOK
    <3>7. QED BY <1>2, <1>4, <3>4, <3>5, <3>6 DEF Stream
  <2>3. Counted(wire[e], texts[Peer(e)], Taken(e), due[Peer(e)], first[e] = "Close")'
    <3>1. Counted(wire[e], t, Taken(e), due[p], FALSE)
      <4>1. (first[e] = "Close") = FALSE BY <1>4, <1>9
      <4>2. QED BY <1>1, <4>1 DEF Direction
    <3>2. t \in Seq(Nat) /\ Taken(e) \in Nat BY TakenKind
    <3>3. ~IsHead(wire[e][1], "Text") /\ ~IsHead(wire[e][1], "Close") BY <1>2 DEF IsHead
    <3>4. Counted(Tail(wire[e]), t, Taken(e), due[p], FALSE) BY <1>2, <3>1, <3>2, <3>3, CountedSkips
    <3>5. Taken(e)' = Taken(e)
      <4>1. Taken(e)' = Kept(e)' + 0 BY <1>3, NoneDiffers DEF Taken
      <4>2. QED BY <1>4, <1>9, <3>2, <4>1
    <3>6. (first'[e] = "Close") = FALSE BY <1>3, NoneDiffers
    <3>7. QED BY <1>2, <3>4, <3>5, <3>6
  <2>4. InHand(e)' BY <1>2, <1>3, <1>4, <1>9, NoneDiffers DEF InHand
  <2>5. QED BY <2>1, <2>2, <2>3, <2>4 DEF Direction
<1>10. ASSUME ~Ended(p)' PROVE Direction(p)'
  <2>1. Direction(p) BY <1>0, <1>4, <1>10 DEF EndOK, Ended
  <2>2. Answers(p)'
    <3>1. Answers(p) BY <2>1 DEF Direction
    <3>2. first'[e] # "Ping" /\ first'[e] # "Pong" BY <1>3, NoneDiffers
    <3>3. OnePing(p) => OnePing(p)' BY <1>0, <1>2, <1>3, <1>4, <1>8, <3>2, PingsContentRead
    <3>4. QED BY <1>2, <3>1, <3>3, AnswersKept
  <2>3. out'[e] = out[e] \/ (out[e] = <<>> /\ out'[e] \in Seq(PartOfFrame) /\ Fresh(out'[e])) BY <1>2, <1>6
  <2>4. QED BY <1>2, <1>3, <1>4, <2>1, <2>2, <2>3, OtherDirection
<1>11. EndOK(e)' /\ EndOK(p)' BY <1>0, <1>4, <1>5, <1>7, <1>9, <1>10 DEF EndOK
<1>12. QED BY <1>0, <1>11

(* A read runs into its timeout, not between two fragments.                *)
LEMMA TimeoutSafe ==
  ASSUME TypeOK, \A d \in End : HeldOK(d), \A d \in End : EndOK(d), NEW e \in End, Timeout(e), ~Disturbed'
  PROVE  \A d \in End : EndOK(d)'
<1> DEFINE p == Peer(e)
<1>0. p \in End /\ p # e /\ Peer(p) = e /\ \A d \in End : d = e \/ d = p BY PeerFacts
<1>1. /\ out[e] = <<>> /\ ~Ended(e) /\ got[e] = None
      /\ UNCHANGED <<wire, bout, held, texts, due, recvd, odd>>
  BY DEF Timeout, Reads, Ended
<1>2. Direction(e) BY <1>1 DEF EndOK
<1>3. first[e] = None BY DEF Timeout, Disturbed
<1>4. content[e] = <<>> BY <1>1, <1>2, <1>3, NoneDiffers DEF Direction, Stream, ReadOK
<1>5. /\ got'[e] = got[e] /\ first'[e] = first[e] /\ content'[e] = content[e]
      /\ got'[p] = got[p] /\ first'[p] = first[p] /\ content'[p] = content[p]
  BY <1>0, <1>1, <1>3, <1>4 DEF Timeout, StartsPacket, TypeOK
<1>6. \/ /\ pc[e] = "recv" /\ pc'[e] = "pong" /\ out'[e] = Control("Ping") /\ cause'[e] = cause[e]
      \/ /\ Ended(e)' /\ out'[e] = out[e] /\ (cause'[e] = cause[e] \/ cause'[e] = "timeout")
  BY DEF Timeout, Throws, TypeOK, Ended
<1>7. out'[p] = out[p] /\ pc'[p] = pc[p] /\ cause'[p] = cause[p]
  BY <1>0 DEF Timeout, Throws, TypeOK
<1>8. \/ out'[e] = out[e]
      \/ out'[e] \in Seq(PartOfFrame) /\ OutOK(out'[e], e) /\ Fresh(out'[e])
  BY <1>6, ControlOK, SoundInSet
<1>9. /\ OutOK(out[e], e)' /\ BoutOK(bout[e], e)' /\ OutOK(out[p], p)' /\ BoutOK(bout[p], p)'
  BY <1>0, <1>1, <1>7, <1>8 DEF EndOK
<1>10. Verdict(p)' BY <1>0, <1>1, <1>7, VerdictFrame DEF EndOK
<1>11. Verdict(e)'
  <2>1. cause'[e] = cause[e] \/ cause'[e] = "timeout" BY <1>6
  <2>2. QED BY <1>1, <2>1 DEF EndOK, Verdict
<1>12. ASSUME ~Ended(e)' PROVE Direction(e)'
  <2>1. pc[e] = "recv" /\ pc'[e] = "pong" BY <1>6, <1>12
  <2>2. ~Waiting(e) /\ Waiting(e)' BY <2>1 DEF Waiting
  <2>3. ASSUME OnePing(e) PROVE OnePing(e)'
    <3>1. \A c \in 1..6 : ~Stage(c, e) BY <2>2, <2>3 DEF OnePing
    <3>2. ~Stage(2, e)' /\ ~Stage(3, e)' /\ ~Stage(4, e)' /\ ~Stage(5, e)' /\ ~Stage(6, e)'
      <4>1. ~Stage(2, e) /\ ~Stage(3, e) /\ ~Stage(4, e) /\ ~Stage(5, e) /\ ~Stage(6, e) BY <3>1, SixStages
      <4>2. QED BY <1>1, <1>5, <1>7, <4>1 DEF Stage
    <3>3. \A c \in 1..6 : Stage(c, e)' => c = 1 BY <3>2, SixStages
    <3>4. Alone(wire[p], "Ping")' /\ Alone(wire[e], "Pong")' BY <1>1, <2>3 DEF OnePing
    <3>5. QED BY <2>2, <3>3, <3>4 DEF OnePing
  <2>4. Answers(e)' BY <1>1, <1>2, <2>3, AnswersKept DEF Direction
  <2>5. /\ Stream(e)' /\ InHand(e)'
        /\ Counted(wire[e], texts[Peer(e)], Taken(e), due[Peer(e)], first[e] = "Close")'
    BY <1>1, <1>2, <1>5, <1>7, DirectionFrame DEF Direction
  <2>6. QED BY <2>4, <2>5 DEF Direction
<1>13. ASSUME ~Ended(p)' PROVE Direction(p)'
  <2>1. Direction(p) BY <1>0, <1>7, <1>13 DEF EndOK, Ended
  <2>2. ASSUME OnePing(p) PROVE OnePing(p)'
    <3>1. ~Starts(Control("Ping"), "Pong") BY ControlOK DEF Starts, IsHead
    <3>2. Starts(out'[e], "Pong") => Starts(out[e], "Pong") BY <1>6, <3>1
    <3>3. /\ Stage(1, p)' => Stage(1, p)
          /\ Stage(2, p)' => Stage(2, p)
          /\ Stage(3, p)' => Stage(3, p)
          /\ Stage(4, p)' => Stage(4, p)
          /\ Stage(5, p)' => Stage(5, p)
          /\ Stage(6, p)' => Stage(6, p)
      BY <1>0, <1>1, <1>5, <1>7, <3>2 DEF Stage
    <3>4. \A c \in 1..6 : Stage(c, p)' => Stage(c, p) BY <3>3, SixStages
    <3>5. Alone(wire[Peer(p)], "Ping")' /\ Alone(wire[p], "Pong")' BY <1>1, <2>2 DEF OnePing
    <3>6. ~Waiting(p)' => ~Waiting(p) BY <1>7 DEF Waiting
    <3>7. QED BY <1>0, <2>2, <3>4, <3>5, <3>6, PingMoves, SixStages
  <2>3. Answers(p)' BY <1>1, <2>1, <2>2, AnswersKept DEF Direction
  <2>4. out'[e] = out[e] \/ (out[e] = <<>> /\ out'[e] \in Seq(PartOfFrame) /\ Fresh(out'[e])) BY <1>1, <1>8
  <2>5. QED BY <1>1, <1>5, <2>1, <2>3, <2>4, OtherDirection
<1>14. EndOK(e)' /\ EndOK(p)' BY <1>0, <1>9, <1>10, <1>11, <1>12, <1>13 DEF EndOK
<1>15. QED BY <1>0, <1>14

-----------------------------------------------------------------------------
(* The invariant. *)

LEMMA NothingSent ==
  /\ Len(<<>>) = 0 /\ (1..0) = {}
  /\ AllOK(<<>>) /\ \A e : OutOK(<<>>, e) /\ BoutOK(<<>>, e)
  /\ \A op : ~Starts(<<>>, op) /\ ~Carries(<<>>, op) /\ Alone(<<>>, op)
  /\ Counted(<<>>, <<>>, 0, None, FALSE)
<1>1. Len(<<>>) = 0 /\ (1..0) = {} /\ ((0 + 1)..0) = {} OBVIOUS
<1>2. AllOK(<<>>) BY DEF AllOK
<1>3. \A e : OutOK(<<>>, e) /\ BoutOK(<<>>, e) BY <1>2 DEF OutOK, BoutOK
<1>4. \A op : ~Starts(<<>>, op) /\ ~Carries(<<>>, op) /\ Alone(<<>>, op) BY DEF Starts, Carries, Alone
<1>5. Counted(<<>>, <<>>, 0, None, FALSE)
  <2>1. Placed(<<>>, <<>>, 0, <<>>) BY <1>1 DEF Placed
  <2>2. Closed(<<>>, <<>>, 0, None, FALSE, <<>>) BY <1>1 DEF Closed
  <2>3. QED BY <2>1, <2>2 DEF Counted
<1>6. QED BY <1>1, <1>2, <1>3, <1>4, <1>5

LEMMA InitInv == Init => Inv
<1> SUFFICES ASSUME Init PROVE Inv OBVIOUS
<1>0. <<>> \in Seq(SoundPart) /\ <<>> \in Seq(Nat) /\ <<>> \in Seq(Seq(Nat)) OBVIOUS
<1>1. TypeOK BY <1>0 DEF Init, TypeOK
<1>2. ASSUME NEW e \in End PROVE HeldOK(e) BY DEF Init, HeldOK
<1>3. ASSUME NEW e \in End PROVE EndOK(e)
  <2>1. Peer(e) \in End BY PeerFacts
  <2>2. /\ wire[e] = <<>> /\ wire[Peer(e)] = <<>> /\ out[e] = <<>> /\ bout[e] = <<>>
        /\ out[Peer(e)] = <<>> /\ bout[Peer(e)] = <<>> /\ got[e] = None /\ first[e] = None /\ first[Peer(e)] = None
        /\ content[e] = <<>> /\ held[e] = None /\ cause[e] = None /\ texts[Peer(e)] = <<>>
        /\ due[Peer(e)] = None /\ recvd[e] = <<>> /\ pc[e] = "app"
    BY <2>1 DEF Init
  <2>3. Prev(e) = Part("content", "Pong", TRUE, <<>>) BY <2>2 DEF Prev
  <2>4. Done(Prev(e)) BY <2>3 DEF Part, Done
  <2>5. Stream(e)
    <3>1. ReadOK(e) BY <2>2 DEF ReadOK
    <3>2. Chained(Prev(e), <<>>) BY NothingSent DEF Chained
    <3>3. Linked(Prev(e), <<>>, <<>>) BY <2>4, NotOpen DEF Linked
    <3>4. QED BY <2>2, <3>1, <3>2, <3>3 DEF Stream, Tip
  <2>6. Taken(e) = 0 BY <2>2, NoneDiffers DEF Taken, Kept
  <2>7. Counted(wire[e], texts[Peer(e)], Taken(e), due[Peer(e)], first[e] = "Close")
    <3>1. (first[e] = "Close") = FALSE BY <2>2, NoneDiffers
    <3>2. QED BY <2>2, <2>6, <3>1, NothingSent
  <2>8. InHand(e) BY <2>2, NoneDiffers DEF InHand
  <2>9. OnePing(e)
    <3>1. ~Stage(1, e) /\ ~Stage(2, e) /\ ~Stage(3, e) /\ ~Stage(4, e) /\ ~Stage(5, e) /\ ~Stage(6, e)
      BY <2>2, NothingSent, NoneDiffers DEF Stage
    <3>2. \A c \in 1..6 : ~Stage(c, e) BY <3>1, SixStages
    <3>3. QED BY <2>2, <3>2, NothingSent DEF OnePing
  <2>10. Verdict(e) BY <2>2, NoneDiffers DEF Verdict
  <2>11. QED BY <2>2, <2>5, <2>7, <2>8, <2>9, <2>10, NothingSent DEF EndOK, Direction, Answers
<1>4. ASSUME NEW e \in End PROVE StraysOK(e)
  <2>1. Peer(e) \in End BY PeerFacts
  <2>2. <<>> \in Seq(Sent(e)) OBVIOUS
  <2>3. QED BY <2>1, <2>2 DEF Init, StraysOK
<1>5. QED BY <1>1, <1>2, <1>3, <1>4 DEF Inv

LEMMA NextInv == Inv /\ [Next]_vars => Inv'
<1> SUFFICES ASSUME Inv, [Next]_vars PROVE Inv' OBVIOUS
<1>1. TypeOK /\ (\A d \in End : HeldOK(d)) /\ \A d \in End : StraysOK(d) BY DEF Inv
<1>2. TypeOK' /\ (\A d \in End : HeldOK(d)') /\ \A d \in End : StraysOK(d)' BY <1>1, TypesKept, StraysKept
<1>3. ASSUME ~Disturbed' PROVE \A d \in End : EndOK(d)'
  <2>1. CASE UNCHANGED vars
    <3>1. UNCHANGED <<wire, out, bout, pc, got, first, content, held, cause, texts, due, recvd, mixed, parted,
                    astray, odd>>
      BY <2>1 DEF vars, readVars, history
    <3>2. \A d \in End : EndOK(d) BY <1>3, <3>1 DEF Inv, Disturbed
    <3>3. ASSUME NEW d \in End PROVE EndOK(d)'
      <4>0. Peer(d) \in End BY PeerFacts
      <4>1. Verdict(d)' BY <3>1, <3>2, VerdictFrame DEF EndOK
      <4>2. OutOK(out[d], d)' /\ BoutOK(bout[d], d)' BY <3>1, <3>2 DEF EndOK
      <4>3. ASSUME ~Ended(d)' PROVE Direction(d)'
        <5>1. Direction(d) BY <3>1, <3>2, <4>3 DEF EndOK, Ended
        <5>3. OnePing(d) => OnePing(d)' BY <3>1 DEF OnePing, Stage, Waiting
        <5>2. Answers(d)' BY <3>1, <5>1, <5>3, AnswersKept DEF Direction
        <5>4. QED BY <3>1, <4>0, <5>1, <5>2, DirectionFrame DEF Direction
      <4>4. QED BY <4>1, <4>2, <4>3 DEF EndOK
    <3>4. QED BY <3>3
  <2>2. CASE \E e \in End : EndStep(e)
    <3>1. PICK e \in End : EndStep(e) BY <2>2
    <3>2. ~Disturbed
      <4>1. (mixed => mixed') /\ (parted => parted') /\ astray \subseteq astray'
        BY <1>1, <3>1 DEF EndStep, SendText, RecvText, Close, Write, ReadHead, ReadContent, Timeout,
                          CallKeeps, ReadKeeps, history, TypeOK
      <4>2. QED BY <1>3, <4>1 DEF Disturbed
    <3>a. astray = {} /\ astray' = {} BY <1>3, <3>2 DEF Disturbed
    <3>3. \A d \in End : EndOK(d) BY <3>2 DEF Inv
    <3>4. CASE SendText(e) \/ RecvText(e) \/ Close(e) BY <1>1, <3>3, <3>4, StartSafe
    <3>5. CASE Write(e) BY <1>1, <1>3, <3>3, <3>5, WriteSafe
    <3>6. CASE ReadHead(e) BY <1>1, <3>3, <3>6, <3>a, ReadHeadSafe
    <3>7. CASE ReadContent(e)
      <4>1. Direction(e) BY <3>3, <3>7 DEF EndOK, ReadContent, Reads, Ended
      <4>2. CASE Partial(e) BY <1>1, <3>3, <3>7, <3>a, <4>2, PartialSafe
      <4>3. CASE Final(e) BY <1>1, <3>3, <3>7, <3>a, <4>3, FinalSafe
      <4>4. QED BY <1>1, <3>7, <3>a, <4>1, <4>2, <4>3, ContentFits
    <3>8. CASE Timeout(e) BY <1>1, <1>3, <3>3, <3>8, TimeoutSafe
    <3>9. QED BY <3>1, <3>4, <3>5, <3>6, <3>7, <3>8 DEF EndStep
  <2>3. CASE \E e \in Broadcasting : Broadcast(e) \/ WriteBroadcast(e)
    <3>1. PICK e \in Broadcasting : Broadcast(e) \/ WriteBroadcast(e) BY <2>3
    <3>2. e \in End BY <3>1, WebSocketAssumption
    <3>3. ~Disturbed BY <1>1, <1>3, <3>1 DEF Broadcast, WriteBroadcast, history, Disturbed, TypeOK
    <3>4. \A d \in End : EndOK(d) BY <3>3 DEF Inv
    <3>5. CASE Broadcast(e) BY <1>1, <3>2, <3>4, <3>5, BroadcastSafe
    <3>6. CASE WriteBroadcast(e) BY <1>1, <1>3, <3>2, <3>4, <3>6, WriteBroadcastSafe
    <3>7. QED BY <3>1, <3>5, <3>6
  <2>4. CASE \E e \in Foreign : SendStray(e)
    <3>1. PICK e \in Foreign : SendStray(e) BY <2>4
    <3>2. e \in End BY WebSocketAssumption
    <3>3. ~Disturbed BY <1>3, <3>1 DEF SendStray, Disturbed
    <3>4. \A d \in End : EndOK(d) BY <3>3 DEF Inv
    <3>5. QED BY <1>1, <3>1, <3>2, <3>4, StartSafe
  <2>5. QED BY <2>1, <2>2, <2>3, <2>4 DEF Next
<1>4. QED BY <1>2, <1>3 DEF Inv

LEMMA AlwaysInv == Spec => []Inv
BY InitInv, NextInv, PTL DEF Spec

-----------------------------------------------------------------------------
(* Whatever the two ends do, strays included, and however many messages    *)
(* and timeouts there are, recvText returns the peer's messages in their   *)
(* order, whole and none twice, until two frames are written into each     *)
(* other, a fragmented message is interrupted or a head is read in part.   *)
THEOREM MessagesInOrder == Spec => []DataInOrder
<1>1. Inv => DataInOrder
  <2> SUFFICES ASSUME Inv, ~Disturbed, NEW e \in End
               PROVE  /\ Len(recvd[e]) <= Len(texts[Peer(e)])
                      /\ \A i \in DOMAIN recvd[e] :
                           recvd[e][i] = <<texts[Peer(e)][i], texts[Peer(e)][i]>>
    BY DEF DataInOrder
  <2>1. Verdict(e) BY DEF Inv, EndOK
  <2>2. recvd[e] \in Seq(Seq(Nat)) /\ texts[Peer(e)] \in Seq(Nat) BY PeerFacts DEF Inv, TypeOK
  <2>3. Len(recvd[e]) \in Nat /\ DOMAIN recvd[e] = 1..Len(recvd[e]) /\ Len(texts[Peer(e)]) \in Nat BY <2>2
  <2>4. \A i \in 1..Len(recvd[e]) :
          i <= Len(texts[Peer(e)]) /\ recvd[e][i] = <<texts[Peer(e)][i], texts[Peer(e)][i]>>
    BY <2>1 DEF Verdict
  <2>5. Len(recvd[e]) <= Len(texts[Peer(e)])
    <3>1. CASE Len(recvd[e]) = 0 BY <2>3, <3>1
    <3>2. CASE Len(recvd[e]) # 0
      <4>1. Len(recvd[e]) \in 1..Len(recvd[e]) BY <2>3, <3>2
      <4>2. QED BY <2>4, <4>1
    <3>3. QED BY <3>1, <3>2
  <2>6. QED BY <2>3, <2>4, <2>5
<1>2. QED BY <1>1, AlwaysInv, PTL

(* When recv throws "closed", it has returned every message the peer sent  *)
(* before its close frame, but for one held back until a pong, and as long *)
(* as nothing has disturbed the stream.                                    *)
THEOREM ReadBeforeClosed == Spec => []ClosedMeansRead
<1>1. Inv => ClosedMeansRead BY DEF Inv, EndOK, Verdict, ClosedMeansRead
<1>2. QED BY <1>1, AlwaysInv, PTL

(* In a stream nothing has disturbed, recvText throws a wrong type only    *)
(* for a Binary frame, a pong of the peer's own accord or a second message *)
(* while the pong is outstanding, and a protocol error only for a bad      *)
(* head: heads and contents always fit, and a pong that answers a ping     *)
(* comes only to the one who waits for it.                                 *)
THEOREM OnlyLatePongThrows == Spec => []ThrowsOnlyBeforePong
<1>1. Inv => ThrowsOnlyBeforePong BY DEF Inv, EndOK, Verdict, ThrowsOnlyBeforePong
<1>2. QED BY <1>1, AlwaysInv, PTL
=============================================================================
