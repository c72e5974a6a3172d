-------------------------- MODULE HttpMessages_proofs --------------------------
(***************************************************************************)
(* Proofs about HttpMessages, for any bytes and bodies, any size of chunk, *)
(* any number of exchanges, and any cuts of the stream into reads.         *)
(*                                                                         *)
(* The invariant describes the stream: what a parser holds and what is on  *)
(* its way to it make up the rest of the message it is in and the one      *)
(* behind it.  First come facts about sequences and lines, then what a     *)
(* chunked body looks like from any chunk on, then the invariant, one      *)
(* lemma for each step of a parser, and last the handler and the client.   *)
(***************************************************************************)
EXTENDS HttpMessages, SequenceTheorems, WellFoundedInduction, TLAPS

-----------------------------------------------------------------------------
(* Sequences and sets of numbers. *)

LEMMA NatSet ==
  ASSUME NEW S, 0 \in S, \A i \in Nat : i \in S => i + 1 \in S
  PROVE  Nat \subseteq S
<1> DEFINE R == OpToRel(<, Nat)
           T == Nat \ S
<1> SUFFICES ASSUME T # {} PROVE FALSE OBVIOUS
<1>1. \A x, y \in Nat : <<y, x>> \in R <=> y < x BY DEF OpToRel
<1>2. IsWellFoundedOn(R, Nat) BY NatLessThanWellFounded
<1>3. T \subseteq Nat OBVIOUS
<1> HIDE DEF R, T
<1>4. PICK x \in T : \A y \in T : ~(<<y, x>> \in R) BY <1>2, <1>3, WFMin
<1>5. x \in Nat /\ x # 0 /\ x \notin S BY DEF T
<1>6. x - 1 \in Nat /\ (x - 1) + 1 = x BY <1>5
<1>7. x - 1 \in T BY <1>5, <1>6 DEF T
<1>8. ~(x - 1 < x) BY <1>1, <1>4, <1>5, <1>6, <1>7
<1> QED BY <1>5, <1>8

LEMMA MinIs ==
  ASSUME NEW T \in SUBSET Int, NEW m \in T, \A x \in T : m <= x
  PROVE  Min(T) = m
<1>1. m \in T /\ \A x \in T : m =< x OBVIOUS
<1>2. \A y \in T : (\A x \in T : y =< x) => y = m OBVIOUS
<1> QED BY <1>1, <1>2 DEF Min

LEMMA MinOfTwo ==
  ASSUME NEW a \in Int, NEW b \in Int
  PROVE  Min({a, b}) = IF a <= b THEN a ELSE b
<1>1. CASE a <= b
  <2>1. Min({a, b}) = a BY <1>1, MinIs
  <2> QED BY <1>1, <2>1
<1>2. CASE ~(a <= b)
  <2>1. Min({a, b}) = b BY <1>2, MinIs
  <2> QED BY <1>2, <2>1
<1> QED BY <1>1, <1>2

(* A sequence in two parts. *)
LEMMA Cut ==
  ASSUME NEW T, NEW s \in Seq(T), NEW k \in 0..Len(s)
  PROVE  /\ SubSeq(s, 1, k) \in Seq(T) /\ Len(SubSeq(s, 1, k)) = k
         /\ After(s, k) \in Seq(T) /\ Len(After(s, k)) = Len(s) - k
         /\ s = SubSeq(s, 1, k) \o After(s, k)
<1>1. Len(s) \in Nat BY LenProperties
<1>2. \A i \in 1..Len(s) : s[i] \in T BY ElementOfSeq
<1>3. SubSeq(s, 1, k) \in Seq(T) /\ Len(SubSeq(s, 1, k)) = k
  <2>1. \A i \in 1..k : s[i] \in T BY <1>1, <1>2
  <2>2. SubSeq(s, 1, k) \in Seq(T) /\ Len(SubSeq(s, 1, k)) = IF 1 <= k THEN k - 1 + 1 ELSE 0
    BY <2>1, SubSeqProperties
  <2> QED BY <2>2, <1>1
<1>4. After(s, k) \in Seq(T) /\ Len(After(s, k)) = Len(s) - k
  <2>1. \A i \in (k + 1)..Len(s) : s[i] \in T BY <1>1, <1>2
  <2>2. /\ SubSeq(s, k + 1, Len(s)) \in Seq(T)
        /\ Len(SubSeq(s, k + 1, Len(s))) = IF k + 1 <= Len(s) THEN Len(s) - (k + 1) + 1 ELSE 0
    BY <2>1, <1>1, SubSeqProperties
  <2> QED BY <2>2, <1>1 DEF After
<1>5. s = SubSeq(s, 1, k) \o After(s, k)
  <2>1. 1 \in 1..Len(s) + 1 /\ k \in 1 - 1..Len(s) /\ Len(s) \in k..Len(s) BY <1>1
  <2>2. SubSeq(s, 1, k) \o SubSeq(s, k + 1, Len(s)) = SubSeq(s, 1, Len(s))
    BY <2>1, ConcatAdjacentSubSeq
  <2> QED BY <2>2, SubSeqFull DEF After
<1> QED BY <1>3, <1>4, <1>5

LEMMA ConcatAt ==
  ASSUME NEW T, NEW s \in Seq(T), NEW t \in Seq(T), NEW i \in 1..Len(s)
  PROVE  (s \o t)[i] = s[i]
<1>1. Len(s) \in Nat /\ Len(t) \in Nat BY LenProperties
<1>2. i \in 1..(Len(s) + Len(t)) /\ i <= Len(s) BY <1>1
<1> QED BY <1>2, ConcatProperties

LEMMA ConcatBehind ==
  ASSUME NEW T, NEW s \in Seq(T), NEW t \in Seq(T), NEW i \in 1..Len(t)
  PROVE  (s \o t)[Len(s) + i] = t[i]
<1> DEFINE j == Len(s) + i
<1>1. Len(s) \in Nat /\ Len(t) \in Nat BY LenProperties
<1>2. j \in 1..(Len(s) + Len(t)) /\ ~(j <= Len(s)) /\ j - Len(s) = i BY <1>1
<1> HIDE DEF j
<1>3. (s \o t)[j] = IF j <= Len(s) THEN s[j] ELSE t[j - Len(s)] BY <1>2, ConcatProperties
<1> QED BY <1>2, <1>3 DEF j

Associates(s, t, u) == (s \o t) \o u = s \o (t \o u)

LEMMA Associate == \A T : \A s, t, u \in Seq(T) : Associates(s, t, u)
BY ConcatAssociative DEF Associates

(* What of a whole a reader holds, w being how it begins.                  *)
LEMMA Split ==
  ASSUME NEW T, NEW s \in Seq(T), NEW t \in Seq(T), NEW w \in Seq(T), NEW r \in Seq(T),
         s \o t = w \o r, Len(w) <= Len(s)
  PROVE  SubSeq(s, 1, Len(w)) = w /\ After(s, Len(w)) \o t = r
<1> DEFINE k == Len(w)
           h == SubSeq(s, 1, k)
           a == After(s, k)
<1>1. k \in 0..Len(s) /\ Len(s) \in Nat /\ Len(t) \in Nat /\ Len(r) \in Nat BY LenProperties
<1>2. h \in Seq(T) /\ Len(h) = k /\ a \in Seq(T) /\ s = h \o a BY <1>1, Cut
<1> HIDE DEF h, a
<1>3. s \o t = h \o (a \o t)
  <2>1. Associates(h, a, t) BY <1>2, Associate, Zenon
  <2> QED BY <1>2, <2>1 DEF Associates
<1>4. a \o t \in Seq(T) BY <1>2, ConcatProperties
<1>5. ASSUME NEW i \in 1..k PROVE h[i] = w[i]
  <2>1. (h \o (a \o t))[i] = h[i] BY <1>2, <1>4, ConcatAt, Zenon
  <2>2. (w \o r)[i] = w[i] BY ConcatAt
  <2> QED BY <1>3, <2>1, <2>2
<1>6. h = w BY <1>2, <1>5, SeqEqual
<1>7. w \o (a \o t) = w \o r BY <1>3, <1>6
<1>8. a \o t = r BY <1>4, <1>7, ConcatSimplifications
<1> QED BY <1>6, <1>8 DEF h, a

-----------------------------------------------------------------------------
(* Symbols, and finding the end of a line. *)

Symbol == Data \cup {Number[k] : k \in DOMAIN Number} \cup {CR, LF, "L", "len", "te"}

LEMMA LineEnd ==
  /\ CRLF \in Seq(Symbol) /\ Len(CRLF) = 2 /\ CRLF[1] = CR /\ CRLF[2] = LF
  /\ CR # LF /\ "L" \notin {CR, LF} /\ "len" \notin {CR, LF} /\ "te" \notin {CR, LF}
BY DEF CRLF, CR, LF, Symbol

LEMMA Numbers ==
  ASSUME NEW k \in DOMAIN Number
  PROVE  Number[k] \in Symbol \ {CR, LF, "L", "len", "te"} /\ SizeOf(Number[k]) = k /\ k \in Nat
BY MessagesAssumption DEF SizeOf, Symbol

LEMMA Assoc ==
  \A s, t, u \in Seq(Symbol) : (s \o t) \o u = s \o (t \o u) /\ s \o t \in Seq(Symbol)
BY ConcatAssociative, ConcatProperties

(* A line w whose end may not have come yet.                               *)
LEMMA TakesLine ==
  \A w, r, s, t \in Seq(Symbol) :
    (\A i \in 1..Len(w) : w[i] # CR) /\ s \o t = w \o (CRLF \o r) =>
    (\/ Find(s) = None /\ Len(s) < Len(w) + 2
     \/ /\ Find(s) = Len(w) /\ Len(w) + 2 <= Len(s) /\ Text(s) = w
        /\ After(s, Len(w) + 2) \in Seq(Symbol) /\ After(s, Len(w) + 2) \o t = r)
<1> TAKE w, r, s, t \in Seq(Symbol)
<1> HAVE (\A i \in 1..Len(w) : w[i] # CR) /\ s \o t = w \o (CRLF \o r)
<1> DEFINE m == Len(w)
           c == CRLF \o r
           x == s \o t
           found(u) == {i \in 1..(Len(u) - 1) : u[i] = CR /\ u[i + 1] = LF}
<1>1. m \in Nat /\ Len(s) \in Nat /\ Len(t) \in Nat BY LenProperties
<1>2. c \in Seq(Symbol) /\ Len(c) = 2 + Len(r) /\ Len(r) \in Nat /\ c[1] = CR /\ c[2] = LF
  <2>1. CRLF \in Seq(Symbol) /\ Len(CRLF) = 2 /\ CRLF[1] = CR /\ CRLF[2] = LF BY LineEnd
  <2>2. c \in Seq(Symbol) /\ Len(c) = Len(CRLF) + Len(r) BY <2>1, ConcatProperties, Zenon
  <2>3. 1 \in 1..Len(CRLF) /\ 2 \in 1..Len(CRLF) BY <2>1
  <2>4. c[1] = CRLF[1] /\ c[2] = CRLF[2] BY <2>1, <2>3, ConcatAt, Zenon
  <2> HIDE DEF c
  <2> QED BY <2>1, <2>2, <2>4, LenProperties
<1> HIDE DEF c
<1>3. /\ x \in Seq(Symbol) /\ Len(x) = m + Len(c) /\ Len(x) = Len(s) + Len(t)
      /\ \A i \in 1..m + Len(c) : x[i] = IF i <= m THEN w[i] ELSE c[i - m]
  <2>1. x \in Seq(Symbol) /\ Len(x) = Len(s) + Len(t) BY ConcatProperties, Zenon
  <2>2. x = w \o c BY DEF c
  <2> HIDE DEF x
  <2>3. Len(w \o c) = m + Len(c) BY <1>2, ConcatProperties, Zenon
  <2>4. \A i \in 1..m + Len(c) : (w \o c)[i] = IF i <= m THEN w[i] ELSE c[i - m]
    BY <1>2, ConcatProperties, Zenon
  <2> QED BY <2>1, <2>2, <2>3, <2>4
<1>4. \A i \in 1..Len(s) : x[i] = s[i] BY ConcatAt, Zenon
<1> HIDE DEF x
<1>5. x[m + 1] = CR /\ x[m + 2] = LF
  <2>1. 1 \in 1..Len(c) /\ 2 \in 1..Len(c) BY <1>2
  <2>2. (w \o c)[m + 1] = c[1] /\ (w \o c)[m + 2] = c[2] BY <1>2, <2>1, ConcatBehind
  <2> QED BY <1>2, <2>2 DEF x, c
<1>6. \A i \in 1..m : x[i] # CR
  <2> TAKE i \in 1..m
  <2>1. i \in 1..m + Len(c) /\ i <= m BY <1>1, <1>2
  <2> QED BY <1>3, <2>1
<1>7. ASSUME NEW i \in found(s) PROVE m + 1 <= i /\ i + 1 <= Len(s)
  <2>1. i \in 1..Len(s) /\ i + 1 <= Len(s) /\ s[i] = CR BY <1>1, <1>7
  <2>2. x[i] = CR BY <1>4, <2>1
  <2>3. ~(i \in 1..m) BY <1>6, <2>2
  <2> QED BY <1>1, <2>1, <2>3
<1>8. CASE Len(s) < m + 2
  <2>1. found(s) = {} BY <1>1, <1>7, <1>8
  <2> QED BY <1>8, <2>1 DEF Find
<1>9. CASE m + 2 <= Len(s)
  <2>1. m + 1 \in found(s)
    <3>1. m + 1 \in 1..Len(s) /\ m + 2 \in 1..Len(s) /\ m + 1 \in 1..(Len(s) - 1) /\ (m + 1) + 1 = m + 2
      BY <1>1, <1>9
    <3> QED BY <1>4, <1>5, <3>1
  <2>2. found(s) \in SUBSET Int BY <1>1
  <2>3. \A i \in found(s) : m + 1 <= i BY <1>7
  <2>4. Min(found(s)) = m + 1 BY <2>1, <2>2, <2>3, MinIs
  <2>5. Find(s) = m
    <3>1. found(s) # {} BY <2>1
    <3>2. Find(s) = Min(found(s)) - 1 BY <3>1 DEF Find
    <3> QED BY <1>1, <2>4, <3>2
  <2>6. SubSeq(s, 1, m) = w BY <1>1, <1>2, <1>9, Split DEF c
  <2>7. After(s, m + 2) \in Seq(Symbol) /\ After(s, m + 2) \o t = r
    <3> DEFINE wc == w \o CRLF
    <3>1. wc \in Seq(Symbol) /\ Len(wc) = m + 2
      <4>1. wc \in Seq(Symbol) /\ Len(wc) = Len(w) + Len(CRLF) BY LineEnd, ConcatProperties, Zenon
      <4> QED BY <4>1, LineEnd
    <3>2. s \o t = wc \o r
      <4>1. CRLF \in Seq(Symbol) BY LineEnd
      <4>2. Associates(w, CRLF, r) BY <4>1, Associate, Zenon
      <4> QED BY <4>2 DEF Associates, c
    <3> HIDE DEF wc
    <3>3. Len(wc) <= Len(s) BY <1>9, <3>1
    <3>5. After(s, Len(wc)) \o t = r BY <3>1, <3>2, <3>3, Split
    <3>4. m + 2 \in 0..Len(s) BY <1>1, <1>9
    <3> QED BY <3>1, <3>5, <3>4, Cut
  <2> QED BY <1>9, <2>5, <2>6, <2>7 DEF Text
<1> QED BY <1>1, <1>8, <1>9

NoCr(w) == \A i \in 1..Len(w) : w[i] # CR

Taken(s, t, w, r) ==
  \/ Find(s) = None /\ Len(s) < Len(w) + 2
  \/ /\ Find(s) = Len(w) /\ Len(w) + 2 <= Len(s) /\ Text(s) = w
     /\ After(s, Len(w) + 2) \in Seq(Symbol) /\ After(s, Len(w) + 2) \o t = r

LEMMA TakesLines ==
  \A w, r, s, t \in Seq(Symbol) : NoCr(w) /\ s \o t = w \o (CRLF \o r) => Taken(s, t, w, r)
BY TakesLine DEF NoCr, Taken

-----------------------------------------------------------------------------
(* Chunked bodies. *)

LEMMA PayloadFacts ==
  ASSUME NEW b \in Payloads
  PROVE  /\ b \in Seq(Data) /\ b \in Seq(Symbol) /\ Len(b) \in Nat
         /\ 0..Len(b) \subseteq DOMAIN Number
<1>1. b \in Seq(Data) /\ 0..Len(b) \subseteq DOMAIN Number BY MessagesAssumption
<1>2. Data \subseteq Symbol BY DEF Symbol
<1> QED BY <1>1, <1>2, SeqMonotonic, LenProperties

LEMMA ReadEnds ==
  ASSUME NEW b \in Payloads, NEW o \in 0..Len(b)
  PROVE  /\ ReadEnd(b, o) \in o..Len(b) /\ (o < Len(b) => ReadEnd(b, o) > o)
         /\ ReadEnd(b, o) - o \in DOMAIN Number
<1>1. Len(b) \in Nat /\ 0..Len(b) \subseteq DOMAIN Number BY PayloadFacts
<1>2. ChunkSize \in Nat \ {0} BY MessagesAssumption
<1>3. ReadEnd(b, o) = IF o + ChunkSize <= Len(b) THEN o + ChunkSize ELSE Len(b)
  BY <1>1, <1>2, MinOfTwo DEF ReadEnd
<1>4. ReadEnd(b, o) \in o..Len(b) /\ (o < Len(b) => ReadEnd(b, o) > o) BY <1>1, <1>2, <1>3
<1>5. ReadEnd(b, o) - o \in 0..Len(b) BY <1>1, <1>4
<1> QED BY <1>1, <1>4, <1>5

(* What a read at o and those behind it, f, make.                          *)
Onward(d, b, f, o) ==
  IF o < Len(b)
  THEN SizeLine(o = 0, ReadEnd(b, o) - o) \o SubSeq(b, o + 1, ReadEnd(b, o)) \o f[ReadEnd(b, o)]
  ELSE (IF d = "res" /\ o > 0 THEN <<>> ELSE SizeLine(o = 0, 0)) \o LastChunk

(* The recursion equation of the chunks.                                   *)
LEMMA ChunksUnfold ==
  ASSUME NEW d, NEW b \in Payloads
  PROVE  \A o \in 0..Len(b) : ChunksFrom(d, b)[o] = Onward(d, b, ChunksFrom(d, b), o)
<1> DEFINE l == Len(b)
           Solves(f, i) == \A o \in 0..l : l - o <= i => f[o] = Onward(d, b, f, o)
           S == {i \in Nat : \E f : f = [o \in 0..l |-> f[o]] /\ Solves(f, i)}
<1>1. l \in Nat BY PayloadFacts
<1> HIDE DEF l
<1>2. 0 \in S
  <2> DEFINE f == [o \in 0..l |-> Onward(d, b, [j \in {} |-> 0], o)]
  <2>1. ASSUME NEW o \in 0..l, l - o <= 0 PROVE f[o] = Onward(d, b, f, o)
    <3>1. ~(o < Len(b)) BY <1>1, <2>1 DEF l
    <3> QED BY <3>1 DEF Onward
  <2>2. f = [o \in 0..l |-> f[o]] OBVIOUS
  <2> HIDE DEF f
  <2>3. Solves(f, 0) BY <2>1
  <2> QED BY <2>2, <2>3
<1>3. ASSUME NEW i \in Nat, i \in S PROVE i + 1 \in S
  <2>1. PICK f : f = [o \in 0..l |-> f[o]] /\ Solves(f, i) BY <1>3
  <2> DEFINE g == [o \in 0..l |-> IF l - o <= i THEN f[o] ELSE Onward(d, b, f, o)]
  <2>2. ASSUME NEW o \in 0..l, l - o <= i + 1 PROVE g[o] = Onward(d, b, g, o)
    <3>1. o < Len(b) => g[ReadEnd(b, o)] = f[ReadEnd(b, o)]
      <4>1. ASSUME o < Len(b) PROVE ReadEnd(b, o) \in 0..l /\ l - ReadEnd(b, o) <= i
        <5>1. ReadEnd(b, o) \in o..Len(b) /\ ReadEnd(b, o) > o BY <4>1, ReadEnds DEF l
        <5> QED BY <5>1, <1>1, <2>2 DEF l
      <4> QED BY <4>1
    <3>2. Onward(d, b, g, o) = Onward(d, b, f, o) BY <3>1 DEF Onward
    <3>3. g[o] = Onward(d, b, f, o)
      <4>1. CASE l - o <= i BY <2>1, <4>1
      <4>2. CASE ~(l - o <= i) BY <4>2
      <4> QED BY <4>1, <4>2
    <3> QED BY <3>2, <3>3
  <2>3. g = [o \in 0..l |-> g[o]] OBVIOUS
  <2> HIDE DEF g
  <2>4. Solves(g, i + 1) BY <2>2
  <2>5. i + 1 \in Nat OBVIOUS
  <2> HIDE DEF Solves
  <2> QED BY <2>3, <2>4, <2>5
<1>4. l \in S
  <2> HIDE DEF S
  <2>1. Nat \subseteq S BY <1>2, <1>3, NatSet
  <2> QED BY <1>1, <2>1
<1>5. PICK f : f = [o \in 0..l |-> f[o]] /\ Solves(f, l) BY <1>4
<1>6. \A o \in 0..l : f[o] = Onward(d, b, f, o) BY <1>1, <1>5
<1>7. f = [o \in 0..l |-> Onward(d, b, f, o)] BY <1>5, <1>6, Zenon
<1>8. ChunksFrom(d, b) = CHOOSE h : h = [o \in 0..l |-> Onward(d, b, h, o)]
  BY DEF ChunksFrom, Onward, l
<1>9. ChunksFrom(d, b) = [o \in 0..l |-> Onward(d, b, ChunksFrom(d, b), o)] BY <1>7, <1>8, Zenon
<1> QED BY <1>9, Zenon DEF l

LEMMA SizeLineFacts ==
  ASSUME NEW k \in DOMAIN Number
  PROVE  /\ <<Number[k]>> \in Seq(Symbol) /\ <<Number[k]>> \o CRLF \in Seq(Symbol)
         /\ SizeLine(TRUE, k) = <<Number[k]>> \o CRLF /\ SizeLine(TRUE, k) \in Seq(Symbol)
         /\ SizeLine(FALSE, k) = CRLF \o (<<Number[k]>> \o CRLF) /\ SizeLine(FALSE, k) \in Seq(Symbol)
<1> DEFINE s == <<Number[k]>>
<1>1. s \in Seq(Symbol) /\ CRLF \in Seq(Symbol) BY Numbers, LineEnd
<1>2. SizeLine(TRUE, k) = <<>> \o s \o CRLF /\ SizeLine(FALSE, k) = CRLF \o s \o CRLF
  BY DEF SizeLine
<1> HIDE DEF s
<1>3. s \o CRLF \in Seq(Symbol) BY <1>1, ConcatProperties
<1>4. <<>> \o s = s BY <1>1, ConcatEmptySeq
<1>5. CRLF \o s \o CRLF = CRLF \o (s \o CRLF) BY <1>1, ConcatAssociative
<1>6. CRLF \o (s \o CRLF) \in Seq(Symbol) BY <1>1, <1>3, ConcatProperties
<1> QED BY <1>1, <1>2, <1>3, <1>4, <1>5, <1>6 DEF s

LEMMA LastChunkFacts ==
  ASSUME NEW b \in Payloads
  PROVE  /\ LastChunk \in Seq(Symbol) /\ 0 \in DOMAIN Number
         /\ LastChunk = CRLF \o (<<Number[0]>> \o (CRLF \o CRLF))
<1> DEFINE s == <<Number[0]>>
<1>1. 0 \in DOMAIN Number BY PayloadFacts
<1>2. s \in Seq(Symbol) /\ CRLF \in Seq(Symbol) BY <1>1, Numbers, LineEnd
<1>3. s \o CRLF \in Seq(Symbol) /\ SizeLine(FALSE, 0) = CRLF \o (s \o CRLF) BY <1>1, SizeLineFacts
<1> HIDE DEF s
<1>4. (CRLF \o (s \o CRLF)) \o CRLF = CRLF \o ((s \o CRLF) \o CRLF) BY <1>2, <1>3, ConcatAssociative
<1>5. (s \o CRLF) \o CRLF = s \o (CRLF \o CRLF) BY <1>2, ConcatAssociative
<1>6. CRLF \o CRLF \in Seq(Symbol) BY <1>2, ConcatProperties
<1>7. s \o (CRLF \o CRLF) \in Seq(Symbol) BY <1>2, <1>6, ConcatProperties
<1>8. CRLF \o (s \o (CRLF \o CRLF)) \in Seq(Symbol) BY <1>2, <1>7, ConcatProperties
<1>9. LastChunk = CRLF \o (s \o (CRLF \o CRLF)) BY <1>3, <1>4, <1>5 DEF LastChunk
<1> QED BY <1>1, <1>8, <1>9 DEF s

LEMMA PartOfPayload ==
  ASSUME NEW b \in Payloads, NEW i \in 1..(Len(b) + 1), NEW j \in (i - 1)..Len(b)
  PROVE  SubSeq(b, i, j) \in Seq(Symbol) /\ Len(SubSeq(b, i, j)) = j - i + 1
<1>1. b \in Seq(Symbol) /\ Len(b) \in Nat BY PayloadFacts
<1>2. \A k \in i..j : b[k] \in Symbol
  <2> TAKE k \in i..j
  <2>1. k \in 1..Len(b) BY <1>1
  <2> QED BY <1>1, <2>1, ElementOfSeq
<1>3. i \in Int /\ j \in Int BY <1>1
<1>4. SubSeq(b, i, j) \in Seq(Symbol) /\ Len(SubSeq(b, i, j)) = IF i <= j THEN j - i + 1 ELSE 0
  BY <1>2, <1>3, SubSeqProperties
<1> QED BY <1>1, <1>3, <1>4

LEMMA PartBehind ==
  ASSUME NEW b \in Payloads, NEW o \in 0..Len(b), NEW e \in o..Len(b)
  PROVE  SubSeq(b, o + 1, e) \in Seq(Symbol)
<1>1. Len(b) \in Nat BY PayloadFacts
<1>2. o + 1 \in 1..(Len(b) + 1) /\ e \in (o + 1 - 1)..Len(b) BY <1>1
<1> QED BY <1>2, PartOfPayload

LEMMA ChunksAreSymbols ==
  ASSUME NEW d, NEW b \in Payloads
  PROVE  \A o \in 0..Len(b) : ChunksFrom(d, b)[o] \in Seq(Symbol)
<1> DEFINE l == Len(b)
           C == ChunksFrom(d, b)
           S == {i \in Nat : \A o \in 0..l : l - o <= i => C[o] \in Seq(Symbol)}
<1>1. l \in Nat BY PayloadFacts
<1> HIDE DEF C
<1>2. ASSUME NEW o \in 0..l, o < l => C[ReadEnd(b, o)] \in Seq(Symbol) PROVE C[o] \in Seq(Symbol)
  <2>1. C[o] = Onward(d, b, C, o) BY ChunksUnfold DEF C
  <2>2. CASE o < l
    <3> DEFINE e == ReadEnd(b, o)
               z == SizeLine(o = 0, e - o)
               s == SubSeq(b, o + 1, e)
    <3>1. e \in o..l /\ e - o \in DOMAIN Number BY ReadEnds
    <3>2. z \in Seq(Symbol)
      <4>1. (o = 0) = TRUE \/ (o = 0) = FALSE OBVIOUS
      <4> QED BY <3>1, <4>1, SizeLineFacts
    <3>3. s \in Seq(Symbol)
      <4>1. o + 1 \in 1..(Len(b) + 1) /\ e \in (o + 1 - 1)..Len(b) BY <1>1, <3>1
      <4> QED BY <4>1, PartOfPayload
    <3>4. C[o] = z \o s \o C[e] BY <2>1, <2>2 DEF Onward
    <3>5. C[e] \in Seq(Symbol) BY <1>2, <2>2
    <3> HIDE DEF e, z, s
    <3>6. z \o s \in Seq(Symbol) BY <3>2, <3>3, ConcatProperties
    <3> QED BY <3>4, <3>5, <3>6, ConcatProperties
  <2>3. CASE ~(o < l)
    <3> DEFINE z == SizeLine(o = 0, 0)
    <3>1. LastChunk \in Seq(Symbol) /\ 0 \in DOMAIN Number BY LastChunkFacts
    <3>2. z \in Seq(Symbol)
      <4>1. (o = 0) = TRUE \/ (o = 0) = FALSE OBVIOUS
      <4> QED BY <3>1, <4>1, SizeLineFacts
    <3>3. C[o] = <<>> \o LastChunk \/ C[o] = z \o LastChunk BY <2>1, <2>3 DEF Onward
    <3> HIDE DEF z
    <3>4. <<>> \in Seq(Symbol) OBVIOUS
    <3> QED BY <3>1, <3>2, <3>3, <3>4, ConcatProperties
  <2> QED BY <2>2, <2>3
<1>3. 0 \in S
  <2>1. \A o \in 0..l : l - o <= 0 => ~(o < l) BY <1>1
  <2> QED BY <1>2, <2>1
<1>4. ASSUME NEW i \in Nat, i \in S PROVE i + 1 \in S
  <2>1. ASSUME NEW o \in 0..l, l - o <= i + 1 PROVE C[o] \in Seq(Symbol)
    <3>1. ASSUME o < l PROVE C[ReadEnd(b, o)] \in Seq(Symbol)
      <4>1. ReadEnd(b, o) \in o..l /\ ReadEnd(b, o) > o BY <3>1, ReadEnds
      <4>2. ReadEnd(b, o) \in 0..l /\ l - ReadEnd(b, o) <= i BY <1>1, <2>1, <4>1
      <4> QED BY <1>4, <4>2
    <3> QED BY <1>2, <3>1
  <2> QED BY <2>1
<1>5. l \in S
  <2> HIDE DEF S
  <2>1. Nat \subseteq S BY <1>3, <1>4, NatSet
  <2> QED BY <1>1, <2>1
<1>6. \A o \in 0..l : l - o <= l BY <1>1
<1> QED BY <1>5, <1>6 DEF C

(* From the size of the chunk at o on, and what is behind its size line.   *)
Behind(d, b, o) ==
  IF o < Len(b) THEN SubSeq(b, o + 1, ReadEnd(b, o)) \o ChunksFrom(d, b)[ReadEnd(b, o)]
  ELSE IF d = "req" \/ o = 0 THEN LastChunk ELSE CRLF
Sized(d, b, o) == <<Number[ReadEnd(b, o) - o]>> \o (CRLF \o Behind(d, b, o))

LEMMA ChunkShape ==
  ASSUME NEW d \in Dir, NEW b \in Payloads, NEW o \in 0..Len(b)
  PROVE  /\ Behind(d, b, o) \in Seq(Symbol) /\ CRLF \o Behind(d, b, o) \in Seq(Symbol)
         /\ Sized(d, b, o) \in Seq(Symbol)
         /\ o = 0 => ChunksFrom(d, b)[o] = Sized(d, b, o)
         /\ o > 0 => ChunksFrom(d, b)[o] = CRLF \o Sized(d, b, o)
<1> DEFINE C == ChunksFrom(d, b)
           l == Len(b)
           e == ReadEnd(b, o)
           w == <<Number[e - o]>>
           z == SizeLine(o = 0, e - o)
           r == Behind(d, b, o)
<1>1. l \in Nat /\ e \in o..l /\ e - o \in DOMAIN Number /\ (o < l => e > o)
  BY PayloadFacts, ReadEnds
<1>2. CRLF \in Seq(Symbol) /\ w \in Seq(Symbol) /\ w \o CRLF \in Seq(Symbol) BY <1>1, SizeLineFacts, LineEnd
<1>3. o = 0 => z = w \o CRLF
  <2>1. SizeLine(TRUE, e - o) = w \o CRLF BY <1>1, SizeLineFacts
  <2> QED BY <2>1
<1>4. o > 0 => z = CRLF \o (w \o CRLF)
  <2>1. SizeLine(FALSE, e - o) = CRLF \o (w \o CRLF) BY <1>1, SizeLineFacts
  <2>2. o > 0 => (o = 0) = FALSE OBVIOUS
  <2> QED BY <2>1, <2>2
<1>5. C[o] = Onward(d, b, C, o) BY ChunksUnfold
<1>6. LastChunk \in Seq(Symbol) BY LastChunkFacts
<1>7. r \in Seq(Symbol) /\ (C[o] = z \o r \/ (o > 0 /\ C[o] = CRLF \o (w \o (CRLF \o r))))
  <2>1. CASE o < l
    <3> DEFINE s == SubSeq(b, o + 1, e)
    <3>1. s \in Seq(Symbol)
      <4>1. o + 1 \in 1..(Len(b) + 1) /\ e \in (o + 1 - 1)..Len(b) BY <1>1
      <4> QED BY <4>1, PartOfPayload
    <3>2. C[e] \in Seq(Symbol)
      <4>1. e \in 0..Len(b) BY <1>1
      <4> QED BY <4>1, ChunksAreSymbols
    <3>3. z \in Seq(Symbol)
      <4>1. CRLF \o (w \o CRLF) \in Seq(Symbol)
        <5> HIDE DEF w
        <5> QED BY <1>2, ConcatProperties
      <4>2. o = 0 \/ o > 0 OBVIOUS
      <4> HIDE DEF z, w
      <4> QED BY <1>2, <1>3, <1>4, <4>1, <4>2
    <3>4. C[o] = z \o s \o C[e] /\ r = s \o C[e] BY <1>5, <2>1 DEF Onward, Behind
    <3> HIDE DEF C, e, z, s, r
    <3>5. (z \o s) \o C[e] = z \o (s \o C[e]) BY <3>1, <3>2, <3>3, Assoc
    <3>6. s \o C[e] \in Seq(Symbol) BY <3>1, <3>2, ConcatProperties
    <3> QED BY <3>4, <3>5, <3>6
  <2>2. CASE ~(o < l) /\ ~(d = "res" /\ o > 0)
    <3>1. e - o = 0 /\ (d = "req" \/ o = 0) BY <1>1, <2>2 DEF Dir
    <3>2. r = LastChunk BY <2>2, <3>1 DEF Behind
    <3>3. C[o] = SizeLine(o = 0, 0) \o LastChunk BY <1>5, <2>2 DEF Onward
    <3> QED BY <1>6, <3>1, <3>2, <3>3
  <2>3. CASE ~(o < l) /\ d = "res" /\ o > 0
    <3>1. e - o = 0 /\ d # "req" BY <1>1, <2>3
    <3>2. r = CRLF BY <2>3, <3>1 DEF Behind
    <3>3. C[o] = <<>> \o LastChunk BY <1>5, <2>3 DEF Onward
    <3>4. C[o] = LastChunk BY <1>6, <3>3, ConcatEmptySeq
    <3>5. LastChunk = CRLF \o (w \o (CRLF \o CRLF)) BY <3>1, LastChunkFacts
    <3> QED BY <1>2, <2>3, <3>2, <3>4, <3>5
  <2> QED BY <2>1, <2>2, <2>3
<1> HIDE DEF C, e, w, z, r
<1>8. CRLF \o r \in Seq(Symbol) BY <1>2, <1>7, ConcatProperties, Zenon
<1>9. (w \o CRLF) \o r = w \o (CRLF \o r)
  <2>1. Associates(w, CRLF, r) BY <1>2, <1>7, Associate, Zenon
  <2> QED BY <2>1 DEF Associates
<1>10. (CRLF \o (w \o CRLF)) \o r = CRLF \o (w \o (CRLF \o r))
  <2>1. w \o CRLF \in Seq(Symbol) BY <1>2, ConcatProperties, Zenon
  <2>2. Associates(CRLF, w \o CRLF, r) BY <1>2, <1>7, <2>1, Associate, Zenon
  <2> QED BY <1>9, <2>2 DEF Associates
<1>11. Sized(d, b, o) = w \o (CRLF \o r) BY DEF Sized, w, r, e
<1>12. w \o (CRLF \o r) \in Seq(Symbol) BY <1>2, <1>8, ConcatProperties
<1>13. o = 0 => C[o] = w \o (CRLF \o r)
  <2>1. o = 0 => C[o] = z \o r BY <1>7
  <2> QED BY <1>3, <1>9, <2>1, Zenon
<1>14. o > 0 => C[o] = CRLF \o (w \o (CRLF \o r))
  <2>1. o > 0 => C[o] = z \o r \/ C[o] = CRLF \o (w \o (CRLF \o r)) BY <1>7
  <2> QED BY <1>4, <1>10, <2>1, Zenon
<1> QED BY <1>7, <1>8, <1>11, <1>12, <1>13, <1>14 DEF C, r

(* strToNum of the text of a size, and of that behind a LF.                *)
LEMMA SizeRead ==
  ASSUME NEW k \in DOMAIN Number
  PROVE  StrToNum(<<Number[k]>>) = k /\ StrToNum(<<LF, Number[k]>>) = k
<1>1. k \in Nat /\ SizeOf(Number[k]) = k BY Numbers
<1>2. Digit(Number[k]) = k BY <1>1 DEF Digit
<1>3. Digit(LF) = 0 BY MessagesAssumption DEF Digit
<1>4. ASSUME NEW text, NEW m \in {1, 2}, Len(text) = m, Digit(text[m]) = k, m = 2 => Digit(text[1]) = 0
      PROVE  StrToNum(text) = k
  <2> DEFINE Step(f) == [i \in 0..Len(text) |-> IF i = 0 THEN 0 ELSE 16 * f[i - 1] + Digit(text[i])]
             value == CHOOSE f : f = Step(f)
             f0 == [i \in 0..m |-> IF i = m THEN k ELSE 0]
  <2>1. f0 = Step(f0)
    <3>1. ASSUME NEW i \in 0..m PROVE f0[i] = IF i = 0 THEN 0 ELSE 16 * f0[i - 1] + Digit(text[i])
      <4>1. CASE i = 0 BY <4>1, <1>4
      <4>2. CASE i = m
        <5>1. m - 1 \in 0..m /\ f0[m - 1] = 0 /\ f0[m] = k BY <1>4
        <5> HIDE DEF f0
        <5> QED BY <1>1, <1>4, <4>2, <5>1
      <4>3. CASE i = 1 /\ m = 2
        <5>1. f0[0] = 0 /\ f0[1] = 0 BY <4>3
        <5> HIDE DEF f0
        <5> QED BY <1>4, <4>3, <5>1
      <4> QED BY <1>4, <4>1, <4>2, <4>3
    <3>2. f0 = [i \in 0..m |-> f0[i]] OBVIOUS
    <3> HIDE DEF f0
    <3>3. f0 = [i \in 0..m |-> IF i = 0 THEN 0 ELSE 16 * f0[i - 1] + Digit(text[i])]
      BY <3>1, <3>2, Zenon
    <3> QED BY <1>4, <3>3
  <2> HIDE DEF f0
  <2>2. value = Step(value)
    <3> HIDE DEF Step
    <3> QED BY <2>1
  <2>3. StrToNum(text) = value[Len(text)] BY DEF StrToNum
  <2> HIDE DEF value
  <2>4. \A i \in 0..m : value[i] = IF i = 0 THEN 0 ELSE 16 * value[i - 1] + Digit(text[i])
    BY <1>4, <2>2
  <2>5. value[0] = 0 BY <2>4
  <2>6. value[m] = k
    <3>1. CASE m = 1
      <4>1. value[1] = 16 * value[0] + Digit(text[1]) BY <2>4, <3>1
      <4> QED BY <1>1, <1>4, <2>5, <3>1, <4>1
    <3>2. CASE m = 2
      <4>1. value[1] = 16 * value[0] + Digit(text[1]) BY <2>4, <3>2
      <4>2. value[2] = 16 * value[1] + Digit(text[2]) BY <2>4, <3>2
      <4> QED BY <1>1, <1>4, <2>5, <3>2, <4>1, <4>2
    <3> QED BY <1>4, <3>1, <3>2
  <2> QED BY <1>4, <2>3, <2>6
<1>5. StrToNum(<<Number[k]>>) = k
  <2> DEFINE text == <<Number[k]>>
  <2>1. Len(text) = 1 /\ text[1] = Number[k] OBVIOUS
  <2> HIDE DEF text
  <2>2. StrToNum(text) = k BY <1>2, <1>4, <2>1
  <2> QED BY <2>2 DEF text
<1>6. StrToNum(<<LF, Number[k]>>) = k
  <2> DEFINE text == <<LF, Number[k]>>
  <2>1. Len(text) = 2 /\ text[1] = LF /\ text[2] = Number[k] OBVIOUS
  <2> HIDE DEF text
  <2>2. StrToNum(text) = k BY <1>2, <1>3, <1>4, <2>1
  <2> QED BY <2>2 DEF text
<1> QED BY <1>5, <1>6

-----------------------------------------------------------------------------
(* The invariant: what a parser holds and what is on its way to it make up *)
(* the rest of the message it is in, and the one behind it.                *)

Framing == {"none", "length", "chunked"}
Fields == {"at", "buf", "line", "head", "framing", "len", "rem", "body", "marked", "whole"}

ParserOK(q) == DOMAIN q = Fields /\ q.buf \in Seq(Symbol) /\ q.body \in Seq(Symbol)

Fits(fr, b) == fr \in Framing /\ b \in Payloads /\ (fr = "none" => b = <<>>)

(* The messages of t behind the first k, of which there is one at most.    *)
Coming(d, t, k) ==
  IF Len(t) = k THEN {<<>>}
  ELSE {Message(d, fr, t[k + 1]) : fr \in {f \in Framing : Len(t) = k + 1 /\ Fits(f, t[k + 1])}}

Unbegun(q) == q.rem = None /\ q.body = <<>> /\ ~q.whole /\ ~q.marked
Said(q, fr, b) == q.framing = fr /\ (fr = "length" => q.len = Len(b))
(* It waits for bytes only when it lacks some.                             *)
NoLine(q) == q.at = "recv" => Find(q.buf) = None

InLine(d, q, w, fr, b) ==
  /\ q.at \in {"recv", "line"} /\ q.line = <<>> /\ ~q.head /\ q.framing = "none" /\ Unbegun(q)
  /\ NoLine(q)
  /\ q.buf \o w = <<"L">> \o (CRLF \o (Header(fr, b) \o (CRLF \o Body(d, fr, b))))

InHeader(d, q, w, fr, b) ==
  /\ q.at \in {"recv", "header"} /\ q.line # <<>> /\ ~q.head /\ Unbegun(q)
  /\ NoLine(q)
  /\ \/ q.framing = "none" /\ q.buf \o w = Header(fr, b) \o (CRLF \o Body(d, fr, b))
     \/ Said(q, fr, b) /\ q.buf \o w = CRLF \o Body(d, fr, b)

(* A body that is not chunked, at any place.                               *)
InPlain(q, w, b, later) ==
  /\ q.framing # "chunked" /\ q.at \in {"ready", "recv", "body", "done"}
  /\ q.at = "ready" => Unbegun(q)
  /\ q.body \o (q.buf \o w) = b \o later
  /\ Len(q.body) + Len(q.buf) <= Len(b)
  /\ q.rem = Len(b) - Len(q.body) \/ (q.rem = None /\ q.body = <<>>)
  /\ q.at = "recv" => q.framing = "length" /\ q.rem > 0 /\ q.buf = <<>>
  /\ q.at = "done" => Len(q.body) = Len(b)

Upto(b, o) == SubSeq(b, 1, o)

(* Before the size of a chunk.                                             *)
AtChunk(d, q, w, b, later) ==
  /\ q.framing = "chunked" /\ q.at \in {"ready", "recv", "body", "chunk"}
  /\ q.rem # None => q.whole
  /\ q.at = "ready" => Unbegun(q)
  /\ NoLine(q)
  /\ Len(q.body) <= Len(b) /\ q.body = Upto(b, Len(q.body))
  /\ \E lead \in {<<>>, <<LF>>} : q.buf \o w = lead \o (Sized(d, b, Len(q.body)) \o later)

(* Within the data of a chunk.                                             *)
InChunk(d, q, w, b, later) ==
  /\ q.framing = "chunked" /\ q.at \in {"recv", "body"} /\ ~q.whole
  /\ q.at = "recv" => q.buf = <<>>
  /\ q.rem \in Nat
  /\ \E e \in 1..Len(b) :
       /\ Len(q.body) + q.rem = e
       /\ q.body \o (q.buf \o w) = Upto(b, e) \o (ChunksFrom(d, b)[e] \o later)

Threw(q, w) == q.at = "threw" /\ q.whole /\ w # <<>> /\ w[1] = LF

ChunksDone(q, w, b, more) ==
  /\ q.at = "done" /\ q.framing = "chunked" /\ q.body = b
  /\ more => \E i \in 1..Len(q.buf \o w) : (q.buf \o w)[i] = "L"

Before(d, q, w, t, k) ==
  /\ Len(t) = k + 1
  /\ \E fr \in Framing :
       Fits(fr, t[k + 1]) /\ (InLine(d, q, w, fr, t[k + 1]) \/ InHeader(d, q, w, fr, t[k + 1]))

Within(d, q, w, t, k) ==
  /\ Len(t) \in {k + 1, k + 2} /\ q.head
  /\ \E fr \in Framing, later \in Coming(d, t, k + 1) :
       /\ Fits(fr, t[k + 1]) /\ Said(q, fr, t[k + 1])
       /\ \/ InPlain(q, w, t[k + 1], later)
          \/ AtChunk(d, q, w, t[k + 1], later)
          \/ InChunk(d, q, w, t[k + 1], later)

Over(q, w, t, k) ==
  /\ Len(t) \in {k + 1, k + 2} /\ q.head
  /\ Threw(q, w) \/ ChunksDone(q, w, t[k + 1], Len(t) = k + 2)

(* The parser q has parsed the first k of the messages t, and w is on its  *)
(* way to it.                                                              *)
Stream(d, q, w, t, k) ==
  \/ Len(t) = k /\ q = Fresh /\ w = <<>>
  \/ Before(d, q, w, t, k)
  \/ Within(d, q, w, t, k)
  \/ Over(q, w, t, k)

-----------------------------------------------------------------------------
(* Messages. *)

LEMMA HeaderFacts ==
  ASSUME NEW fr, NEW b, Fits(fr, b)
  PROVE  /\ Header(fr, b) \in Seq(Symbol)
         /\ fr = "none" => Header(fr, b) = <<>>
         /\ fr = "length" => /\ Len(b) \in DOMAIN Number /\ <<"len", Number[Len(b)]>> \in Seq(Symbol)
                             /\ Header(fr, b) = <<"len", Number[Len(b)]>> \o CRLF
         /\ fr = "chunked" => <<"te">> \in Seq(Symbol) /\ Header(fr, b) = <<"te">> \o CRLF
<1>1. CRLF \in Seq(Symbol) /\ {"len", "te"} \subseteq Symbol BY LineEnd DEF Symbol
<1>2. Len(b) \in DOMAIN Number /\ Number[Len(b)] \in Symbol BY PayloadFacts, Numbers DEF Fits
<1> DEFINE s == <<"len", Number[Len(b)]>>
           u == <<"te">>
<1>3. s \in Seq(Symbol) /\ u \in Seq(Symbol) BY <1>1, <1>2
<1>4. /\ fr = "none" => Header(fr, b) = <<>>
      /\ fr = "length" => Header(fr, b) = s \o CRLF
      /\ fr = "chunked" => Header(fr, b) = u \o CRLF
  BY DEF Header
<1> HIDE DEF s, u
<1>5. Header(fr, b) \in Seq(Symbol)
  <2>1. s \o CRLF \in Seq(Symbol) /\ u \o CRLF \in Seq(Symbol) BY <1>1, <1>3, ConcatProperties
  <2>2. <<>> \in Seq(Symbol) OBVIOUS
  <2> QED BY <1>4, <2>1, <2>2 DEF Fits, Framing
<1> QED BY <1>2, <1>3, <1>4, <1>5 DEF s, u

LEMMA MessageFacts ==
  ASSUME NEW d \in Dir, NEW fr, NEW b, Fits(fr, b)
  PROVE  /\ Body(d, fr, b) \in Seq(Symbol) /\ CRLF \o Body(d, fr, b) \in Seq(Symbol)
         /\ Header(fr, b) \o (CRLF \o Body(d, fr, b)) \in Seq(Symbol)
         /\ Message(d, fr, b) = <<"L">> \o (CRLF \o (Header(fr, b) \o (CRLF \o Body(d, fr, b))))
         /\ Message(d, fr, b) \in Seq(Symbol) /\ Len(Message(d, fr, b)) > 0
         /\ Message(d, fr, b)[1] = "L"
<1> DEFINE h == Header(fr, b)
           y == Body(d, fr, b)
           l == <<"L">>
<1>1. CRLF \in Seq(Symbol) /\ h \in Seq(Symbol) BY LineEnd, HeaderFacts
<1>2. l \in Seq(Symbol) /\ Len(l) = 1 /\ l[1] = "L" BY DEF Symbol
<1>3. y \in Seq(Symbol)
  <2>1. b \in Payloads /\ 0 \in 0..Len(b) BY PayloadFacts DEF Fits
  <2>2. ChunksFrom(d, b)[0] \in Seq(Symbol) BY <2>1, ChunksAreSymbols
  <2>3. b \in Seq(Symbol) /\ <<>> \in Seq(Symbol) BY <2>1, PayloadFacts
  <2> QED BY <2>2, <2>3 DEF Body
<1>4. Message(d, fr, b) = (l \o CRLF \o h \o CRLF) \o y BY DEF Message, LineAndHead
<1> HIDE DEF h, y, l
<1>5. CRLF \o y \in Seq(Symbol) BY <1>1, <1>3, Assoc
<1>6. h \o (CRLF \o y) \in Seq(Symbol) BY <1>1, <1>5, Assoc
<1>7. CRLF \o (h \o (CRLF \o y)) \in Seq(Symbol) BY <1>1, <1>6, Assoc
<1>8. l \o CRLF \in Seq(Symbol) /\ (l \o CRLF) \o h \in Seq(Symbol) BY <1>1, <1>2, Assoc
<1>9. (((l \o CRLF) \o h) \o CRLF) \o y = l \o (CRLF \o (h \o (CRLF \o y)))
  <2> DEFINE a == l \o CRLF
             g == a \o h
             z == CRLF \o y
  <2>4. a \in Seq(Symbol) /\ g \in Seq(Symbol) BY <1>8
  <2>1. (g \o CRLF) \o y = g \o (CRLF \o y)
    <3> HIDE DEF a, g
    <3>1. Associates(g, CRLF, y) BY <1>1, <1>3, <2>4, Associate, Zenon
    <3> QED BY <3>1 DEF Associates
  <2>2. (a \o h) \o z = a \o (h \o z)
    <3>1. z \in Seq(Symbol) BY <1>5
    <3> HIDE DEF a, g, z
    <3>2. h \in Seq(Symbol) /\ a \in Seq(Symbol) BY <1>1, <2>4
    <3>3. \A s, u, v \in Seq(Symbol) : (s \o u) \o v = s \o (u \o v) BY Assoc
    <3> QED BY <3>1, <3>2, <3>3, Zenon
  <2>3. (l \o CRLF) \o (h \o (CRLF \o y)) = l \o (CRLF \o (h \o (CRLF \o y)))
    BY <1>1, <1>2, <1>6, Assoc
  <2> QED BY <2>1, <2>2, <2>3
<1> DEFINE x == CRLF \o (h \o (CRLF \o y))
<1>10. l \o x \in Seq(Symbol) /\ Len(l \o x) > 0 /\ (l \o x)[1] = "L"
  <2>1. x \in Seq(Symbol) /\ Len(x) \in Nat BY <1>7, LenProperties
  <2> HIDE DEF x
  <2>2. l \o x \in Seq(Symbol) /\ Len(l \o x) = 1 + Len(x)
    <3>1. l \o x \in Seq(Symbol) /\ Len(l \o x) = Len(l) + Len(x)
      BY <1>2, <2>1, ConcatProperties, Zenon
    <3> QED BY <1>2, <3>1
  <2>3. 1 \in 1..Len(l) BY <1>2
  <2>4. (l \o x)[1] = l[1] BY <1>2, <2>1, <2>3, ConcatAt
  <2> QED BY <1>2, <2>1, <2>2, <2>4
<1> QED BY <1>3, <1>4, <1>5, <1>6, <1>9, <1>10 DEF h, y, l

LEMMA ComingFacts ==
  ASSUME NEW d \in Dir, NEW t \in Seq(Payloads), NEW k \in Nat, NEW later \in Coming(d, t, k)
  PROVE  /\ later \in Seq(Symbol) /\ Len(t) \in {k, k + 1}
         /\ Len(t) = k => later = <<>>
         /\ Len(t) = k + 1 => /\ Len(later) > 0 /\ later[1] = "L"
                              /\ \E fr \in Framing : Fits(fr, t[k + 1]) /\ later = Message(d, fr, t[k + 1])
<1>1. CASE Len(t) = k
  <2>1. later = <<>> BY <1>1 DEF Coming
  <2> QED BY <1>1, <2>1
<1>2. CASE Len(t) # k
  <2>1. PICK fr \in Framing : Len(t) = k + 1 /\ Fits(fr, t[k + 1]) /\ later = Message(d, fr, t[k + 1])
    BY <1>2 DEF Coming
  <2> QED BY <2>1, MessageFacts
<1> QED BY <1>1, <1>2

-----------------------------------------------------------------------------
(* Reading keeps the invariant. *)

LEMMA Moved ==
  ASSUME NEW s \in Seq(Symbol), NEW w \in Seq(Symbol), NEW j \in 1..Len(w)
  PROVE  /\ s \o SubSeq(w, 1, j) \in Seq(Symbol) /\ After(w, j) \in Seq(Symbol)
         /\ Len(s \o SubSeq(w, 1, j)) = Len(s) + j
         /\ (s \o SubSeq(w, 1, j)) \o After(w, j) = s \o w
<1> DEFINE u == SubSeq(w, 1, j)
           a == After(w, j)
<1>1. j \in 0..Len(w) BY LenProperties
<1>2. u \in Seq(Symbol) /\ Len(u) = j /\ a \in Seq(Symbol) /\ w = u \o a BY <1>1, Cut
<1> HIDE DEF u, a
<1>3. (s \o u) \o a = s \o (u \o a) /\ s \o u \in Seq(Symbol) BY <1>2, Assoc
<1>4. Len(s \o u) = Len(s) + j BY <1>2, ConcatProperties
<1>5. (s \o u) \o a = s \o w BY <1>2, <1>3
<1> QED BY <1>2, <1>3, <1>4, <1>5 DEF u, a

Received(q, w, j) ==
  [q EXCEPT !.buf = @ \o SubSeq(w, 1, j),
            !.at = IF q.head THEN "body" ELSE IF q.line = <<>> THEN "line" ELSE "header"]

LEMMA RecvStream ==
  ASSUME NEW d \in Dir, NEW q, ParserOK(q), NEW w \in Seq(Symbol), NEW t \in Seq(Payloads), NEW k \in Nat,
         Stream(d, q, w, t, k), q.at = "recv", NEW j \in 1..Len(w),
         q.head /\ q.framing = "length" => j <= q.rem
  PROVE  /\ ParserOK(Received(q, w, j)) /\ Stream(d, Received(q, w, j), After(w, j), t, k)
         /\ k < Len(t)
<1> SUFFICES ASSUME NEW r, r = [q EXCEPT
                      !.buf = @ \o SubSeq(w, 1, j),
                      !.at = IF q.head THEN "body" ELSE IF q.line = <<>> THEN "line" ELSE "header"]
             PROVE  ParserOK(r) /\ Stream(d, r, After(w, j), t, k) /\ k < Len(t)
  BY DEF Received
<1> DEFINE s == q.buf \o SubSeq(w, 1, j)
           v == After(w, j)
<1>1. /\ DOMAIN r = Fields /\ r.buf = s /\ r.line = q.line /\ r.head = q.head /\ r.framing = q.framing
      /\ r.len = q.len /\ r.rem = q.rem /\ r.body = q.body /\ r.marked = q.marked /\ r.whole = q.whole
      /\ r.at = IF q.head THEN "body" ELSE IF q.line = <<>> THEN "line" ELSE "header"
  BY DEF ParserOK, Fields
<1>2. /\ s \in Seq(Symbol) /\ v \in Seq(Symbol) /\ s \o v = q.buf \o w /\ Len(s) = Len(q.buf) + j
      /\ Len(w) \in Nat
  BY Moved, LenProperties DEF ParserOK
<1> HIDE DEF s, v
<1>3. ParserOK(r) BY <1>1, <1>2 DEF ParserOK
<1>4. ~(Len(t) = k /\ q = Fresh /\ w = <<>>) BY <1>2, EmptySeq
<1>5. ASSUME Before(d, q, w, t, k) PROVE Before(d, r, v, t, k)
  <2>1. PICK fr \in Framing :
          Fits(fr, t[k + 1]) /\ (InLine(d, q, w, fr, t[k + 1]) \/ InHeader(d, q, w, fr, t[k + 1]))
    BY <1>5 DEF Before
  <2>2. CASE InLine(d, q, w, fr, t[k + 1])
    <3>1. r.buf \o v = q.buf \o w BY <1>1, <1>2
    <3>2. q.line = <<>> /\ ~q.head /\ q.framing = "none" /\ Unbegun(q) BY <2>2 DEF InLine
    <3>3. r.at = "line" BY <1>1, <3>2
    <3>4. Unbegun(r) /\ NoLine(r) BY <1>1, <3>2, <3>3 DEF Unbegun, NoLine
    <3>5. r.line = <<>> /\ ~r.head /\ r.framing = "none" BY <1>1, <3>2
    <3>6. InLine(d, r, v, fr, t[k + 1]) BY <2>2, <3>1, <3>3, <3>4, <3>5 DEF InLine
    <3> QED BY <1>5, <2>1, <3>6 DEF Before
  <2>3. CASE InHeader(d, q, w, fr, t[k + 1])
    <3>1. r.buf \o v = q.buf \o w BY <1>1, <1>2
    <3>2. q.line # <<>> /\ ~q.head /\ Unbegun(q) BY <2>3 DEF InHeader
    <3>3. r.at = "header" BY <1>1, <3>2
    <3>4. Unbegun(r) /\ NoLine(r) BY <1>1, <3>2, <3>3 DEF Unbegun, NoLine
    <3>5. r.line # <<>> /\ ~r.head /\ r.framing = q.framing BY <1>1, <3>2
    <3>6. Said(q, fr, t[k + 1]) => Said(r, fr, t[k + 1]) BY <1>1 DEF Said
    <3>7. InHeader(d, r, v, fr, t[k + 1]) BY <2>3, <3>1, <3>3, <3>4, <3>5, <3>6 DEF InHeader
    <3> QED BY <1>5, <2>1, <3>7 DEF Before
  <2> QED BY <2>1, <2>2, <2>3
<1>6. ASSUME Within(d, q, w, t, k) PROVE Within(d, r, v, t, k)
  <2> DEFINE b == t[k + 1]
  <2>1. PICK fr \in Framing, later \in Coming(d, t, k + 1) :
          /\ Fits(fr, b) /\ Said(q, fr, b)
          /\ InPlain(q, w, b, later) \/ AtChunk(d, q, w, b, later) \/ InChunk(d, q, w, b, later)
    BY <1>6 DEF Within
  <2>2. Said(r, fr, b) /\ r.head /\ r.at = "body" BY <1>1, <1>6, <2>1 DEF Said, Within
  <2>3. CASE InPlain(q, w, b, later)
    <3>1. q.framing = "length" /\ q.rem > 0 /\ q.buf = <<>> BY <2>3 DEF InPlain
    <3>2. q.rem = Len(b) - Len(q.body)
      <4>1. q.rem # None BY <3>1 DEF None
      <4> QED BY <2>3, <4>1 DEF InPlain
    <3>3. j <= q.rem BY <1>6, <3>1 DEF Within
    <3>4. Len(r.body) + Len(r.buf) <= Len(b)
      <4>1. Len(q.body) \in Nat /\ Len(b) \in Nat /\ Len(s) = j
        <5>1. Len(q.body) \in Nat BY LenProperties DEF ParserOK
        <5>2. Len(b) \in Nat BY <2>1, PayloadFacts DEF Fits
        <5>3. Len(s) = Len(q.buf) + j BY <1>2
        <5> QED BY <3>1, <5>1, <5>2, <5>3
      <4>2. Len(r.body) = Len(q.body) /\ Len(r.buf) = Len(s) BY <1>1
      <4>3. j \in Nat BY <1>2
      <4>4. j <= Len(b) - Len(q.body) BY <3>2, <3>3
      <4> HIDE DEF b
      <4>5. Len(q.body) + j <= Len(b) BY <4>1, <4>3, <4>4
      <4> QED BY <4>1, <4>2, <4>5
    <3>5. InPlain(r, v, b, later) BY <1>1, <1>2, <2>2, <2>3, <3>4 DEF InPlain
    <3> QED BY <1>6, <2>1, <2>2, <3>5 DEF Within
  <2>4. CASE AtChunk(d, q, w, b, later)
    <3>1. AtChunk(d, r, v, b, later) BY <1>1, <1>2, <2>2, <2>4 DEF AtChunk, NoLine
    <3> QED BY <1>6, <2>1, <2>2, <3>1 DEF Within
  <2>5. CASE InChunk(d, q, w, b, later)
    <3>1. InChunk(d, r, v, b, later) BY <1>1, <1>2, <2>2, <2>5 DEF InChunk
    <3> QED BY <1>6, <2>1, <2>2, <3>1 DEF Within
  <2> QED BY <2>1, <2>3, <2>4, <2>5
<1>7. ~Over(q, w, t, k) BY DEF Over, Threw, ChunksDone
<1>8. k < Len(t)
  <2>1. Len(t) \in {k + 1, k + 2} BY <1>4, <1>7 DEF Stream, Before, Within
  <2> QED BY <2>1
<1> QED BY <1>3, <1>4, <1>5, <1>6, <1>7, <1>8 DEF Stream, v

LineParsed(q) ==
  IF Find(q.buf) = None THEN [q EXCEPT !.at = "recv"]
  ELSE IF Contains(Text(q.buf), "L")
       THEN [q EXCEPT !.line = Text(q.buf), !.buf = After(@, Find(q.buf) + 2), !.at = "header"]
       ELSE [q EXCEPT !.line = Text(q.buf), !.at = "recv"]

LEMMA LineStream ==
  ASSUME NEW d \in Dir, NEW q, ParserOK(q), NEW w \in Seq(Symbol), NEW t \in Seq(Payloads), NEW k \in Nat,
         Stream(d, q, w, t, k), q.at = "line"
  PROVE  ParserOK(LineParsed(q)) /\ Stream(d, LineParsed(q), w, t, k)
<1> SUFFICES ASSUME NEW r,
                    r = IF Find(q.buf) = None THEN [q EXCEPT !.at = "recv"]
                        ELSE IF Contains(Text(q.buf), "L")
                        THEN [q EXCEPT !.line = Text(q.buf), !.buf = After(@, Find(q.buf) + 2),
                                       !.at = "header"]
                        ELSE [q EXCEPT !.line = Text(q.buf), !.at = "recv"]
             PROVE  ParserOK(r) /\ Stream(d, r, w, t, k)
  BY DEF LineParsed
<1>1. Before(d, q, w, t, k)
  BY DEF Stream, Fresh, Within, InPlain, AtChunk, InChunk, Over, Threw, ChunksDone
<1>2. PICK fr \in Framing : Fits(fr, t[k + 1]) /\ InLine(d, q, w, fr, t[k + 1])
  BY <1>1 DEF Before, InHeader
<1> DEFINE b == t[k + 1]
           l == <<"L">>
           c == Header(fr, b) \o (CRLF \o Body(d, fr, b))
<1>3. l \in Seq(Symbol) /\ Len(l) = 1 /\ l[1] = "L" /\ Contains(l, "L") /\ l # <<>> BY DEF Symbol, Contains
<1>4. c \in Seq(Symbol) /\ q.buf \o w = l \o (CRLF \o c) BY <1>2, MessageFacts DEF InLine
<1>5. NoCr(l) BY <1>3, LineEnd DEF NoCr
<1> HIDE DEF l, c
<1>6. \/ Find(q.buf) = None
      \/ /\ Find(q.buf) # None /\ Text(q.buf) = l
         /\ After(q.buf, Find(q.buf) + 2) \in Seq(Symbol) /\ After(q.buf, Find(q.buf) + 2) \o w = c
  <2>1. q.buf \in Seq(Symbol) BY DEF ParserOK
  <2>2. Taken(q.buf, w, l, c) BY <1>3, <1>4, <1>5, <2>1, TakesLines, Zenon
  <2> QED BY <1>3, <2>2 DEF None, Taken
<1>7. CASE Find(q.buf) = None
  <2>1. /\ DOMAIN r = Fields /\ r.buf = q.buf /\ r.line = q.line /\ r.head = q.head
        /\ r.framing = q.framing /\ r.rem = q.rem /\ r.body = q.body /\ r.marked = q.marked
        /\ r.whole = q.whole /\ r.at = "recv"
    BY <1>7 DEF ParserOK, Fields
  <2>2. ParserOK(r) BY <2>1 DEF ParserOK
  <2>3. InLine(d, r, w, fr, b) BY <1>2, <1>7, <2>1 DEF InLine, Unbegun, NoLine
  <2> QED BY <1>1, <1>2, <2>2, <2>3 DEF Stream, Before
<1>8. CASE Find(q.buf) # None
  <2> DEFINE v == After(q.buf, Find(q.buf) + 2)
  <2>1. Text(q.buf) = l /\ v \in Seq(Symbol) /\ v \o w = c BY <1>6, <1>8
  <2>2. r = [q EXCEPT !.line = l, !.buf = v, !.at = "header"] BY <1>3, <1>8, <2>1
  <2> HIDE DEF v
  <2>3. /\ DOMAIN r = Fields /\ r.buf = v /\ r.line = l /\ r.head = q.head
        /\ r.framing = q.framing /\ r.rem = q.rem /\ r.body = q.body /\ r.marked = q.marked
        /\ r.whole = q.whole /\ r.at = "header"
    BY <2>2 DEF ParserOK, Fields
  <2>4. ParserOK(r) BY <2>1, <2>3 DEF ParserOK
  <2>5. r.line # <<>> BY <1>3, <2>3
  <2>6. Unbegun(r) /\ ~r.head /\ r.framing = "none" BY <1>2, <2>3 DEF InLine, Unbegun
  <2>7. InHeader(d, r, w, fr, b) BY <2>1, <2>3, <2>5, <2>6 DEF InHeader, NoLine, c
  <2> QED BY <1>1, <1>2, <2>4, <2>7 DEF Stream, Before
<1> QED BY <1>7, <1>8

LEMMA ReadyStream ==
  ASSUME NEW d \in Dir, NEW r, ParserOK(r), NEW w \in Seq(Symbol), NEW t \in Seq(Payloads), NEW k \in Nat,
         NEW fr, Fits(fr, t[k + 1]), Len(t) = k + 1,
         r.at = "ready", r.head, Said(r, fr, t[k + 1]), Unbegun(r),
         r.buf \o w = Body(d, fr, t[k + 1])
  PROVE  Stream(d, r, w, t, k)
<1> DEFINE b == t[k + 1]
           s == r.buf \o w
<1>1. b \in Payloads /\ b \in Seq(Symbol) /\ Len(b) \in Nat BY PayloadFacts DEF Fits
<1>2. /\ s \in Seq(Symbol) /\ Len(s) = Len(r.buf) + Len(w)
      /\ Len(r.buf) \in Nat /\ Len(w) \in Nat
  BY ConcatProperties, LenProperties DEF ParserOK
<1>3. r.body = <<>> /\ r.rem = None /\ Len(r.body) = 0 BY EmptySeq DEF Unbegun
<1>4. <<>> \in Coming(d, t, k + 1) /\ <<>> \in Seq(Symbol) BY DEF Coming
<1>5. CASE fr # "chunked"
  <2>1. s = b BY <1>5 DEF Body, Fits, Framing
  <2>2. r.body \o s = b \o <<>>
    <3>1. <<>> \o s = s /\ b \o <<>> = b BY <1>1, <1>2, ConcatEmptySeq
    <3> QED BY <1>3, <2>1, <3>1
  <2>3. Len(r.body) + Len(r.buf) <= Len(b)
    <3>1. Len(b) = Len(r.buf) + Len(w) BY <1>2, <2>1
    <3> HIDE DEF b
    <3> QED BY <1>2, <1>3, <3>1
  <2>4. InPlain(r, w, b, <<>>) BY <1>3, <1>5, <2>2, <2>3 DEF InPlain, Said
  <2> QED BY <1>4, <2>4 DEF Stream, Within, Fits
<1>6. CASE fr = "chunked"
  <2> DEFINE z == Sized(d, b, 0)
  <2>1. 0 \in 0..Len(b) BY <1>1
  <2>2. z \in Seq(Symbol) /\ s = z BY <1>1, <1>6, <2>1, ChunkShape DEF Body
  <2>3. s = <<>> \o (z \o <<>>)
    <3>1. z \o <<>> = z /\ <<>> \o z = z BY <2>2, ConcatEmptySeq
    <3> QED BY <2>2, <3>1
  <2>4. Upto(b, 0) = <<>> BY SubSeqEmpty DEF Upto
  <2>5. s = <<>> \o (Sized(d, b, Len(r.body)) \o <<>>) BY <1>3, <2>3
  <2>6. \E lead \in {<<>>, <<LF>>} : s = lead \o (Sized(d, b, Len(r.body)) \o <<>>) BY <2>5
  <2>7. r.framing = "chunked" BY <1>6 DEF Said
  <2>8. Len(r.body) <= Len(b) /\ r.body = Upto(b, Len(r.body)) BY <1>1, <1>3, <2>4
  <2>9. NoLine(r) BY DEF NoLine
  <2> HIDE DEF b, s
  <2>10. AtChunk(d, r, w, b, <<>>) BY <1>3, <2>6, <2>7, <2>8, <2>9 DEF AtChunk, s
  <2> QED BY <1>4, <2>10 DEF Stream, Within, Fits, b
<1> QED BY <1>5, <1>6

LEMMA HeaderStream ==
  ASSUME NEW d \in Dir, NEW q, ParserOK(q), NEW w \in Seq(Symbol), NEW t \in Seq(Payloads), NEW k \in Nat,
         Stream(d, q, w, t, k), q.at = "header",
         NEW r,
         r = LET text == Text(q.buf)
                 rest == After(q.buf, Find(q.buf) + 2)
             IN CASE Find(q.buf) = None -> [q EXCEPT !.at = "recv"]
                  [] Find(q.buf) = 0 -> [q EXCEPT !.buf = rest, !.head = TRUE, !.at = "ready"]
                  [] Find(q.buf) > 0 /\ text[1] = "te" ->
                       [q EXCEPT !.buf = rest, !.framing = IF @ = "none" THEN "chunked" ELSE @]
                  [] Find(q.buf) > 0 /\ text[1] = "len" ->
                       [q EXCEPT !.buf = rest, !.framing = "length", !.len = SizeOf(text[2])]
                  [] OTHER -> [q EXCEPT !.at = "undefined"]
  PROVE  ParserOK(r) /\ Stream(d, r, w, t, k)
<1>1. Before(d, q, w, t, k)
  BY DEF Stream, Fresh, Within, InPlain, AtChunk, InChunk, Over, Threw, ChunksDone
<1>2. PICK fr \in Framing : Fits(fr, t[k + 1]) /\ InHeader(d, q, w, fr, t[k + 1])
  BY <1>1 DEF Before, InLine
<1> DEFINE b == t[k + 1]
           y == Body(d, fr, b)
           f == Find(q.buf)
           v == After(q.buf, f + 2)
<1>3. y \in Seq(Symbol) /\ CRLF \in Seq(Symbol) /\ CRLF \o y \in Seq(Symbol)
  BY <1>2, MessageFacts, LineEnd
<1> HIDE DEF y
<1>4. CASE f = None
  <2>1. r = [q EXCEPT !.at = "recv"] BY <1>4 DEF None
  <2>2. /\ DOMAIN r = Fields /\ r.buf = q.buf /\ r.line = q.line /\ r.head = q.head
        /\ r.framing = q.framing /\ r.len = q.len /\ r.rem = q.rem /\ r.body = q.body
        /\ r.marked = q.marked /\ r.whole = q.whole /\ r.at = "recv"
    BY <2>1 DEF ParserOK, Fields
  <2>3. ParserOK(r) BY <2>2 DEF ParserOK
  <2>4. Said(q, fr, b) => Said(r, fr, b) BY <2>2 DEF Said
  <2>5. Unbegun(q) => Unbegun(r) BY <2>2 DEF Unbegun
  <2>6. InHeader(d, r, w, fr, b) BY <1>2, <1>4, <2>2, <2>4, <2>5 DEF InHeader, NoLine
  <2> QED BY <1>1, <1>2, <2>3, <2>6 DEF Stream, Before
<1>5. CASE f # None /\ q.buf \o w = CRLF \o y /\ Said(q, fr, b)
  <2> DEFINE u == <<>>
  <2>1. u \in Seq(Symbol) /\ Len(u) = 0 /\ NoCr(u) BY EmptySeq DEF NoCr
  <2>2. q.buf \o w = u \o (CRLF \o y) BY <1>3, <1>5, ConcatEmptySeq
  <2> HIDE DEF u
  <2>3. f = 0 /\ v \in Seq(Symbol) /\ v \o w = y
    <3>1. q.buf \in Seq(Symbol) BY DEF ParserOK
    <3>2. Taken(q.buf, w, u, y) BY <1>3, <2>1, <2>2, <3>1, TakesLines, Zenon
    <3> QED BY <1>5, <2>1, <3>2 DEF Taken
  <2>4. r = [q EXCEPT !.buf = v, !.head = TRUE, !.at = "ready"] BY <2>3 DEF None
  <2> HIDE DEF v, f
  <2>5. /\ DOMAIN r = Fields /\ r.buf = v /\ r.head = TRUE /\ r.framing = q.framing /\ r.len = q.len
        /\ r.rem = q.rem /\ r.body = q.body /\ r.marked = q.marked /\ r.whole = q.whole
        /\ r.at = "ready"
    BY <2>4 DEF ParserOK, Fields
  <2>6. ParserOK(r) BY <2>3, <2>5 DEF ParserOK
  <2>7. Said(r, fr, b) BY <1>5, <2>5 DEF Said
  <2>8. Unbegun(r) BY <1>2, <2>5 DEF Unbegun, InHeader
  <2>9. r.buf \o w = Body(d, fr, b) BY <2>3, <2>5 DEF y
  <2>10. Len(t) = k + 1 BY <1>1 DEF Before
  <2> QED BY <1>2, <2>5, <2>6, <2>7, <2>8, <2>9, <2>10, ReadyStream
<1>6. CASE f # None /\ q.framing = "none" /\ q.buf \o w = Header(fr, b) \o (CRLF \o y) /\ fr # "none"
  <2> DEFINE u == IF fr = "length" THEN <<"len", Number[Len(b)]>> ELSE <<"te">>
  <2>1. /\ u \in Seq(Symbol) /\ Header(fr, b) = u \o CRLF /\ Len(b) \in DOMAIN Number
        /\ fr = "length" \/ fr = "chunked"
    <3>1. Fits(fr, b) BY <1>2
    <3>2. fr = "length" \/ fr = "chunked" BY <1>6 DEF Framing
    <3>3. fr # "length" => u = <<"te">> OBVIOUS
    <3>4. fr = "length" => u = <<"len", Number[Len(b)]>> OBVIOUS
    <3>5. Len(b) \in DOMAIN Number /\ 0 \in DOMAIN Number BY <3>1, PayloadFacts DEF Fits
    <3> HIDE DEF b, u
    <3>6. fr = "length" => u \in Seq(Symbol) /\ Header(fr, b) = u \o CRLF BY <3>1, <3>4, HeaderFacts
    <3>7. fr = "chunked" => u \in Seq(Symbol) /\ Header(fr, b) = u \o CRLF BY <3>1, <3>3, HeaderFacts
    <3> QED BY <3>2, <3>5, <3>6, <3>7
  <2>2. Len(u) \in {1, 2} /\ u[1] = (IF fr = "length" THEN "len" ELSE "te")
    OBVIOUS
  <2>3. NoCr(u)
    <3>1. Number[Len(b)] # CR BY <2>1, Numbers
    <3> QED BY <3>1, LineEnd DEF NoCr
  <2>4. fr = "length" => SizeOf(u[2]) = Len(b) BY <2>1, Numbers
  <2> HIDE DEF u
  <2>5. q.buf \o w = u \o (CRLF \o (CRLF \o y)) 
    <3>1. (u \o CRLF) \o (CRLF \o y) = u \o (CRLF \o (CRLF \o y))
      <4> DEFINE x == CRLF \o y
      <4>1. x \in Seq(Symbol) BY <1>3
      <4> HIDE DEF x
      <4>2. u \in Seq(Symbol) /\ CRLF \in Seq(Symbol) BY <1>3, <2>1
      <4>3. Associates(u, CRLF, x) BY <4>1, <4>2, Associate, Zenon
      <4> QED BY <4>3 DEF Associates, x
    <3> QED BY <1>6, <2>1, <3>1
  <2>6. f = Len(u) /\ Text(q.buf) = u /\ v \in Seq(Symbol) /\ v \o w = CRLF \o y
    <3>1. q.buf \in Seq(Symbol) BY DEF ParserOK
    <3>2. Taken(q.buf, w, u, CRLF \o y) BY <1>3, <2>1, <2>3, <2>5, <3>1, TakesLines, Zenon
    <3> QED BY <1>6, <3>2 DEF Taken
  <2>7. f > 0 /\ f # 0 BY <2>2, <2>6
  <2>8. r = IF fr = "chunked" THEN [q EXCEPT !.buf = v, !.framing = "chunked"]
            ELSE [q EXCEPT !.buf = v, !.framing = "length", !.len = Len(b)]
    BY <1>6, <2>1, <2>2, <2>4, <2>6, <2>7
  <2> HIDE DEF v, f
  <2>9. /\ DOMAIN r = Fields /\ r.buf = v /\ r.line = q.line /\ r.head = q.head /\ r.framing = fr
        /\ r.rem = q.rem /\ r.body = q.body /\ r.marked = q.marked /\ r.whole = q.whole
        /\ r.at = "header" /\ (fr = "length" => r.len = Len(b))
    BY <2>1, <2>8 DEF ParserOK, Fields
  <2>10. ParserOK(r) BY <2>6, <2>9 DEF ParserOK
  <2>11. Said(r, fr, b) BY <2>9 DEF Said
  <2>12. Unbegun(r) /\ ~r.head /\ r.line # <<>> BY <1>2, <2>9 DEF Unbegun, InHeader
  <2>13. r.buf \o w = CRLF \o Body(d, fr, b) BY <2>6, <2>9 DEF y
  <2>14. InHeader(d, r, w, fr, b) BY <2>9, <2>11, <2>12, <2>13 DEF InHeader, NoLine
  <2> QED BY <1>1, <1>2, <2>10, <2>14 DEF Stream, Before
<1>7. \/ Said(q, fr, b) /\ q.buf \o w = CRLF \o y
      \/ q.framing = "none" /\ q.buf \o w = Header(fr, b) \o (CRLF \o y) /\ fr # "none"
  <2>1. CASE Said(q, fr, b) /\ q.buf \o w = CRLF \o y BY <2>1
  <2>2. CASE q.framing = "none" /\ q.buf \o w = Header(fr, b) \o (CRLF \o y)
    <3>1. fr = "none" => Header(fr, b) \o (CRLF \o y) = CRLF \o y
      <4>1. fr = "none" => Header(fr, b) = <<>> BY <1>2, HeaderFacts
      <4>2. <<>> \o (CRLF \o y) = CRLF \o y BY <1>3, ConcatEmptySeq
      <4> QED BY <4>1, <4>2
    <3> QED BY <2>2, <3>1 DEF Said
  <2> QED BY <1>2, <2>1, <2>2 DEF InHeader, y
<1> QED BY <1>4, <1>5, <1>6, <1>7

-----------------------------------------------------------------------------
(* Parsing a body that is not chunked keeps the invariant. *)

Begun(q) == [q EXCEPT !.at = "body", !.marked = TRUE]

LEMMA BeginStream ==
  ASSUME NEW d \in Dir, NEW q, ParserOK(q), NEW w \in Seq(Symbol), NEW t \in Seq(Payloads), NEW k \in Nat,
         Stream(d, q, w, t, k), q.at = "ready"
  PROVE  ParserOK(Begun(q)) /\ Stream(d, Begun(q), w, t, k)
<1> SUFFICES ASSUME NEW r, r = [q EXCEPT !.at = "body", !.marked = TRUE]
             PROVE  ParserOK(r) /\ Stream(d, r, w, t, k)
  BY DEF Begun
<1>1. /\ DOMAIN r = Fields /\ r.buf = q.buf /\ r.line = q.line /\ r.head = q.head
      /\ r.framing = q.framing /\ r.len = q.len /\ r.rem = q.rem /\ r.body = q.body
      /\ r.marked = TRUE /\ r.whole = q.whole /\ r.at = "body"
  BY DEF ParserOK, Fields
<1>2. ParserOK(r) BY <1>1 DEF ParserOK
<1>3. Within(d, q, w, t, k) BY DEF Stream, Fresh, Before, InLine, InHeader, Over, Threw, ChunksDone
<1> DEFINE b == t[k + 1]
<1>4. PICK fr \in Framing, later \in Coming(d, t, k + 1) :
        /\ Fits(fr, b) /\ Said(q, fr, b)
        /\ InPlain(q, w, b, later) \/ AtChunk(d, q, w, b, later) \/ InChunk(d, q, w, b, later)
  BY <1>3 DEF Within
<1>5. Said(r, fr, b) BY <1>1, <1>4 DEF Said
<1>6. CASE InPlain(q, w, b, later)
  <2>1. InPlain(r, w, b, later) BY <1>1, <1>6 DEF InPlain, Unbegun
  <2> QED BY <1>1, <1>2, <1>3, <1>4, <1>5, <2>1 DEF Stream, Within
<1>7. CASE AtChunk(d, q, w, b, later)
  <2>1. AtChunk(d, r, w, b, later) BY <1>1, <1>7 DEF AtChunk, NoLine
  <2> QED BY <1>1, <1>2, <1>3, <1>4, <1>5, <2>1 DEF Stream, Within
<1> QED BY <1>4, <1>6, <1>7 DEF InChunk

(* Where a parser is that parses a body.                                   *)
LEMMA InBody ==
  ASSUME NEW d \in Dir, NEW q, NEW w, NEW t, NEW k,
         Stream(d, q, w, t, k), q.at \in {"body", "chunk"}
  PROVE  /\ Len(t) \in {k + 1, k + 2} /\ q.head
         /\ \E fr \in Framing, later \in Coming(d, t, k + 1) :
              /\ Fits(fr, t[k + 1]) /\ Said(q, fr, t[k + 1])
              /\ \/ q.framing # "chunked" /\ q.at = "body" /\ InPlain(q, w, t[k + 1], later)
                 \/ q.framing = "chunked" /\ AtChunk(d, q, w, t[k + 1], later)
                 \/ q.framing = "chunked" /\ q.at = "body" /\ InChunk(d, q, w, t[k + 1], later)
<1>1. Within(d, q, w, t, k)
  <2>1. q # Fresh BY DEF Fresh
  <2>2. ~Before(d, q, w, t, k) BY DEF Before, InLine, InHeader
  <2>3. ~Over(q, w, t, k) BY DEF Over, Threw, ChunksDone
  <2> QED BY <2>1, <2>2, <2>3 DEF Stream
<1>2. PICK fr \in Framing, later \in Coming(d, t, k + 1) :
        /\ Fits(fr, t[k + 1]) /\ Said(q, fr, t[k + 1])
        /\ \/ InPlain(q, w, t[k + 1], later) \/ AtChunk(d, q, w, t[k + 1], later)
           \/ InChunk(d, q, w, t[k + 1], later)
  BY <1>1 DEF Within
<1>3. InPlain(q, w, t[k + 1], later) => q.framing # "chunked" /\ q.at = "body" BY DEF InPlain
<1>4. AtChunk(d, q, w, t[k + 1], later) => q.framing = "chunked" BY DEF AtChunk
<1>5. InChunk(d, q, w, t[k + 1], later) => q.framing = "chunked" /\ q.at = "body" BY DEF InChunk
<1>6. Len(t) \in {k + 1, k + 2} /\ q.head BY <1>1 DEF Within
<1> QED BY <1>2, <1>3, <1>4, <1>5, <1>6

LengthParsed(q) ==
  IF Remaining(q) = 0 THEN [q EXCEPT !.rem = 0, !.at = "done"]
  ELSE [q EXCEPT !.body = @ \o q.buf, !.buf = <<>>, !.rem = Remaining(q) - Len(q.buf),
                 !.at = IF Remaining(q) - Len(q.buf) = 0 THEN "done" ELSE "recv"]

LEMMA LengthStream ==
  ASSUME NEW d \in Dir, NEW q, ParserOK(q), NEW w \in Seq(Symbol), NEW t \in Seq(Payloads), NEW k \in Nat,
         Stream(d, q, w, t, k), q.at = "body", q.framing = "length"
  PROVE  ParserOK(LengthParsed(q)) /\ Stream(d, LengthParsed(q), w, t, k)
<1> SUFFICES ASSUME NEW r,
                    r = IF Remaining(q) = 0 THEN [q EXCEPT !.rem = 0, !.at = "done"]
                        ELSE [q EXCEPT !.body = @ \o q.buf, !.buf = <<>>, !.rem = Remaining(q) - Len(q.buf),
                                       !.at = IF Remaining(q) - Len(q.buf) = 0 THEN "done" ELSE "recv"]
             PROVE  ParserOK(r) /\ Stream(d, r, w, t, k)
  BY DEF LengthParsed
<1> DEFINE b == t[k + 1]
           m == Len(b)
           i == Len(q.body)
           j == Len(q.buf)
<1>1. PICK fr \in Framing, later \in Coming(d, t, k + 1) :
        Fits(fr, b) /\ Said(q, fr, b) /\ InPlain(q, w, b, later)
  BY InBody
<1>2. fr = "length" /\ q.len = m BY <1>1 DEF Said
<1>3. m \in Nat /\ i \in Nat /\ j \in Nat /\ i + j <= m
  <2>1. m \in Nat BY <1>1, PayloadFacts DEF Fits
  <2>2. i \in Nat /\ j \in Nat BY LenProperties DEF ParserOK
  <2> QED BY <1>1, <2>1, <2>2 DEF InPlain
<1>4. q.rem = m - i \/ (q.rem = None /\ q.body = <<>>) BY <1>1 DEF InPlain
<1>5. Remaining(q) = m - i
  <2>1. CASE q.rem = None /\ q.body = <<>>
    <3>1. i = 0 BY <2>1
    <3>2. Remaining(q) = m BY <1>2, <2>1 DEF Remaining
    <3> HIDE DEF i, m
    <3> QED BY <1>3, <3>1, <3>2
  <2>2. CASE q.rem = m - i
    <3> HIDE DEF i, m
    <3>1. q.rem # None BY <1>3, <2>2 DEF None
    <3> QED BY <2>2, <3>1 DEF Remaining
  <2> QED BY <1>4, <2>1, <2>2
<1>6. Len(t) \in {k + 1, k + 2} /\ q.head BY InBody
<1>7. q.body \o (q.buf \o w) = b \o later BY <1>1 DEF InPlain
<1> HIDE DEF m, i, j
<1>8. CASE m - i = 0
  <2>1. r = [q EXCEPT !.rem = 0, !.at = "done"] BY <1>5, <1>8
  <2>2. /\ DOMAIN r = Fields /\ r.buf = q.buf /\ r.head = q.head
        /\ r.framing = q.framing /\ r.len = q.len /\ r.rem = 0 /\ r.body = q.body
        /\ r.at = "done"
    BY <2>1 DEF ParserOK, Fields
  <2>3. ParserOK(r) BY <2>2 DEF ParserOK
  <2>4. Said(r, fr, b) BY <1>1, <2>2 DEF Said
  <2>5. i = m /\ r.rem = m - i BY <1>3, <1>8, <2>2
  <2>6. InPlain(r, w, b, later) BY <1>1, <2>2, <2>5 DEF InPlain, i, m
  <2> QED BY <1>1, <1>6, <2>2, <2>3, <2>4, <2>6 DEF Stream, Within
<1>9. CASE m - i # 0
  <2> DEFINE left == m - i - j
             c == q.body \o q.buf
  <2>1. r = [q EXCEPT !.body = c, !.buf = <<>>, !.rem = left,
                      !.at = IF left = 0 THEN "done" ELSE "recv"]
    BY <1>5, <1>9 DEF j
  <2>2. c \in Seq(Symbol) /\ Len(c) = i + j /\ c \o (<<>> \o w) = b \o later
    <3>1. q.body \in Seq(Symbol) /\ q.buf \in Seq(Symbol) BY DEF ParserOK
    <3>2. c \in Seq(Symbol) /\ Len(c) = i + j BY <3>1, ConcatProperties, Zenon DEF i, j
    <3>3. c \o w = q.body \o (q.buf \o w)
      <4>1. Associates(q.body, q.buf, w) BY <3>1, Associate, Zenon
      <4> QED BY <4>1 DEF Associates
    <3>4. <<>> \o w = w BY ConcatEmptySeq
    <3> QED BY <1>7, <3>2, <3>3, <3>4
  <2>3. left \in Nat /\ left = m - (i + j) BY <1>3
  <2> HIDE DEF left, c
  <2>4. /\ DOMAIN r = Fields /\ r.buf = <<>> /\ r.head = q.head
        /\ r.framing = q.framing /\ r.len = q.len /\ r.rem = left /\ r.body = c
        /\ r.at = IF left = 0 THEN "done" ELSE "recv"
    BY <2>1 DEF ParserOK, Fields
  <2>5. ParserOK(r)
    <3>1. <<>> \in Seq(Symbol) OBVIOUS
    <3> QED BY <2>2, <2>4, <3>1 DEF ParserOK
  <2>6. Said(r, fr, b) BY <1>1, <2>4 DEF Said
  <2>7. InPlain(r, w, b, later)
    <3>1. r.framing = "length" /\ r.at \in {"recv", "done"} /\ r.at # "ready" BY <2>4
    <3>2. r.body \o (r.buf \o w) = b \o later BY <2>2, <2>4
    <3>3. Len(r.body) + Len(r.buf) <= m /\ r.rem = m - Len(r.body)
      <4>1. Len(r.body) = i + j /\ Len(r.buf) = 0 BY <2>2, <2>4
      <4>2. i + j + 0 <= m BY <1>3
      <4>3. Len(r.body) + Len(r.buf) <= m BY <4>1, <4>2
      <4>4. r.rem = m - Len(r.body) BY <2>3, <2>4, <4>1
      <4> QED BY <4>3, <4>4
    <3>4. r.at = "recv" => r.rem > 0 BY <2>3, <2>4
    <3>5. r.at = "done" => Len(r.body) = m
      <4>1. left = 0 => i + j = m BY <1>3, <2>3
      <4>2. r.at = "done" => left = 0 BY <2>4
      <4> QED BY <2>2, <2>4, <4>1, <4>2
    <3> QED BY <2>4, <3>1, <3>2, <3>3, <3>4, <3>5 DEF InPlain, m
  <2> QED BY <1>1, <1>6, <2>4, <2>5, <2>6, <2>7 DEF Stream, Within
<1> QED BY <1>8, <1>9

NoneParsed(q) == [q EXCEPT !.at = "done"]

LEMMA NoneStream ==
  ASSUME NEW d \in Dir, NEW q, ParserOK(q), NEW w \in Seq(Symbol), NEW t \in Seq(Payloads), NEW k \in Nat,
         Stream(d, q, w, t, k), q.at = "body", q.framing = "none"
  PROVE  ParserOK(NoneParsed(q)) /\ Stream(d, NoneParsed(q), w, t, k)
<1> SUFFICES ASSUME NEW r,
                    r = [q EXCEPT !.at = "done"]
             PROVE  ParserOK(r) /\ Stream(d, r, w, t, k)
  BY DEF NoneParsed
<1> DEFINE b == t[k + 1]
<1>1. PICK fr \in Framing, later \in Coming(d, t, k + 1) :
        Fits(fr, b) /\ Said(q, fr, b) /\ InPlain(q, w, b, later)
  BY InBody
<1>2. fr = "none" /\ b = <<>> /\ Len(b) = 0 BY <1>1 DEF Said, Fits
<1>3. Len(q.body) = 0
  <2> DEFINE i == Len(q.body)
             j == Len(q.buf)
  <2>1. i \in Nat /\ j \in Nat BY LenProperties DEF ParserOK
  <2>2. i + j <= 0 BY <1>1, <1>2 DEF InPlain
  <2> HIDE DEF i, j
  <2>3. i = 0 BY <2>1, <2>2
  <2> QED BY <2>3 DEF i
<1>4. /\ DOMAIN r = Fields /\ r.buf = q.buf /\ r.head = q.head
      /\ r.framing = q.framing /\ r.len = q.len /\ r.rem = q.rem /\ r.body = q.body
      /\ r.at = "done"
  BY DEF ParserOK, Fields
<1>5. ParserOK(r) BY <1>4 DEF ParserOK
<1>6. Said(r, fr, b) BY <1>1, <1>4 DEF Said
<1>7. InPlain(r, w, b, later) BY <1>1, <1>2, <1>3, <1>4 DEF InPlain
<1>8. Len(t) \in {k + 1, k + 2} /\ q.head BY InBody
<1> QED BY <1>1, <1>4, <1>5, <1>6, <1>7, <1>8 DEF Stream, Within

-----------------------------------------------------------------------------
(* Parsing a chunked body keeps the invariant. *)

(* The first j of the s that follow x are what is left of u.               *)
Reached(x, s, w, u, v, j) ==
  x \o SubSeq(s, 1, j) = u /\ After(s, j) \in Seq(Symbol) /\ After(s, j) \o w = v

LEMMA Reach ==
  \A x, s, w, u, v \in Seq(Symbol), j \in Nat :
    x \o (s \o w) = u \o v /\ j <= Len(s) /\ Len(x) + j = Len(u) => Reached(x, s, w, u, v, j)
<1> TAKE x, s, w, u, v \in Seq(Symbol), j \in Nat
<1>0. HAVE x \o (s \o w) = u \o v /\ j <= Len(s) /\ Len(x) + j = Len(u)
<1> DEFINE h == SubSeq(s, 1, j)
           a == After(s, j)
           y == x \o h
<1>1. /\ h \in Seq(Symbol) /\ Len(h) = j /\ a \in Seq(Symbol)
      /\ s = h \o a
  <2>1. j \in 0..Len(s) BY <1>0, LenProperties
  <2> QED BY <2>1, Cut
<1> HIDE DEF h, a
<1>a. h \in Seq(Symbol) /\ a \in Seq(Symbol) BY <1>1
<1>2. y \in Seq(Symbol) /\ Len(y) = Len(u)
  <2>1. y \in Seq(Symbol) /\ Len(y) = Len(x) + Len(h) BY <1>1, ConcatProperties
  <2> QED BY <1>0, <1>1, <2>1
<1>3. x \o (s \o w) = y \o (a \o w)
  <2>1. (h \o a) \o w = h \o (a \o w)
    <3>1. Associates(h, a, w) BY <1>a, Associate, Zenon
    <3> QED BY <3>1 DEF Associates
  <2> DEFINE c == a \o w
  <2>2. c \in Seq(Symbol) BY <1>a, ConcatProperties
  <2> HIDE DEF c
  <2>3. (x \o h) \o c = x \o (h \o c)
    <3>1. Associates(x, h, c) BY <1>a, <2>2, Associate, Zenon
    <3> QED BY <3>1 DEF Associates
  <2>4. s \o w = h \o c BY <1>1, <2>1 DEF c
  <2> QED BY <2>3, <2>4 DEF c
<1> DEFINE c == a \o w
<1>4. c \in Seq(Symbol) BY <1>1, Assoc
<1> HIDE DEF c, y
<1>5. y \o c = u \o v BY <1>0, <1>3 DEF c
<1>6. Len(u) <= Len(y) /\ Len(y) \in Nat BY <1>2, LenProperties
<1>7. SubSeq(y, 1, Len(u)) = u /\ After(y, Len(u)) \o c = v BY <1>2, <1>4, <1>5, <1>6, Split
<1>8. SubSeq(y, 1, Len(y)) = y BY <1>2, SubSeqFull
<1>9. y = u BY <1>2, <1>7, <1>8
<1>10. u \o c = u \o v BY <1>5, <1>9
<1>11. c = v BY <1>4, <1>10, ConcatSimplifications
<1> QED BY <1>1, <1>9, <1>11 DEF y, c, h, a, Reached

LEMMA CrLf == <<CR>> \o <<LF>> = CRLF
<1> DEFINE a == <<CR>>
           c == <<LF>>
<1>1. a \in Seq(Symbol) /\ c \in Seq(Symbol) /\ Len(a) = 1 /\ Len(c) = 1 /\ a[1] = CR /\ c[1] = LF
  BY DEF Symbol
<1>2. CRLF \in Seq(Symbol) /\ Len(CRLF) = 2 /\ CRLF[1] = CR /\ CRLF[2] = LF BY LineEnd
<1> HIDE DEF a, c
<1>3. a \o c \in Seq(Symbol) /\ Len(a \o c) = Len(a) + Len(c) BY <1>1, ConcatProperties, Zenon
<1>4. (a \o c)[1] = CR
  <2>1. 1 \in 1..Len(a) BY <1>1
  <2> QED BY <1>1, <2>1, ConcatAt
<1>5. (a \o c)[2] = LF
  <2>1. a \in Seq(Symbol) /\ c \in Seq(Symbol) BY <1>1
  <2>2. \A i \in 1..(Len(a) + Len(c)) : (a \o c)[i] = IF i <= Len(a) THEN a[i] ELSE c[i - Len(a)]
    BY <2>1, ConcatProperties, Zenon
  <2>3. (a \o c)[2] = c[1] BY <1>1, <2>2
  <2> QED BY <1>1, <2>3
<1> DEFINE x == a \o c
<1>6. x \in Seq(Symbol) /\ Len(x) = 2 /\ x[1] = CR /\ x[2] = LF BY <1>1, <1>3, <1>4, <1>5
<1> HIDE DEF x
<1>7. x = CRLF BY <1>2, <1>6, SeqEqual
<1> QED BY <1>7 DEF x, a, c

LEMMA PayloadPart ==
  ASSUME NEW b \in Payloads, NEW e \in 0..Len(b)
  PROVE  Upto(b, e) \in Seq(Symbol) /\ Len(Upto(b, e)) = e
<1>1. 1 \in 1..(Len(b) + 1) /\ e \in (1 - 1)..Len(b) BY PayloadFacts
<1>2. SubSeq(b, 1, e) \in Seq(Symbol) /\ Len(SubSeq(b, 1, e)) = e - 1 + 1 BY <1>1, PartOfPayload
<1>3. e \in Int BY PayloadFacts
<1> QED BY <1>2, <1>3 DEF Upto

(* The last j bytes of a chunk, and more, are in v.                        *)
Ended(d, b, e, later, x, v, w, j) ==
  /\ x \o SubSeq(v, 1, j) = Upto(b, e)
  /\ j + 2 <= Len(v) => /\ After(v, j + 2) \in Seq(Symbol)
                        /\ After(v, j + 2) \o w = Sized(d, b, e) \o later
  /\ Len(v) = j + 1 => w = <<LF>> \o (Sized(d, b, e) \o later)

LEMMA ChunkEnd ==
  \A d \in Dir, b \in Payloads, later, x, v, w \in Seq(Symbol), e, j \in Nat :
    /\ 0 < e /\ e <= Len(b) /\ Len(x) + j = e /\ j < Len(v)
    /\ x \o (v \o w) = Upto(b, e) \o (ChunksFrom(d, b)[e] \o later)
    => Ended(d, b, e, later, x, v, w, j)
<1> TAKE d \in Dir, b \in Payloads, later, x, v, w \in Seq(Symbol), e, j \in Nat
<1>0. HAVE /\ 0 < e /\ e <= Len(b) /\ Len(x) + j = e /\ j < Len(v)
           /\ x \o (v \o w) = Upto(b, e) \o (ChunksFrom(d, b)[e] \o later)
<1> DEFINE u == Upto(b, e)
           z == Sized(d, b, e)
           y == z \o later
<1>1. e \in 0..Len(b) /\ e > 0 /\ e \in Nat BY <1>0, PayloadFacts
<1>2. u \in Seq(Symbol) /\ Len(u) = e BY <1>1, PayloadPart
<1>3. z \in Seq(Symbol) /\ ChunksFrom(d, b)[e] = CRLF \o z BY <1>1, ChunkShape
<1>4. y \in Seq(Symbol)
  <2> HIDE DEF z
  <2> QED BY <1>3, ConcatProperties, Zenon
<1>5. CRLF \in Seq(Symbol) /\ Len(CRLF) = 2 BY LineEnd
<1>6. x \o (v \o w) = u \o (CRLF \o y)
  <2> HIDE DEF z
  <2>1. Associates(CRLF, z, later) BY <1>3, <1>5, Associate, Zenon
  <2> QED BY <1>0, <1>3, <2>1 DEF Associates
<1> HIDE DEF u, y
<1>7. CRLF \o y \in Seq(Symbol) BY <1>4, <1>5, Assoc
<1>8. x \o SubSeq(v, 1, j) = u
  <2> DEFINE c == CRLF \o y
  <2>1. c \in Seq(Symbol) /\ x \o (v \o w) = u \o c BY <1>6, <1>7
  <2>2. j <= Len(v) /\ Len(x) + j = Len(u)
    <3>1. Len(v) \in Nat BY LenProperties
    <3> QED BY <1>0, <1>2, <3>1
  <2> HIDE DEF c
  <2>3. Reached(x, v, w, u, c, j) BY <1>2, <2>1, <2>2, Reach, Zenon
  <2> QED BY <2>3 DEF Reached
<1>9. ASSUME j + 2 <= Len(v)
      PROVE  After(v, j + 2) \in Seq(Symbol) /\ After(v, j + 2) \o w = y
  <2> DEFINE c == u \o CRLF
             i == j + 2
  <2>1. c \in Seq(Symbol) /\ Len(c) = e + 2
    <3>1. c \in Seq(Symbol) /\ Len(c) = Len(u) + Len(CRLF) BY <1>2, <1>5, ConcatProperties, Zenon
    <3> QED BY <1>2, <1>5, <3>1
  <2>2. c \o y = u \o (CRLF \o y)
    <3>1. Associates(u, CRLF, y) BY <1>2, <1>4, <1>5, Associate, Zenon
    <3> QED BY <3>1 DEF Associates, c
  <2> HIDE DEF c
  <2>3. x \o (v \o w) = c \o y BY <1>6, <2>2
  <2>4. i \in Nat /\ i <= Len(v) /\ Len(x) + i = Len(c)
    <3>1. Len(x) \in Nat BY LenProperties
    <3> QED BY <1>0, <1>1, <1>9, <2>1, <3>1
  <2> HIDE DEF i
  <2>5. Reached(x, v, w, c, y, i) BY <1>4, <2>1, <2>3, <2>4, Reach, Zenon
  <2> QED BY <2>5 DEF i, Reached
<1>10. ASSUME Len(v) = j + 1 PROVE w = <<LF>> \o y
  <2> DEFINE cr == <<CR>>
             lf == <<LF>>
             c == u \o cr
             f == lf \o y
             i == j + 1
  <2>1. cr \in Seq(Symbol) /\ lf \in Seq(Symbol) /\ Len(cr) = 1 BY DEF Symbol
  <2>2. CRLF = cr \o lf BY CrLf
  <2> HIDE DEF cr, lf
  <2>3. c \in Seq(Symbol) /\ Len(c) = e + 1
    <3>1. c \in Seq(Symbol) /\ Len(c) = Len(u) + Len(cr) BY <1>2, <2>1, ConcatProperties, Zenon
    <3> QED BY <1>2, <2>1, <3>1
  <2>4. f \in Seq(Symbol) BY <1>4, <2>1, Assoc
  <2>5. c \o f = u \o (CRLF \o y)
    <3>1. Associates(cr, lf, y) BY <1>4, <2>1, Associate, Zenon
    <3>2. (cr \o lf) \o y = cr \o f BY <3>1 DEF Associates
    <3> HIDE DEF f
    <3>3. Associates(u, cr, f) BY <1>2, <2>1, <2>4, Associate, Zenon
    <3>4. (u \o cr) \o f = u \o (cr \o f) BY <3>3 DEF Associates
    <3> QED BY <2>2, <3>2, <3>4
  <2> HIDE DEF c, f
  <2>6. x \o (v \o w) = c \o f BY <1>6, <2>5
  <2>7. i \in Nat /\ i <= Len(v) /\ Len(x) + i = Len(c)
    <3>1. Len(x) \in Nat BY LenProperties
    <3> QED BY <1>0, <1>1, <1>10, <2>3, <3>1
  <2>8. i = Len(v) BY <1>10
  <2> HIDE DEF i
  <2>9. After(v, i) \o w = f
    <3>1. Reached(x, v, w, c, f, i) BY <2>3, <2>4, <2>6, <2>7, Reach, Zenon
    <3> QED BY <3>1 DEF Reached
  <2>10. After(v, i) = <<>>
    <3>1. i \in 0..Len(v) BY <2>7, <2>8
    <3>2. After(v, i) \in Seq(Symbol) /\ Len(After(v, i)) = Len(v) - i BY <3>1, Cut
    <3>3. Len(After(v, i)) = 0 BY <2>7, <2>8, <3>2
    <3> QED BY <3>2, <3>3, EmptySeq
  <2>11. <<>> \o w = w BY ConcatEmptySeq
  <2> QED BY <2>9, <2>10, <2>11 DEF f, lf
<1> QED BY <1>8, <1>9, <1>10 DEF u, y, Ended

PendingParsed(q) ==
  IF Unfinished(q, q.rem) THEN TakePart(q, q.rem)
  ELSE [q EXCEPT !.body = @ \o SubSeq(q.buf, 1, q.rem),
                 !.buf = After(@, Min({q.rem + 2, Len(@)})), !.rem = None, !.at = "chunk"]

LEMMA PendingStream ==
  ASSUME NEW d \in Dir, NEW q, ParserOK(q), NEW w \in Seq(Symbol), NEW t \in Seq(Payloads), NEW k \in Nat,
         Stream(d, q, w, t, k), q.at = "body", q.framing = "chunked", q.rem # None, ~q.whole
  PROVE  ParserOK(PendingParsed(q)) /\ Stream(d, PendingParsed(q), w, t, k)
<1> SUFFICES ASSUME NEW r,
                    r = IF Unfinished(q, q.rem) THEN TakePart(q, q.rem)
                        ELSE [q EXCEPT !.body = @ \o SubSeq(q.buf, 1, q.rem),
                                       !.buf = After(@, Min({q.rem + 2, Len(@)})), !.rem = None, !.at = "chunk"]
             PROVE  ParserOK(r) /\ Stream(d, r, w, t, k)
  BY DEF PendingParsed
<1> DEFINE b == t[k + 1]
           i == Len(q.body)
           j == Len(q.buf)
           m == q.rem
<1>1. PICK fr \in Framing, later \in Coming(d, t, k + 1) :
        Fits(fr, b) /\ Said(q, fr, b) /\ InChunk(d, q, w, b, later)
  BY InBody DEF AtChunk
<1>2. Len(t) \in {k + 1, k + 2} /\ q.head BY InBody
<1>3. PICK e \in 1..Len(b) :
        /\ i + m = e /\ m \in Nat
        /\ q.body \o (q.buf \o w) = Upto(b, e) \o (ChunksFrom(d, b)[e] \o later)
  BY <1>1 DEF InChunk
<1>4. i \in Nat /\ j \in Nat BY LenProperties DEF ParserOK
<1>5. b \in Payloads /\ Len(b) \in Nat /\ later \in Seq(Symbol)
  <2>1. k + 1 \in Nat OBVIOUS
  <2>2. later \in Seq(Symbol) BY <2>1, ComingFacts
  <2>3. b \in Payloads BY <1>1 DEF Fits
  <2> QED BY <2>2, <2>3, PayloadFacts
<1>6. q.body \in Seq(Symbol) /\ q.buf \in Seq(Symbol) BY DEF ParserOK
<1> HIDE DEF b, i, j, m
<1>7. CASE j <= m
  <2> DEFINE c == q.body \o q.buf
             left == m - j
  <2>1. r = [q EXCEPT !.body = c, !.rem = left, !.buf = <<>>, !.whole = FALSE, !.at = "recv"]
    BY <1>7 DEF Unfinished, TakePart, j, m
  <2>2. c \in Seq(Symbol) /\ Len(c) = i + j
    BY <1>6, ConcatProperties, Zenon DEF i, j
  <2>3. c \o (<<>> \o w) = Upto(b, e) \o (ChunksFrom(d, b)[e] \o later)
    <3>1. Associates(q.body, q.buf, w) BY <1>6, Associate, Zenon
    <3>2. c \o w = q.body \o (q.buf \o w) BY <3>1 DEF Associates
    <3>3. <<>> \o w = w BY ConcatEmptySeq
    <3> QED BY <1>3, <3>2, <3>3
  <2>4. left \in Nat /\ i + j + left = e BY <1>3, <1>4, <1>7
  <2> HIDE DEF c, left
  <2>5. /\ DOMAIN r = Fields /\ r.buf = <<>> /\ r.head = q.head
        /\ r.framing = q.framing /\ r.len = q.len /\ r.rem = left /\ r.body = c
        /\ r.whole = FALSE /\ r.at = "recv"
    BY <2>1 DEF ParserOK, Fields
  <2>6. ParserOK(r)
    <3>1. <<>> \in Seq(Symbol) OBVIOUS
    <3> QED BY <2>2, <2>5, <3>1 DEF ParserOK
  <2>7. Said(r, fr, b) BY <1>1, <2>5 DEF Said
  <2>8. Len(r.body) + r.rem = e BY <2>2, <2>4, <2>5
  <2>9. r.body \o (r.buf \o w) = Upto(b, e) \o (ChunksFrom(d, b)[e] \o later) BY <2>3, <2>5
  <2>10. r.rem \in Nat /\ r.framing = "chunked" /\ ~r.whole /\ r.buf = <<>> /\ r.at = "recv"
    BY <2>4, <2>5
  <2>11. InChunk(d, r, w, b, later) BY <2>8, <2>9, <2>10 DEF InChunk
  <2> QED BY <1>1, <1>2, <2>5, <2>6, <2>7, <2>11 DEF Stream, Within, b
<1>8. CASE ~(j <= m)
  <2> DEFINE c == q.body \o SubSeq(q.buf, 1, m)
             g == IF m + 2 <= j THEN m + 2 ELSE j
             v == After(q.buf, g)
             z == Sized(d, b, e) \o later
  <2>1. Min({m + 2, j}) = g
    <3>1. m + 2 \in Int /\ j \in Int BY <1>3, <1>4
    <3> QED BY <3>1, MinOfTwo
  <2>2. r = [q EXCEPT !.body = c, !.buf = v, !.rem = None, !.at = "chunk"]
    BY <1>8, <2>1 DEF Unfinished, j, m
  <2>3. /\ c = Upto(b, e)
        /\ m + 2 <= j => After(q.buf, m + 2) \in Seq(Symbol) /\ After(q.buf, m + 2) \o w = z
        /\ j = m + 1 => w = <<LF>> \o z
    <3>1. m < j BY <1>3, <1>4, <1>8
    <3>2. 0 < e /\ e <= Len(b) /\ e \in Nat BY <1>5
    <3>3. Len(q.body) + m = e /\ m < Len(q.buf) BY <1>3, <3>1 DEF i, j
    <3> HIDE DEF c, z
    <3>4. Ended(d, b, e, later, q.body, q.buf, w, m) BY <1>3, <1>5, <1>6, <3>2, <3>3, ChunkEnd, Zenon
    <3> QED BY <3>4 DEF Ended, c, z, j
  <2>4. v \in Seq(Symbol) /\ \E lead \in {<<>>, <<LF>>} : v \o w = lead \o z
    <3>1. z \in Seq(Symbol)
      <4>1. e \in 0..Len(b) BY <1>5
      <4>2. Sized(d, b, e) \in Seq(Symbol) BY <1>5, <4>1, ChunkShape
      <4> QED BY <1>5, <4>2, ConcatProperties, Zenon
    <3>2. CASE m + 2 <= j
      <4>1. v = After(q.buf, m + 2) BY <3>2
      <4> HIDE DEF v, z
      <4>2. v \in Seq(Symbol) /\ v \o w = z BY <2>3, <3>2, <4>1
      <4>3. z = <<>> \o z BY <3>1, ConcatEmptySeq
      <4> QED BY <4>2, <4>3
    <3>3. CASE ~(m + 2 <= j)
      <4>1. j = m + 1 BY <1>3, <1>4, <1>8, <3>3
      <4>2. v = After(q.buf, j) BY <3>3
      <4>3. j \in 0..Len(q.buf) BY <1>4 DEF j
      <4>4. v \in Seq(Symbol) /\ Len(v) = Len(q.buf) - j BY <1>6, <4>2, <4>3, Cut
      <4>5. Len(v) = 0 BY <1>4, <4>4 DEF j
      <4> HIDE DEF v, z
      <4>6. v = <<>> BY <4>4, <4>5, EmptySeq
      <4>7. v \o w = w BY <4>6, ConcatEmptySeq
      <4> QED BY <2>3, <4>1, <4>4, <4>7
    <3> QED BY <3>2, <3>3
  <2> HIDE DEF c, v, z
  <2>5. /\ DOMAIN r = Fields /\ r.buf = v /\ r.head = q.head
        /\ r.framing = q.framing /\ r.len = q.len /\ r.rem = None /\ r.body = c
        /\ r.whole = q.whole /\ r.at = "chunk"
    BY <2>2 DEF ParserOK, Fields
  <2>6. c \in Seq(Symbol) /\ Len(c) = e /\ e <= Len(b)
    <3>1. e \in 0..Len(b) BY <1>5
    <3> QED BY <1>5, <2>3, <3>1, PayloadPart
  <2>7. ParserOK(r) BY <2>4, <2>5, <2>6 DEF ParserOK
  <2>8. Said(r, fr, b) BY <1>1, <2>5 DEF Said
  <2>9. Len(r.body) = e /\ r.body = Upto(b, e) /\ r.rem = None /\ r.framing = "chunked"
    BY <2>3, <2>5, <2>6
  <2>10. \E lead \in {<<>>, <<LF>>} : r.buf \o w = lead \o (Sized(d, b, e) \o later)
    BY <2>4, <2>5 DEF z
  <2>11. AtChunk(d, r, w, b, later) BY <2>5, <2>6, <2>9, <2>10 DEF AtChunk, NoLine
  <2> QED BY <1>1, <1>2, <2>5, <2>7, <2>8, <2>11 DEF Stream, Within, b
<1> QED BY <1>7, <1>8

FirstParsed(q) == [q EXCEPT !.at = "chunk"]

LEMMA FirstStream ==
  ASSUME NEW d \in Dir, NEW q, ParserOK(q), NEW w \in Seq(Symbol), NEW t \in Seq(Payloads), NEW k \in Nat,
         Stream(d, q, w, t, k), q.at = "body", q.framing = "chunked", q.rem = None
  PROVE  ParserOK(FirstParsed(q)) /\ Stream(d, FirstParsed(q), w, t, k)
<1> SUFFICES ASSUME NEW r,
                    r = [q EXCEPT !.at = "chunk"]
             PROVE  ParserOK(r) /\ Stream(d, r, w, t, k)
  BY DEF FirstParsed
<1> DEFINE b == t[k + 1]
<1>1. PICK fr \in Framing, later \in Coming(d, t, k + 1) :
        Fits(fr, b) /\ Said(q, fr, b) /\ AtChunk(d, q, w, b, later)
  <2>1. q.rem \notin Nat BY DEF None
  <2> QED BY <2>1, InBody DEF InChunk
<1>2. Len(t) \in {k + 1, k + 2} /\ q.head BY InBody
<1>3. /\ DOMAIN r = Fields /\ r.buf = q.buf /\ r.head = q.head
      /\ r.framing = q.framing /\ r.len = q.len /\ r.rem = q.rem /\ r.body = q.body
      /\ r.whole = q.whole /\ r.at = "chunk"
  BY DEF ParserOK, Fields
<1>4. ParserOK(r) BY <1>3 DEF ParserOK
<1>5. Said(r, fr, b) BY <1>1, <1>3 DEF Said
<1>6. AtChunk(d, r, w, b, later) BY <1>1, <1>3 DEF AtChunk, NoLine
<1> QED BY <1>1, <1>2, <1>3, <1>4, <1>5, <1>6 DEF Stream, Within

(* The size of a chunk, which the LF of the CRLF before it may begin.      *)
SizeText(l, q, w, R, size) ==
  /\ l \in Seq(Symbol) /\ Len(l) > 0 /\ NoCr(l) /\ StrToNum(l) = size
  /\ q.buf \o w = l \o (CRLF \o R)

LEMMA SizeTextThere ==
  ASSUME NEW d \in Dir, NEW q, NEW w \in Seq(Symbol), NEW b \in Payloads, NEW later \in Seq(Symbol),
         NEW o \in 0..Len(b), NEW lead \in {<<>>, <<LF>>},
         q.buf \o w = lead \o (Sized(d, b, o) \o later)
  PROVE  \E l : SizeText(l, q, w, Behind(d, b, o) \o later, ReadEnd(b, o) - o)
<1> DEFINE size == ReadEnd(b, o) - o
           s == <<Number[size]>>
           B == Behind(d, b, o)
           R == B \o later
           l == lead \o s
<1>1. size \in DOMAIN Number BY ReadEnds
<1>2. s \in Seq(Symbol) /\ Len(s) = 1 /\ s[1] = Number[size] BY <1>1, Numbers
<1>3. Number[size] # CR /\ LF # CR BY <1>1, Numbers, LineEnd
<1>4. B \in Seq(Symbol) /\ CRLF \in Seq(Symbol) /\ Sized(d, b, o) = s \o (CRLF \o B)
  BY ChunkShape, LineEnd DEF Sized
<1>5. StrToNum(s) = size /\ StrToNum(<<LF, Number[size]>>) = size BY <1>1, SizeRead
<1>6. lead \in Seq(Symbol)
  <2>1. <<>> \in Seq(Symbol) /\ <<LF>> \in Seq(Symbol) BY DEF Symbol
  <2> QED BY <2>1
<1>7. l = s \/ l = <<LF, Number[size]>>
  <2>1. CASE lead = <<>>
    <3> HIDE DEF s
    <3>1. <<>> \o s = s BY <1>2, ConcatEmptySeq
    <3> QED BY <2>1, <3>1
  <2>2. CASE lead = <<LF>>
    <3> DEFINE x == <<LF>>
               y == <<LF, Number[size]>>
    <3>1. x \in Seq(Symbol) /\ Len(x) = 1 /\ x[1] = LF BY DEF Symbol
    <3>2. y \in Seq(Symbol) /\ Len(y) = 2 /\ y[1] = LF /\ y[2] = Number[size]
      BY <1>1, Numbers DEF Symbol
    <3> HIDE DEF s, x, y, size
    <3>3. x \in Seq(Symbol) /\ s \in Seq(Symbol) BY <1>2, <3>1
    <3>4. /\ x \o s \in Seq(Symbol) /\ Len(x \o s) = Len(x) + Len(s)
          /\ \A i \in 1..(Len(x) + Len(s)) : (x \o s)[i] = IF i <= Len(x) THEN x[i] ELSE s[i - Len(x)]
      BY <3>3, ConcatProperties, Zenon
    <3> DEFINE z == x \o s
    <3>5. z \in Seq(Symbol) /\ Len(z) = 2 /\ z[1] = LF /\ z[2] = Number[size]
      BY <1>2, <3>1, <3>4
    <3> HIDE DEF z
    <3>6. z = y BY <3>2, <3>5, SeqEqual
    <3> QED BY <2>2, <3>6 DEF x, y, z
  <2> QED BY <2>1, <2>2
<1>8. l \in Seq(Symbol) /\ Len(l) > 0 /\ NoCr(l) /\ StrToNum(l) = size
  <2>1. CASE l = s
    <3> HIDE DEF l, s, size
    <3>1. l \in Seq(Symbol) /\ Len(l) = 1 /\ l[1] = Number[size] BY <1>2, <2>1
    <3>2. NoCr(l) BY <1>3, <3>1 DEF NoCr
    <3>3. StrToNum(l) = size BY <1>5, <2>1
    <3> QED BY <3>1, <3>2, <3>3
  <2>2. CASE l = <<LF, Number[size]>>
    <3> HIDE DEF l, size
    <3>1. l \in Seq(Symbol) BY <1>1, <2>2, Numbers DEF Symbol
    <3>2. Len(l) = 2 /\ l[1] = LF /\ l[2] = Number[size] BY <2>2
    <3>3. NoCr(l) BY <1>3, <3>2 DEF NoCr
    <3>4. StrToNum(l) = size BY <1>5, <2>2
    <3> QED BY <3>1, <3>2, <3>3, <3>4
  <2> QED BY <1>7, <2>1, <2>2
<1>9. lead \o (Sized(d, b, o) \o later) = l \o (CRLF \o R)
  <2> HIDE DEF s, B
  <2> DEFINE cb == CRLF \o B
             cr == CRLF \o R
  <2>1. s \in Seq(Symbol) BY <1>2
  <2>2. cb \in Seq(Symbol) /\ R \in Seq(Symbol) BY <1>4, Assoc
  <2> HIDE DEF cb
  <2>3. Associates(s, cb, later) /\ Associates(CRLF, B, later) BY <1>4, <2>1, <2>2, Associate, Zenon
  <2>4. cb \o later = cr BY <2>3 DEF Associates, cb
  <2>5. cr \in Seq(Symbol)
    <3> HIDE DEF R
    <3> QED BY <1>4, <2>2, ConcatProperties, Zenon
  <2> HIDE DEF cr
  <2>6. Sized(d, b, o) \o later = s \o cr BY <1>4, <2>3, <2>4 DEF Associates, cb
  <2>7. Associates(lead, s, cr) BY <1>6, <2>1, <2>5, Associate, Zenon
  <2>8. l \o cr = lead \o (s \o cr) BY <2>7 DEF Associates
  <2> QED BY <2>6, <2>8 DEF cr
<1>10. q.buf \o w = l \o (CRLF \o R) BY <1>9
<1>11. SizeText(l, q, w, R, size)
  <2> HIDE DEF l, R, size
  <2> QED BY <1>8, <1>10 DEF SizeText
<1> HIDE DEF l
<1> QED BY <1>11

ChunkParsed(q) ==
  LET size == StrToNum(Text(q.buf))
      x == [q EXCEPT !.buf = After(@, Find(q.buf) + 2)]
  IN CASE Find(q.buf) = None -> [q EXCEPT !.at = "recv"]
       [] Find(q.buf) # None /\ SkipsCrlf(q) -> x
       [] Find(q.buf) # None /\ ~SkipsCrlf(q) /\ size = 0 -> [q EXCEPT !.rem = 0, !.at = "done"]
       [] OTHER ->
            IF Unfinished(x, size) THEN TakePart(x, size)
            ELSE [x EXCEPT !.body = @ \o SubSeq(x.buf, 1, size), !.rem = size, !.whole = TRUE,
                           !.buf = After(@, size + 2),
                           !.at = IF Len(x.buf) = size + 1 THEN "threw" ELSE "chunk"]

LEMMA ChunkStream ==
  ASSUME NEW d \in Dir, NEW q, ParserOK(q), NEW w \in Seq(Symbol), NEW t \in Seq(Payloads), NEW k \in Nat,
         Stream(d, q, w, t, k), q.at = "chunk"
  PROVE  ParserOK(ChunkParsed(q)) /\ Stream(d, ChunkParsed(q), w, t, k)
<1> SUFFICES ASSUME NEW r,
                    r = LET size == StrToNum(Text(q.buf))
                            x == [q EXCEPT !.buf = After(@, Find(q.buf) + 2)]
                        IN CASE Find(q.buf) = None -> [q EXCEPT !.at = "recv"]
                             [] Find(q.buf) # None /\ SkipsCrlf(q) -> x
                             [] Find(q.buf) # None /\ ~SkipsCrlf(q) /\ size = 0 -> [q EXCEPT !.rem = 0, !.at = "done"]
                             [] OTHER ->
                                  IF Unfinished(x, size) THEN TakePart(x, size)
                                  ELSE [x EXCEPT !.body = @ \o SubSeq(x.buf, 1, size), !.rem = size, !.whole = TRUE,
                                                 !.buf = After(@, size + 2),
                                                 !.at = IF Len(x.buf) = size + 1 THEN "threw" ELSE "chunk"]
             PROVE  ParserOK(r) /\ Stream(d, r, w, t, k)
  BY DEF ChunkParsed
<1> DEFINE b == t[k + 1]
           o == Len(q.body)
           e == ReadEnd(b, o)
           size == e - o
           v == After(q.buf, Find(q.buf) + 2)
<1>1. PICK fr \in Framing, later \in Coming(d, t, k + 1) :
        Fits(fr, b) /\ Said(q, fr, b) /\ AtChunk(d, q, w, b, later)
  BY InBody
<1>2. Len(t) \in {k + 1, k + 2} /\ q.head BY InBody
<1>3. /\ b \in Payloads /\ Len(b) \in Nat /\ later \in Seq(Symbol)
      /\ Len(t) = k + 2 => Len(later) > 0 /\ later[1] = "L"
  <2>1. k + 1 \in Nat OBVIOUS
  <2>2. later \in Seq(Symbol) /\ (Len(t) = (k + 1) + 1 => Len(later) > 0 /\ later[1] = "L")
    BY <2>1, ComingFacts
  <2>3. b \in Payloads BY <1>1 DEF Fits
  <2> QED BY <2>2, <2>3, PayloadFacts
<1>4. q.body \in Seq(Symbol) /\ q.buf \in Seq(Symbol) BY DEF ParserOK
<1>5. o \in 0..Len(b) /\ o \in Nat /\ q.body = Upto(b, o) /\ q.framing = "chunked"
  <2>1. o \in Nat BY <1>4, LenProperties
  <2>2. o <= Len(b) /\ q.body = Upto(b, o) /\ q.framing = "chunked" BY <1>1 DEF AtChunk
  <2> HIDE DEF o
  <2> QED BY <1>3, <2>1, <2>2
<1>6. PICK lead \in {<<>>, <<LF>>} : q.buf \o w = lead \o (Sized(d, b, o) \o later)
  BY <1>1 DEF AtChunk
<1> HIDE DEF b, o
<1>7. PICK l : SizeText(l, q, w, Behind(d, b, o) \o later, size) BY <1>3, <1>5, <1>6, SizeTextThere
<1>8. e \in o..Len(b) /\ (o < Len(b) => e > o) /\ e \in Nat /\ size \in Nat /\ o + size = e
  <2>1. e \in o..Len(b) /\ (o < Len(b) => e > o) BY <1>3, <1>5, ReadEnds
  <2> HIDE DEF e
  <2> QED BY <1>3, <1>5, <2>1
<1> DEFINE R == Behind(d, b, o) \o later
<1>9. R \in Seq(Symbol)
  <2>1. Behind(d, b, o) \in Seq(Symbol) BY <1>3, <1>5, ChunkShape
  <2> QED BY <1>3, <2>1, ConcatProperties, Zenon
<1>10. Taken(q.buf, w, l, R)
  <2> HIDE DEF R
  <2> QED BY <1>4, <1>7, <1>9, TakesLines, Zenon DEF SizeText, R
<1> HIDE DEF e, size
<1>11. CASE Find(q.buf) = None
  <2>1. r = [q EXCEPT !.at = "recv"] BY <1>11
  <2>2. /\ DOMAIN r = Fields /\ r.buf = q.buf /\ r.head = q.head
        /\ r.framing = q.framing /\ r.len = q.len /\ r.rem = q.rem /\ r.body = q.body
        /\ r.whole = q.whole /\ r.at = "recv"
    BY <2>1 DEF ParserOK, Fields
  <2>3. ParserOK(r) BY <2>2 DEF ParserOK
  <2>4. Said(r, fr, b) BY <1>1, <2>2 DEF Said
  <2>5. AtChunk(d, r, w, b, later) BY <1>1, <1>11, <2>2 DEF AtChunk, NoLine, b
  <2> QED BY <1>1, <1>2, <2>2, <2>3, <2>4, <2>5 DEF Stream, Within, b
<1>12. CASE Find(q.buf) # None
  <2>1. /\ Find(q.buf) = Len(l) /\ Text(q.buf) = l /\ StrToNum(Text(q.buf)) = size
        /\ Find(q.buf) # 0 /\ v \in Seq(Symbol) /\ v \o w = R
    <3>1. /\ Find(q.buf) = Len(l) /\ Text(q.buf) = l
          /\ After(q.buf, Len(l) + 2) \in Seq(Symbol) /\ After(q.buf, Len(l) + 2) \o w = R
      BY <1>10, <1>12 DEF Taken
    <3>2. Len(l) > 0 /\ StrToNum(l) = size BY <1>7 DEF SizeText
    <3>3. Find(q.buf) # 0
      <4> DEFINE i == Len(l)
      <4>1. Find(q.buf) = i /\ i > 0 BY <3>1, <3>2
      <4> HIDE DEF i
      <4> QED BY <4>1
    <3>4. v = After(q.buf, Len(l) + 2) BY <3>1
    <3>5. StrToNum(Text(q.buf)) = size BY <3>1, <3>2
    <3> HIDE DEF v
    <3> QED BY <3>1, <3>3, <3>4, <3>5
  <2> HIDE DEF v
  <2>2. ~SkipsCrlf(q) BY <2>1 DEF SkipsCrlf
  <2>3. CASE size = 0
    <3>1. r = [q EXCEPT !.rem = 0, !.at = "done"] BY <1>12, <2>1, <2>2, <2>3
    <3>2. /\ DOMAIN r = Fields /\ r.buf = q.buf /\ r.head = q.head
          /\ r.framing = q.framing /\ r.body = q.body /\ r.at = "done"
      BY <3>1 DEF ParserOK, Fields
    <3>3. ParserOK(r) BY <3>2 DEF ParserOK
    <3>4. r.body = b
      <4>1. o = Len(b) BY <1>3, <1>5, <1>8, <2>3
      <4>2. b \in Seq(Symbol) BY <1>3, PayloadFacts
      <4>3. SubSeq(b, 1, Len(b)) = b BY <4>2, SubSeqFull
      <4> QED BY <1>5, <3>2, <4>1, <4>3 DEF Upto
    <3>5. ASSUME Len(t) = k + 2 PROVE \E i \in 1..Len(q.buf \o w) : (q.buf \o w)[i] = "L"
      <4> DEFINE z == Sized(d, b, o)
                 u == lead \o z
      <4>1. lead \in Seq(Symbol)
        <5>1. <<>> \in Seq(Symbol) /\ <<LF>> \in Seq(Symbol) BY DEF Symbol
        <5> QED BY <5>1
      <4>2. z \in Seq(Symbol) BY <1>3, <1>5, ChunkShape
      <4> HIDE DEF z
      <4>3. u \in Seq(Symbol) BY <4>1, <4>2, ConcatProperties, Zenon
      <4>4. Associates(lead, z, later) BY <1>3, <4>1, <4>2, Associate, Zenon
      <4>5. q.buf \o w = u \o later BY <1>6, <4>4 DEF Associates, z
      <4> HIDE DEF u
      <4>6. Len(later) > 0 /\ later[1] = "L" BY <1>3, <3>5
      <4> DEFINE y == u \o later
                 i == Len(u) + 1
      <4>7. Len(y) = Len(u) + Len(later) /\ Len(u) \in Nat /\ Len(later) \in Nat
        <5>1. Len(y) = Len(u) + Len(later) BY <1>3, <4>3, ConcatProperties, Zenon
        <5>2. Len(u) \in Nat BY <4>3, LenProperties
        <5>3. Len(later) \in Nat BY <1>3, LenProperties
        <5> QED BY <5>1, <5>2, <5>3
      <4>8. i \in 1..Len(y) /\ 1 \in 1..Len(later)
        <5> HIDE DEF y
        <5> QED BY <4>6, <4>7
      <4>9. y[i] = later[1]
        <5>1. later \in Seq(Symbol) BY <1>3
        <5> QED BY <4>3, <4>8, <5>1, ConcatBehind
      <4> HIDE DEF i, y
      <4>10. \E j \in 1..Len(y) : y[j] = "L" BY <4>6, <4>8, <4>9
      <4> QED BY <4>5, <4>10 DEF y
    <3>6. ChunksDone(r, w, b, Len(t) = k + 2) BY <1>5, <3>2, <3>4, <3>5 DEF ChunksDone
    <3> QED BY <1>2, <3>2, <3>3, <3>6 DEF Stream, Over, b
  <2>4. CASE size # 0
    <3> DEFINE S == SubSeq(b, o + 1, e)
               C == ChunksFrom(d, b)[e]
               U == Upto(b, o)
               Y == C \o later
               j == Len(v)
    <3>1. o < Len(b) /\ e \in 1..Len(b) /\ e \in 0..Len(b) /\ 0 < e /\ e <= Len(b)
      BY <1>3, <1>5, <1>8, <2>4
    <3>2. Behind(d, b, o) = S \o C BY <3>1 DEF Behind, e
    <3>3. S \in Seq(Symbol) /\ C \in Seq(Symbol) /\ U \in Seq(Symbol)
      <4>1. b \in Payloads BY <1>3
      <4>2. o \in 0..Len(b) /\ e \in o..Len(b) BY <1>5, <1>8
      <4>3. S \in Seq(Symbol) BY <4>1, <4>2, PartBehind
      <4>4. C \in Seq(Symbol) BY <1>3, <3>1, ChunksAreSymbols
      <4> QED BY <1>3, <1>5, <4>3, <4>4, PayloadPart
    <3>4. U \o S = Upto(b, e)
      <4>1. b \in Seq(Symbol) BY <1>3, PayloadFacts
      <4>2. 1 \in 1..(Len(b) + 1) /\ o \in (1 - 1)..Len(b) /\ e \in o..Len(b) BY <1>3, <1>5, <1>8
      <4>3. SubSeq(b, 1, o) \o SubSeq(b, o + 1, e) = SubSeq(b, 1, e)
        BY <4>1, <4>2, ConcatAdjacentSubSeq
      <4> QED BY <4>3 DEF Upto
    <3>5. q.body \o (v \o w) = Upto(b, e) \o Y
      <4> HIDE DEF S, C, U
      <4>1. Associates(S, C, later) BY <1>3, <3>3, Associate, Zenon
      <4>2. v \o w = S \o Y BY <2>1, <3>2, <4>1 DEF Associates
      <4>3. Y \in Seq(Symbol) BY <1>3, <3>3, ConcatProperties, Zenon
      <4> HIDE DEF Y
      <4>4. Associates(U, S, Y) BY <3>3, <4>3, Associate, Zenon
      <4>5. U \o (S \o Y) = Upto(b, e) \o Y BY <3>4, <4>4 DEF Associates
      <4> QED BY <1>5, <4>2, <4>5 DEF U
    <3>6. j \in Nat /\ o = Len(q.body) BY <2>1, LenProperties DEF o
    <3> DEFINE x == [q EXCEPT !.buf = v]
    <3>7. r = IF Unfinished(x, size) THEN TakePart(x, size)
              ELSE [x EXCEPT !.body = @ \o SubSeq(x.buf, 1, size), !.rem = size, !.whole = TRUE,
                             !.buf = After(@, size + 2),
                             !.at = IF Len(x.buf) = size + 1 THEN "threw" ELSE "chunk"]
      BY <1>12, <2>1, <2>2, <2>4 DEF v
    <3>8. /\ DOMAIN x = Fields /\ x.buf = v /\ x.head = q.head
          /\ x.framing = q.framing /\ x.len = q.len /\ x.body = q.body
      BY DEF ParserOK, Fields
    <3> HIDE DEF x, j
    <3>9. CASE j <= size
      <4> DEFINE c == q.body \o v
                 left == size - j
      <4>1. r = [x EXCEPT !.body = c, !.rem = left, !.buf = <<>>, !.whole = FALSE, !.at = "recv"]
        BY <3>7, <3>8, <3>9 DEF Unfinished, TakePart, j
      <4>2. c \in Seq(Symbol) /\ Len(c) = o + j
        BY <1>4, <2>1, ConcatProperties, Zenon DEF o, j
      <4>3. c \o (<<>> \o w) = Upto(b, e) \o Y
        <5>1. Associates(q.body, v, w) BY <1>4, <2>1, Associate, Zenon
        <5>2. c \o w = q.body \o (v \o w) BY <5>1 DEF Associates
        <5>3. <<>> \o w = w BY ConcatEmptySeq
        <5> QED BY <3>5, <5>2, <5>3
      <4>4. left \in Nat /\ o + j + left = e BY <1>5, <1>8, <3>6, <3>9
      <4> HIDE DEF c, left
      <4>5. /\ DOMAIN r = Fields /\ r.buf = <<>> /\ r.head = q.head
            /\ r.framing = q.framing /\ r.len = q.len /\ r.rem = left /\ r.body = c
            /\ r.whole = FALSE /\ r.at = "recv"
        BY <3>8, <4>1 DEF Fields
      <4>6. ParserOK(r)
        <5>1. <<>> \in Seq(Symbol) OBVIOUS
        <5> QED BY <4>2, <4>5, <5>1 DEF ParserOK
      <4>7. Said(r, fr, b) BY <1>1, <4>5 DEF Said, b
      <4>8. Len(r.body) + r.rem = e BY <4>2, <4>4, <4>5
      <4>9. r.body \o (r.buf \o w) = Upto(b, e) \o (ChunksFrom(d, b)[e] \o later) BY <4>3, <4>5
      <4>10. r.rem \in Nat /\ r.framing = "chunked" /\ ~r.whole /\ r.buf = <<>> /\ r.at = "recv"
        BY <1>5, <4>4, <4>5
      <4>11. InChunk(d, r, w, b, later) BY <3>1, <4>8, <4>9, <4>10 DEF InChunk
      <4> QED BY <1>1, <1>2, <4>5, <4>6, <4>7, <4>11 DEF Stream, Within, b
    <3>10. CASE ~(j <= size)
      <4> DEFINE c == q.body \o SubSeq(v, 1, size)
                 a == After(v, size + 2)
                 z == Sized(d, b, e) \o later
      <4>1. r = [x EXCEPT !.body = c, !.rem = size, !.whole = TRUE, !.buf = a,
                          !.at = IF j = size + 1 THEN "threw" ELSE "chunk"]
        BY <3>7, <3>8, <3>10 DEF Unfinished, j
      <4>2. /\ c = Upto(b, e)
            /\ size + 2 <= j => a \in Seq(Symbol) /\ a \o w = z
            /\ j = size + 1 => w = <<LF>> \o z
        <5>1. Len(q.body) + size = e /\ size < Len(v) /\ e \in Nat
          BY <1>8, <3>6, <3>10 DEF j
        <5> HIDE DEF a, c, z, C, Y
        <5>2. q.body \o (v \o w) = Upto(b, e) \o (ChunksFrom(d, b)[e] \o later) BY <3>5 DEF Y, C
        <5>3. Ended(d, b, e, later, q.body, v, w, size)
          BY <1>3, <1>4, <1>8, <2>1, <3>1, <5>1, <5>2, ChunkEnd, Zenon
        <5> QED BY <5>3 DEF Ended, a, c, z, j
      <4>3. c \in Seq(Symbol) /\ Len(c) = e BY <1>3, <3>1, <4>2, PayloadPart
      <4>4. z \in Seq(Symbol)
        <5>1. Sized(d, b, e) \in Seq(Symbol) BY <1>3, <3>1, ChunkShape
        <5> QED BY <1>3, <5>1, ConcatProperties, Zenon
      <4>5. j = size + 1 \/ size + 2 <= j BY <1>8, <3>6, <3>10
      <4>6. j = size + 1 => a = <<>>
        <5> DEFINE i == size + 2 + 1
        <5>1. j = size + 1 => i > j /\ i \in Int /\ j \in Int BY <1>8, <3>6
        <5>2. a = SubSeq(v, i, j) BY DEF After, j
        <5> HIDE DEF i, a
        <5> QED BY <5>1, <5>2, SubSeqEmpty
      <4> HIDE DEF a, c, z
      <4>7. /\ DOMAIN r = Fields /\ r.buf = a /\ r.head = q.head
            /\ r.framing = q.framing /\ r.len = q.len /\ r.rem = size /\ r.body = c
            /\ r.whole = TRUE /\ r.at = IF j = size + 1 THEN "threw" ELSE "chunk"
        BY <3>8, <4>1 DEF Fields
      <4>8. a \in Seq(Symbol)
        <5>1. <<>> \in Seq(Symbol) OBVIOUS
        <5> QED BY <4>2, <4>5, <4>6, <5>1
      <4>9. ParserOK(r) BY <4>3, <4>7, <4>8 DEF ParserOK
      <4>10. CASE j = size + 1
        <5>1. w = <<LF>> \o z BY <4>2, <4>10
        <5> DEFINE f == <<LF>>
        <5>2. f \in Seq(Symbol) /\ Len(f) = 1 /\ f[1] = LF BY DEF Symbol
        <5> HIDE DEF f
        <5>3. w = f \o z BY <5>1 DEF f
        <5>4. 1 \in 1..Len(f) BY <5>2
        <5>5. (f \o z)[1] = f[1]
          <6>1. f \in Seq(Symbol) BY <5>2
          <6> QED BY <4>4, <5>4, <6>1, ConcatAt
        <5>6. Len(f \o z) = Len(f) + Len(z) /\ Len(z) \in Nat
          <6>1. Len(f \o z) = Len(f) + Len(z) BY <4>4, <5>2, ConcatProperties, Zenon
          <6> QED BY <4>4, <6>1, LenProperties
        <5>7. w[1] = LF /\ w # <<>>
          <6>1. Len(w) # 0 BY <5>2, <5>3, <5>6
          <6> QED BY <5>2, <5>3, <5>5, <6>1, EmptySeq
        <5>8. Threw(r, w) BY <4>7, <4>10, <5>7 DEF Threw
        <5> QED BY <1>2, <4>7, <4>9, <5>8 DEF Stream, Over
      <4>11. CASE j # size + 1
        <5>1. size + 2 <= j BY <4>5, <4>11
        <5>2. a \o w = <<>> \o z BY <4>2, <4>4, <5>1, ConcatEmptySeq
        <5>3. \E f \in {<<>>, <<LF>>} : r.buf \o w = f \o (Sized(d, b, e) \o later)
          BY <4>7, <5>2 DEF z
        <5>4. Said(r, fr, b) BY <1>1, <4>7 DEF Said, b
        <5>5. Len(r.body) = e /\ r.body = Upto(b, e) /\ e <= Len(b) /\ r.whole /\ r.at = "chunk"
          BY <3>1, <4>2, <4>3, <4>7, <4>11
        <5>6. r.framing = "chunked" BY <1>5, <4>7
        <5>7. AtChunk(d, r, w, b, later) BY <5>3, <5>5, <5>6 DEF AtChunk, NoLine
        <5> QED BY <1>1, <1>2, <4>7, <4>9, <5>4, <5>7 DEF Stream, Within, b
      <4> QED BY <4>10, <4>11
    <3> QED BY <3>9, <3>10
  <2> QED BY <2>3, <2>4
<1> QED BY <1>11, <1>12

-----------------------------------------------------------------------------
(* The end of a message, and the beginning of the next one. *)

LEMMA DoneBody ==
  ASSUME NEW d \in Dir, NEW q, ParserOK(q), NEW w \in Seq(Symbol), NEW t \in Seq(Payloads), NEW k \in Nat,
         Stream(d, q, w, t, k), q.at = "done"
  PROVE  /\ q.body = t[k + 1] /\ Len(t) \in {k + 1, k + 2}
         /\ \/ q.framing = "chunked" /\ ChunksDone(q, w, t[k + 1], Len(t) = k + 2)
            \/ \E later \in Coming(d, t, k + 1) : q.framing # "chunked" /\ q.buf = <<>> /\ w = later
<1> DEFINE b == t[k + 1]
<1>1. Within(d, q, w, t, k) \/ Over(q, w, t, k)
  BY DEF Stream, Fresh, Before, InLine, InHeader
<1>2. Len(t) \in {k + 1, k + 2} BY <1>1 DEF Within, Over
<1>3. CASE Over(q, w, t, k) BY <1>2, <1>3 DEF Over, Threw, ChunksDone
<1>4. CASE Within(d, q, w, t, k)
  <2>1. PICK fr \in Framing, later \in Coming(d, t, k + 1) : Fits(fr, b) /\ InPlain(q, w, b, later)
    BY <1>4 DEF Within, AtChunk, InChunk
  <2>2. later \in Seq(Symbol)
    <3>1. k + 1 \in Nat OBVIOUS
    <3> QED BY <3>1, ComingFacts
  <2>3. b \in Seq(Symbol) /\ Len(b) \in Nat BY <2>1, PayloadFacts DEF Fits
  <2>4. q.body \in Seq(Symbol) /\ q.buf \in Seq(Symbol) BY DEF ParserOK
  <2>5. /\ q.body \o (q.buf \o w) = b \o later /\ Len(q.body) + Len(q.buf) <= Len(b)
        /\ Len(q.body) = Len(b) /\ q.framing # "chunked"
    BY <2>1 DEF InPlain
  <2>6. q.buf = <<>>
    <3> DEFINE j == Len(q.buf)
    <3>1. j \in Nat BY <2>4, LenProperties
    <3>2. j = 0
      <4> HIDE DEF j, b
      <4>1. Len(b) + j <= Len(b) BY <2>5 DEF j
      <4> QED BY <2>3, <3>1, <4>1
    <3> QED BY <2>4, <3>2, EmptySeq
  <2>7. <<>> \o w = w BY ConcatEmptySeq
  <2> HIDE DEF b
  <2>8. q.body \o w = b \o later BY <2>5, <2>6, <2>7
  <2>9. SubSeq(q.body, 1, Len(b)) = b /\ After(q.body, Len(b)) \o w = later
    <3>1. Len(b) <= Len(q.body) BY <2>3, <2>5
    <3> QED BY <2>2, <2>3, <2>4, <2>8, <3>1, Split
  <2>10. q.body = b
    <3>1. SubSeq(q.body, 1, Len(q.body)) = q.body BY <2>4, SubSeqFull
    <3> QED BY <2>5, <2>9, <3>1
  <2>11. w = later
    <3>1. b \o w = b \o later BY <2>8, <2>10
    <3> QED BY <2>2, <2>3, <3>1, ConcatSimplifications
  <2> QED BY <1>2, <2>5, <2>6, <2>10, <2>11 DEF b
<1> QED BY <1>1, <1>3, <1>4

LEMMA ClearStream ==
  ASSUME NEW d \in Dir, NEW q, ParserOK(q), NEW w \in Seq(Symbol), NEW t \in Seq(Payloads), NEW k \in Nat,
         Stream(d, q, w, t, k), q.at = "done",
         ~(q.framing = "chunked" /\ (w # <<>> \/ Contains(q.buf, "L")))
  PROVE  ParserOK(Fresh) /\ Stream(d, Fresh, w, t, k + 1)
<1>1. /\ DOMAIN Fresh = Fields /\ Fresh.buf = <<>> /\ Fresh.line = <<>> /\ Fresh.head = FALSE
      /\ Fresh.framing = "none" /\ Fresh.rem = None /\ Fresh.body = <<>> /\ Fresh.marked = FALSE
      /\ Fresh.whole = FALSE /\ Fresh.at = "recv"
  BY DEF Fresh, Fields
<1>2. ParserOK(Fresh)
  <2>1. <<>> \in Seq(Symbol) OBVIOUS
  <2> QED BY <1>1, <2>1 DEF ParserOK
<1>3. CASE q.framing = "chunked" /\ ChunksDone(q, w, t[k + 1], Len(t) = k + 2)
  <2>1. w = <<>> /\ ~Contains(q.buf, "L") BY <1>3
  <2>2. q.buf \o w = q.buf BY <2>1, ConcatEmptySeq DEF ParserOK
  <2>3. ~(\E i \in 1..Len(q.buf) : q.buf[i] = "L") BY <2>1 DEF Contains
  <2>4. Len(t) # k + 2 BY <1>3, <2>2, <2>3 DEF ChunksDone
  <2>5. Len(t) = k + 1 BY <2>4, DoneBody
  <2> QED BY <1>2, <2>1, <2>5 DEF Stream
<1>4. ASSUME NEW later \in Coming(d, t, k + 1), q.framing # "chunked", q.buf = <<>>, w = later
      PROVE  Stream(d, Fresh, w, t, k + 1)
  <2>1. k + 1 \in Nat /\ (k + 1) + 1 = k + 2 OBVIOUS
  <2>2. CASE Len(t) = k + 1
    <3>1. later = <<>> BY <2>1, <2>2, ComingFacts
    <3> QED BY <1>4, <2>2, <3>1 DEF Stream
  <2>3. CASE Len(t) # k + 1
    <3>1. Len(t) = k + 2 BY <2>3, DoneBody
    <3>2. PICK fr \in Framing : Fits(fr, t[k + 2]) /\ later = Message(d, fr, t[k + 2])
      BY <2>1, <3>1, ComingFacts
    <3>3. w = <<"L">> \o (CRLF \o (Header(fr, t[k + 2]) \o (CRLF \o Body(d, fr, t[k + 2]))))
      BY <1>4, <3>2, MessageFacts
    <3>4. <<>> \o w = w BY ConcatEmptySeq
    <3>5. Find(<<>>) = None
      <4>1. Len(<<>>) = 0 BY EmptySeq
      <4>2. {i \in 1..(Len(<<>>) - 1) : <<>>[i] = CR /\ <<>>[i + 1] = LF} = {} BY <4>1
      <4> QED BY <4>2 DEF Find
    <3>6. Unbegun(Fresh) /\ NoLine(Fresh) BY <1>1, <3>5 DEF Unbegun, NoLine
    <3>7. InLine(d, Fresh, w, fr, t[k + 2]) BY <1>1, <3>3, <3>4, <3>6 DEF InLine
    <3> QED BY <2>1, <3>1, <3>2, <3>7 DEF Stream, Before
  <2> QED BY <2>2, <2>3
<1> QED BY <1>2, <1>3, <1>4, DoneBody

LEMMA AppendStream ==
  ASSUME NEW d \in Dir, NEW q, ParserOK(q), NEW w \in Seq(Symbol), NEW t \in Seq(Payloads), NEW k \in Nat,
         Stream(d, q, w, t, k), NEW fr, NEW c, Fits(fr, c),
         Len(t) = k \/ (Len(t) = k + 1 /\ ~Before(d, q, w, t, k))
  PROVE  Stream(d, q, w \o Message(d, fr, c), Append(t, c), k)
<1> DEFINE M == Message(d, fr, c)
           T == Append(t, c)
           v == w \o M
<1>1. M \in Seq(Symbol) /\ Len(M) > 0 /\ M[1] = "L" BY MessageFacts
<1>2. c \in Payloads BY DEF Fits
<1>3. /\ Len(T) = Len(t) + 1 /\ T[Len(t) + 1] = c
      /\ \A i \in 1..Len(t) : T[i] = t[i]
  BY <1>2, AppendProperties
<1>4. v \in Seq(Symbol) /\ Len(v) = Len(w) + Len(M) /\ Len(w) \in Nat /\ Len(M) \in Nat
  <2>1. v \in Seq(Symbol) /\ Len(v) = Len(w) + Len(M) BY <1>1, ConcatProperties, Zenon
  <2>2. Len(w) \in Nat BY LenProperties
  <2>3. Len(M) \in Nat BY <1>1, LenProperties
  <2> QED BY <2>1, <2>2, <2>3
<1> HIDE DEF T
<1>5. CASE Len(t) = k
  <2>1. q = Fresh /\ w = <<>> BY <1>5 DEF Stream, Before, Within, Over
  <2>2. T[k + 1] = c /\ Len(T) = k + 1 BY <1>3, <1>5
  <2>3. v = M BY <1>1, <2>1, ConcatEmptySeq
  <2>4. v = <<"L">> \o (CRLF \o (Header(fr, c) \o (CRLF \o Body(d, fr, c)))) BY <2>3, MessageFacts
  <2>5. /\ q.buf = <<>> /\ q.line = <<>> /\ q.head = FALSE
        /\ q.framing = "none" /\ q.rem = None /\ q.body = <<>> /\ q.marked = FALSE
        /\ q.whole = FALSE /\ q.at = "recv"
    BY <2>1 DEF Fresh
  <2>6. Find(<<>>) = None
    <3>1. Len(<<>>) = 0 BY EmptySeq
    <3>2. {i \in 1..(Len(<<>>) - 1) : <<>>[i] = CR /\ <<>>[i + 1] = LF} = {} BY <3>1
    <3> QED BY <3>2 DEF Find
  <2>7. Unbegun(q) /\ NoLine(q) BY <2>5, <2>6 DEF Unbegun, NoLine
  <2>8. <<>> \o v = v BY <1>4, ConcatEmptySeq
  <2> HIDE DEF v
  <2>9. InLine(d, q, v, fr, c) BY <2>4, <2>5, <2>7, <2>8 DEF InLine
  <2>10. fr \in Framing BY DEF Fits
  <2>11. Before(d, q, v, T, k) BY <2>2, <2>9, <2>10 DEF Before
  <2> QED BY <2>11 DEF Stream, v, T
<1>6. CASE Len(t) = k + 1 /\ ~Before(d, q, w, t, k)
  <2> DEFINE b == t[k + 1]
  <2>1. T[k + 1] = b /\ Len(T) = k + 2 /\ T[k + 2] = c
    <3>1. k + 1 \in 1..Len(t) /\ Len(t) + 1 = k + 2 BY <1>6
    <3> QED BY <1>3, <3>1
  <2>2. M \in Coming(d, T, k + 1)
    <3>1. fr \in {f \in Framing : Len(T) = (k + 1) + 1 /\ Fits(f, T[(k + 1) + 1])}
      BY <2>1 DEF Fits
    <3>2. Len(T) # k + 1 /\ T[(k + 1) + 1] = c BY <2>1
    <3> HIDE DEF M
    <3> QED BY <3>1, <3>2 DEF Coming, M
  <2>3. \A later \in Coming(d, t, k + 1) : later = <<>>
    <3>1. k + 1 \in Nat OBVIOUS
    <3> QED BY <1>6, <3>1, ComingFacts
  <2>4. q.buf \in Seq(Symbol) /\ q.body \in Seq(Symbol) BY DEF ParserOK
  <2>5. q.buf \o v = (q.buf \o w) \o M /\ q.buf \o w \in Seq(Symbol)
    <3>1. q.buf \o w \in Seq(Symbol) BY <2>4, ConcatProperties, Zenon
    <3> HIDE DEF M
    <3>2. Associates(q.buf, w, M) BY <1>1, <2>4, Associate, Zenon
    <3> QED BY <3>1, <3>2 DEF Associates
  <2> HIDE DEF v, M
  <2>6. CASE Within(d, q, w, t, k)
    <3>1. PICK f \in Framing :
            /\ Fits(f, b) /\ Said(q, f, b)
            /\ \/ InPlain(q, w, b, <<>>) \/ AtChunk(d, q, w, b, <<>>) \/ InChunk(d, q, w, b, <<>>)
      BY <2>3, <2>6 DEF Within
    <3>2. b \in Payloads /\ b \in Seq(Symbol) /\ Len(b) \in Nat BY <3>1, PayloadFacts DEF Fits
    <3> HIDE DEF b
    <3>3. \A s, y \in Seq(Symbol) : y = s \o <<>> => y \o M = s \o M
      BY ConcatEmptySeq
    <3>4. ASSUME InPlain(q, w, b, <<>>) PROVE InPlain(q, v, b, M)
      <4> DEFINE x == q.buf \o w
                 y == q.body \o x
      <4>1. x \in Seq(Symbol) BY <2>5
      <4>2. y \in Seq(Symbol)
        <5> HIDE DEF x
        <5> QED BY <2>4, <4>1, ConcatProperties, Zenon
      <4>3. y = b \o <<>> BY <3>4 DEF InPlain
      <4>4. y \o M = b \o M BY <3>2, <3>3, <4>2, <4>3
      <4>5. Associates(q.body, x, M)
        <5> HIDE DEF x
        <5> QED BY <1>1, <2>4, <4>1, Associate, Zenon
      <4>6. q.body \o (q.buf \o v) = b \o M BY <2>5, <4>4, <4>5 DEF Associates
      <4> QED BY <3>4, <4>6 DEF InPlain
    <3>5. ASSUME AtChunk(d, q, w, b, <<>>) PROVE AtChunk(d, q, v, b, M)
      <4> DEFINE o == Len(q.body)
                 z == Sized(d, b, o)
      <4>1. PICK lead \in {<<>>, <<LF>>} : q.buf \o w = lead \o (z \o <<>>) BY <3>5 DEF AtChunk
      <4>2. lead \in Seq(Symbol)
        <5>1. <<>> \in Seq(Symbol) /\ <<LF>> \in Seq(Symbol) BY DEF Symbol
        <5> QED BY <5>1
      <4>3. z \in Seq(Symbol)
        <5>1. o \in 0..Len(b)
          <6>1. o \in Nat BY <2>4, LenProperties
          <6>2. o <= Len(b) BY <3>5 DEF AtChunk
          <6> HIDE DEF o
          <6> QED BY <3>2, <6>1, <6>2
        <5> QED BY <3>2, <5>1, ChunkShape
      <4> HIDE DEF z
      <4>4. z \o <<>> = z BY <4>3, ConcatEmptySeq
      <4>5. Associates(lead, z, M) BY <1>1, <4>2, <4>3, Associate, Zenon
      <4>6. q.buf \o v = lead \o (z \o M) BY <2>5, <4>1, <4>4, <4>5 DEF Associates
      <4>7. \E a \in {<<>>, <<LF>>} : q.buf \o v = a \o (Sized(d, b, Len(q.body)) \o M)
        BY <4>6 DEF z
      <4> QED BY <3>5, <4>7 DEF AtChunk
    <3>6. ASSUME InChunk(d, q, w, b, <<>>) PROVE InChunk(d, q, v, b, M)
      <4>1. PICK e \in 1..Len(b) :
              /\ Len(q.body) + q.rem = e
              /\ q.body \o (q.buf \o w) = Upto(b, e) \o (ChunksFrom(d, b)[e] \o <<>>)
        BY <3>6 DEF InChunk
      <4> DEFINE u == Upto(b, e)
                 z == ChunksFrom(d, b)[e]
                 x == q.buf \o w
      <4>2. u \in Seq(Symbol) /\ z \in Seq(Symbol)
        <5>1. e \in 0..Len(b) BY <3>2
        <5> QED BY <3>2, <5>1, PayloadPart, ChunksAreSymbols
      <4>3. x \in Seq(Symbol) BY <2>5
      <4>4. q.buf \o v = x \o M BY <2>5
      <4>5. q.body \o x = u \o (z \o <<>>) BY <4>1
      <4> HIDE DEF u, z, x
      <4>6. z \o <<>> = z BY <4>2, ConcatEmptySeq
      <4>7. Associates(u, z, M) BY <1>1, <4>2, Associate, Zenon
      <4>8. Associates(q.body, x, M) BY <1>1, <2>4, <4>3, Associate, Zenon
      <4>9. q.body \o (x \o M) = u \o (z \o M) BY <4>5, <4>6, <4>7, <4>8 DEF Associates
      <4>10. q.body \o (q.buf \o v) = Upto(b, e) \o (ChunksFrom(d, b)[e] \o M)
        BY <4>4, <4>9 DEF u, z
      <4> QED BY <3>6, <4>1, <4>10 DEF InChunk
    <3>7. Within(d, q, v, T, k) BY <2>1, <2>2, <2>6, <3>1, <3>4, <3>5, <3>6 DEF Within, b
    <3> QED BY <3>7 DEF Stream, T, v, M
  <2>7. CASE Over(q, w, t, k)
    <3>1. CASE Threw(q, w)
      <4>1. Len(w) # 0 BY <3>1, EmptySeq DEF Threw
      <4>2. 1 \in 1..Len(w) BY <1>4, <4>1
      <4>3. v[1] = w[1] BY <1>1, <4>2, ConcatAt DEF v
      <4>4. v # <<>> BY <1>4, <4>1, EmptySeq
      <4>5. Threw(q, v) BY <3>1, <4>3, <4>4 DEF Threw
      <4> QED BY <2>1, <2>7, <4>5 DEF Stream, Over, T, v, M
    <3>2. CASE ChunksDone(q, w, b, Len(t) = k + 2)
      <4> DEFINE x == q.buf \o w
                 i == Len(x) + 1
      <4>1. x \in Seq(Symbol) /\ Len(x) \in Nat BY <2>5, LenProperties
      <4>2. q.buf \o v = x \o M BY <2>5
      <4> HIDE DEF x
      <4>3. Len(x \o M) = Len(x) + Len(M) BY <1>1, <4>1, ConcatProperties, Zenon
      <4>4. 1 \in 1..Len(M) /\ i \in 1..Len(x \o M) BY <1>1, <1>4, <4>1, <4>3
      <4>5. (x \o M)[i] = M[1] BY <1>1, <4>1, <4>4, ConcatBehind
      <4> HIDE DEF i
      <4>6. \E j \in 1..Len(q.buf \o v) : (q.buf \o v)[j] = "L" BY <1>1, <4>2, <4>4, <4>5
      <4>7. ChunksDone(q, v, T[k + 1], Len(T) = k + 2) BY <2>1, <3>2, <4>6 DEF ChunksDone
      <4> QED BY <2>1, <2>7, <4>7 DEF Stream, Over, T, v, M
    <3> QED BY <2>7, <3>1, <3>2 DEF Over
  <2>8. Within(d, q, w, t, k) \/ Over(q, w, t, k)
    <3>1. Len(t) # k BY <1>6
    <3> QED BY <1>6, <3>1 DEF Stream
  <2> QED BY <2>6, <2>7, <2>8
<1> QED BY <1>5, <1>6

-----------------------------------------------------------------------------
(* A parser that waits lacks bytes, and what it refuses. *)

(* A line is complete in s.                                                *)
Lined(s) == \E l, c \in Seq(Symbol) : NoCr(l) /\ s = l \o (CRLF \o c)

LEMMA LineFound ==
  ASSUME NEW s \in Seq(Symbol), Lined(s)
  PROVE  Find(s) # None
<1>1. PICK l, c \in Seq(Symbol) : NoCr(l) /\ s = l \o (CRLF \o c) BY DEF Lined
<1> DEFINE e == <<>>
<1>2. e \in Seq(Symbol) /\ s \o e = s BY ConcatEmptySeq
<1> HIDE DEF e
<1>3. Taken(s, e, l, c) BY <1>1, <1>2, TakesLines, Zenon
<1>4. Len(l) + 2 <= Len(s)
  <2> DEFINE y == CRLF \o c
  <2>1. y \in Seq(Symbol) /\ Len(y) = Len(CRLF) + Len(c) BY <1>1, LineEnd, ConcatProperties, Zenon
  <2>2. Len(c) \in Nat /\ Len(CRLF) = 2 BY <1>1, LineEnd, LenProperties
  <2>3. Len(l) \in Nat BY <1>1, LenProperties
  <2> HIDE DEF y
  <2>4. Len(l \o y) = Len(l) + Len(y) BY <1>1, <2>1, ConcatProperties, Zenon
  <2>5. s = l \o y BY <1>1 DEF y
  <2> QED BY <2>1, <2>2, <2>3, <2>4, <2>5
<1>5. Len(s) \in Nat /\ Len(l) \in Nat /\ Len(l) # None
  <2>1. Len(s) \in Nat BY LenProperties
  <2>2. Len(l) \in Nat BY <1>1, LenProperties
  <2> QED BY <2>1, <2>2 DEF None
<1>6. ~(Len(s) < Len(l) + 2) BY <1>4, <1>5
<1> QED BY <1>3, <1>5, <1>6 DEF Taken

LEMMA HeaderLine ==
  ASSUME NEW d \in Dir, NEW fr, NEW b, Fits(fr, b)
  PROVE  Lined(Header(fr, b) \o (CRLF \o Body(d, fr, b))) /\ Lined(CRLF \o Body(d, fr, b))
<1> DEFINE y == Body(d, fr, b)
           x == CRLF \o y
<1>1. y \in Seq(Symbol) /\ x \in Seq(Symbol) /\ CRLF \in Seq(Symbol) BY MessageFacts, LineEnd
<1> HIDE DEF y, x
<1>2. Lined(x)
  <2> DEFINE l == <<>>
  <2>1. l \in Seq(Symbol) /\ NoCr(l)
    <3>1. Len(l) = 0 BY EmptySeq
    <3> QED BY <3>1 DEF NoCr
  <2>2. l \o x = x BY <1>1, ConcatEmptySeq
  <2> HIDE DEF l
  <2>3. x = l \o (CRLF \o y) BY <2>2 DEF x
  <2> QED BY <1>1, <2>1, <2>3 DEF Lined
<1>3. ASSUME NEW u \in Seq(Symbol), NoCr(u), Header(fr, b) = u \o CRLF
      PROVE  Lined(Header(fr, b) \o x)
  <2>1. Associates(u, CRLF, x) BY <1>1, Associate, Zenon
  <2>2. Header(fr, b) \o x = u \o (CRLF \o x) BY <1>3, <2>1 DEF Associates
  <2> QED BY <1>1, <1>3, <2>2 DEF Lined
<1>4. CASE fr = "none"
  <2>1. Header(fr, b) = <<>> BY <1>4, HeaderFacts
  <2>2. <<>> \o x = x BY <1>1, ConcatEmptySeq
  <2> QED BY <1>2, <2>1, <2>2 DEF x, y
<1>5. CASE fr = "length"
  <2> DEFINE u == <<"len", Number[Len(b)]>>
  <2>1. u \in Seq(Symbol) /\ Header(fr, b) = u \o CRLF /\ Len(b) \in DOMAIN Number
    BY <1>5, HeaderFacts
  <2>2. Number[Len(b)] # CR /\ "len" # CR BY <2>1, Numbers, LineEnd
  <2>3. NoCr(u)
    <3>1. Len(u) = 2 /\ u[1] = "len" /\ u[2] = Number[Len(b)] OBVIOUS
    <3> HIDE DEF u
    <3> QED BY <2>2, <3>1 DEF NoCr
  <2> HIDE DEF u
  <2>4. Lined(Header(fr, b) \o x) BY <1>3, <2>1, <2>3
  <2> QED BY <1>2, <2>4 DEF x, y
<1>6. CASE fr = "chunked"
  <2> DEFINE u == <<"te">>
  <2>1. u \in Seq(Symbol) /\ Header(fr, b) = u \o CRLF BY <1>6, HeaderFacts
  <2>2. NoCr(u)
    <3>1. Len(u) = 1 /\ u[1] = "te" /\ "te" # CR BY LineEnd
    <3> HIDE DEF u
    <3> QED BY <3>1 DEF NoCr
  <2> HIDE DEF u
  <2>3. Lined(Header(fr, b) \o x) BY <1>3, <2>1, <2>2
  <2> QED BY <1>2, <2>3 DEF x, y
<1> QED BY <1>4, <1>5, <1>6 DEF Fits, Framing

(* No parser waits for bytes when all of its message has arrived.          *)
LEMMA WaitsForSome ==
  ASSUME NEW d \in Dir, NEW q, ParserOK(q), NEW t \in Seq(Payloads), NEW k \in Nat,
         Stream(d, q, <<>>, t, k), q.at = "recv"
  PROVE  Len(t) = k
<1> SUFFICES ASSUME Len(t) # k PROVE FALSE OBVIOUS
<1> DEFINE b == t[k + 1]
           w == <<>>
<1>1. w \in Seq(Symbol) /\ q.buf \in Seq(Symbol) /\ q.body \in Seq(Symbol) BY DEF ParserOK
<1>2. q.buf \o w = q.buf /\ q.body \o w = q.body BY <1>1, ConcatEmptySeq
<1>3. Before(d, q, w, t, k) \/ Within(d, q, w, t, k)
  BY DEF Stream, Over, Threw, ChunksDone
<1>4. ASSUME Lined(q.buf), NoLine(q) PROVE FALSE BY <1>1, <1>4, LineFound DEF NoLine
<1> HIDE DEF w
<1>5. CASE Before(d, q, w, t, k)
  <2>1. PICK fr \in Framing :
          Fits(fr, b) /\ (InLine(d, q, w, fr, b) \/ InHeader(d, q, w, fr, b))
    BY <1>5 DEF Before
  <2> HIDE DEF b
  <2>2. CASE InLine(d, q, w, fr, b)
    <3> DEFINE l == <<"L">>
               c == Header(fr, b) \o (CRLF \o Body(d, fr, b))
    <3>1. c \in Seq(Symbol) BY <2>1, MessageFacts
    <3>2. l \in Seq(Symbol) /\ Len(l) = 1 /\ l[1] = "L" BY DEF Symbol
    <3>3. q.buf = l \o (CRLF \o c) BY <1>2, <2>2 DEF InLine
    <3> HIDE DEF l, c
    <3>4. NoCr(l) BY <3>2, LineEnd DEF NoCr
    <3>5. Lined(q.buf) BY <3>1, <3>2, <3>3, <3>4 DEF Lined
    <3> QED BY <1>4, <2>2, <3>5 DEF InLine
  <2>3. CASE InHeader(d, q, w, fr, b)
    <3>1. Lined(q.buf) BY <1>2, <2>1, <2>3, HeaderLine DEF InHeader
    <3> QED BY <1>4, <2>3, <3>1 DEF InHeader
  <2> QED BY <2>1, <2>2, <2>3
<1>6. CASE Within(d, q, w, t, k)
  <2>1. PICK fr \in Framing, later \in Coming(d, t, k + 1) :
          /\ Fits(fr, b) /\ Said(q, fr, b)
          /\ InPlain(q, w, b, later) \/ AtChunk(d, q, w, b, later) \/ InChunk(d, q, w, b, later)
    BY <1>6 DEF Within
  <2>2. later \in Seq(Symbol) /\ Len(later) \in Nat
    <3>1. k + 1 \in Nat OBVIOUS
    <3>2. later \in Seq(Symbol) BY <3>1, ComingFacts
    <3> QED BY <3>2, LenProperties
  <2>3. b \in Payloads /\ b \in Seq(Symbol) /\ Len(b) \in Nat BY <2>1, PayloadFacts DEF Fits
  <2>4. Len(q.body) \in Nat BY <1>1, LenProperties
  <2> HIDE DEF b
  <2>5. CASE InPlain(q, w, b, later)
    <3>1. q.rem > 0 /\ q.buf = <<>> /\ q.body \o (q.buf \o w) = b \o later
          /\ (q.rem = Len(b) - Len(q.body) \/ q.rem = None)
      BY <2>5 DEF InPlain
    <3>2. q.body = b \o later BY <1>2, <3>1
    <3>3. Len(b \o later) = Len(b) + Len(later) BY <2>2, <2>3, ConcatProperties, Zenon
    <3>4. Len(q.body) >= Len(b) BY <2>2, <2>3, <3>2, <3>3
    <3>5. q.rem # None BY <3>1 DEF None
    <3> QED BY <2>3, <2>4, <3>1, <3>4, <3>5
  <2>6. CASE AtChunk(d, q, w, b, later)
    <3> DEFINE o == Len(q.body)
    <3>1. o \in 0..Len(b)
      <4>1. o <= Len(b) BY <2>6 DEF AtChunk
      <4> HIDE DEF o
      <4> QED BY <2>3, <2>4, <4>1 DEF o
    <3>2. PICK lead \in {<<>>, <<LF>>} : q.buf \o w = lead \o (Sized(d, b, o) \o later)
      BY <2>6 DEF AtChunk
    <3> DEFINE c == Behind(d, b, o) \o later
    <3>3. c \in Seq(Symbol)
      <4>1. Behind(d, b, o) \in Seq(Symbol) BY <2>3, <3>1, ChunkShape
      <4> QED BY <2>2, <4>1, ConcatProperties, Zenon
    <3> HIDE DEF o
    <3>4. PICK l : SizeText(l, q, w, c, ReadEnd(b, o) - o) BY <1>1, <2>2, <2>3, <3>1, <3>2, SizeTextThere
    <3> HIDE DEF c
    <3>5. Lined(q.buf) BY <1>2, <3>3, <3>4 DEF SizeText, Lined
    <3> QED BY <1>4, <2>6, <3>5 DEF AtChunk
  <2>7. CASE InChunk(d, q, w, b, later)
    <3>1. PICK e \in 1..Len(b) :
            /\ Len(q.body) + q.rem = e /\ q.rem \in Nat /\ q.buf = <<>>
            /\ q.body \o (q.buf \o w) = Upto(b, e) \o (ChunksFrom(d, b)[e] \o later)
      BY <2>7 DEF InChunk
    <3> DEFINE u == Upto(b, e)
               z == ChunksFrom(d, b)[e]
               y == z \o later
    <3>2. e \in 0..Len(b) /\ e > 0 /\ e \in Nat BY <2>3
    <3>3. u \in Seq(Symbol) /\ Len(u) = e BY <2>3, <3>2, PayloadPart
    <3>4. z \in Seq(Symbol) /\ Len(z) > 0
      <4> DEFINE x == Sized(d, b, e)
      <4>1. x \in Seq(Symbol) /\ z = CRLF \o x BY <2>3, <3>2, ChunkShape
      <4> HIDE DEF x, z
      <4>2. z \in Seq(Symbol) /\ Len(z) = Len(CRLF) + Len(x) BY <4>1, LineEnd, ConcatProperties, Zenon
      <4>3. Len(x) \in Nat /\ Len(CRLF) = 2 BY <4>1, LenProperties, LineEnd
      <4> QED BY <4>2, <4>3
    <3> HIDE DEF u, z
    <3>5. y \in Seq(Symbol) /\ Len(y) = Len(z) + Len(later) BY <2>2, <3>4, ConcatProperties, Zenon
    <3>6. Len(y) > 0 /\ Len(y) \in Nat
      <4>1. Len(z) \in Nat BY <3>4, LenProperties
      <4> HIDE DEF y
      <4> QED BY <2>2, <3>4, <3>5, <4>1
    <3>7. q.body = u \o y
      <4>1. q.buf = w BY <3>1 DEF w
      <4>2. q.body \o (q.buf \o w) = q.body BY <1>2, <4>1
      <4> QED BY <3>1, <4>2 DEF u, z
    <3> HIDE DEF y
    <3>8. Len(u \o y) = Len(u) + Len(y) BY <3>3, <3>5, ConcatProperties, Zenon
    <3>9. Len(q.body) > e BY <3>2, <3>3, <3>6, <3>7, <3>8
    <3> QED BY <2>4, <3>1, <3>2, <3>9
  <2> QED BY <2>1, <2>5, <2>6, <2>7
<1> QED BY <1>3, <1>5, <1>6

(* None is undefined, and one that threw did so between a CR and its LF.   *)
LEMMA Refuses ==
  ASSUME NEW d \in Dir, NEW q, NEW w \in Seq(Symbol), NEW t, NEW k, Stream(d, q, w, t, k)
  PROVE  q.at # "undefined" /\ (q.at = "threw" => q.whole /\ Len(w) > 0 /\ w[1] = LF)
<1>1. CASE Over(q, w, t, k)
  <2>1. Threw(q, w) \/ q.at = "done" BY <1>1 DEF Over, ChunksDone
  <2>2. Threw(q, w) => q.at = "threw" /\ q.whole /\ Len(w) > 0 /\ w[1] = LF
    <3>1. w # <<>> => Len(w) # 0 BY EmptySeq
    <3>2. Len(w) \in Nat BY LenProperties
    <3> QED BY <3>1, <3>2 DEF Threw
  <2> QED BY <2>1, <2>2
<1>2. CASE Before(d, q, w, t, k) BY <1>2 DEF Before, InLine, InHeader
<1>3. CASE Within(d, q, w, t, k) BY <1>3 DEF Within, InPlain, AtChunk, InChunk
<1>4. CASE q = Fresh BY <1>4 DEF Fresh
<1> QED BY <1>1, <1>2, <1>3, <1>4 DEF Stream

-----------------------------------------------------------------------------
(* One direction of the connection: a parser q that has parsed k of the    *)
(* messages t, w on its way to it, and whether it has misread.             *)

Side(d, q, w, t, k, misread) ==
  /\ k <= Len(t) /\ (q # Fresh => k < Len(t))
  /\ DOMAIN q = Fields
  /\ q.at \in {"line", "header", "ready"} => ~q.marked
  /\ q.at \in {"line", "header"} => ~q.head
  /\ q.marked => q.head
  /\ misread => q.head \/ q = Fresh
  /\ misread \/ (ParserOK(q) /\ Stream(d, q, w, t, k))

LEMMA FreshSide ==
  ASSUME NEW d, NEW w, NEW t, NEW k, NEW misread,
         k <= Len(t), misread \/ Stream(d, Fresh, w, t, k)
  PROVE  Side(d, Fresh, w, t, k, misread)
<1>1. /\ DOMAIN Fresh = Fields /\ Fresh.buf = <<>> /\ Fresh.head = FALSE
      /\ Fresh.body = <<>> /\ Fresh.marked = FALSE /\ Fresh.at = "recv"
  BY DEF Fresh, Fields
<1>2. <<>> \in Seq(Symbol) OBVIOUS
<1>3. ParserOK(Fresh) BY <1>1, <1>2 DEF ParserOK
<1> QED BY <1>1, <1>3 DEF Side

(* What a step of a parser keeps when it is in a body.                     *)
LEMMA BodySide ==
  ASSUME NEW d \in Dir, NEW q, NEW w, NEW t, NEW k, NEW misread \in BOOLEAN,
         Side(d, q, w, t, k, misread), q.at \in {"body", "chunk"},
         NEW r, DOMAIN r = Fields, r.head = q.head, r.marked = q.marked,
         r.at \in {"recv", "chunk", "done", "threw"}, NEW m \in BOOLEAN, misread => m,
         m \/ (ParserOK(r) /\ Stream(d, r, w, t, k))
  PROVE  Side(d, r, w, t, k, m)
<1>1. q # Fresh BY DEF Fresh
<1>2. q.head
  <2>1. CASE misread BY <1>1, <2>1 DEF Side
  <2>2. CASE ~misread
    <3>1. Stream(d, q, w, t, k) BY <2>2 DEF Side
    <3> QED BY <3>1, InBody
  <2> QED BY <2>1, <2>2
<1> QED BY <1>1, <1>2 DEF Side

LEMMA RecvSide ==
  ASSUME NEW d \in Dir, NEW q, NEW w \in Seq(Symbol), NEW t \in Seq(Payloads), NEW k \in Nat,
         Side(d, q, w, t, k, FALSE), q.at = "recv", NEW j \in 1..Len(w),
         q.head /\ q.framing = "length" => j <= q.rem
  PROVE  /\ Side(d, Received(q, w, j), After(w, j), t, k, FALSE)
         /\ Received(q, w, j).marked = q.marked
<1> DEFINE r == Received(q, w, j)
<1>1. ParserOK(q) /\ Stream(d, q, w, t, k) BY DEF Side
<1>2. ParserOK(r) /\ Stream(d, r, After(w, j), t, k) /\ k < Len(t) BY <1>1, RecvStream
<1>3. /\ DOMAIN r = Fields /\ r.head = q.head /\ r.marked = q.marked
      /\ r.at = IF q.head THEN "body" ELSE IF q.line = <<>> THEN "line" ELSE "header"
  BY <1>1 DEF ParserOK, Fields, Received
<1> HIDE DEF r
<1>4. q.marked => q.head BY DEF Side
<1>5. k <= Len(t)
  <2>1. Len(t) \in Nat BY LenProperties
  <2> QED BY <1>2, <2>1
<1>6. /\ r.at \in {"line", "header", "ready"} => ~r.marked
      /\ r.at \in {"line", "header"} => ~r.head
  BY <1>3, <1>4
<1>7. Side(d, r, After(w, j), t, k, FALSE) BY <1>2, <1>3, <1>4, <1>5, <1>6 DEF Side, r
<1> QED BY <1>3, <1>7 DEF r

LEMMA WaitsFor ==
  ASSUME NEW d \in Dir, NEW q, NEW w, NEW t, NEW k, ParserOK(q), Stream(d, q, w, t, k),
         q.at = "recv", q.head, q.framing = "length"
  PROVE  q.rem \in Int
<1>1. Within(d, q, w, t, k)
  <2>1. q # Fresh BY DEF Fresh
  <2>2. ~Before(d, q, w, t, k) BY DEF Before, InLine, InHeader
  <2>3. ~Over(q, w, t, k) BY DEF Over, Threw, ChunksDone
  <2> QED BY <2>1, <2>2, <2>3 DEF Stream
<1>2. PICK b \in Payloads : \E later : InPlain(q, w, b, later)
  BY <1>1 DEF Within, AtChunk, InChunk, Fits
<1>3. q.rem = Len(b) - Len(q.body) \/ q.rem = None BY <1>2 DEF InPlain
<1>4. Len(b) \in Nat /\ Len(q.body) \in Nat BY PayloadFacts, LenProperties DEF ParserOK
<1> HIDE DEF None
<1> QED BY <1>3, <1>4 DEF None

LEMMA HeadSide ==
  ASSUME NEW d \in Dir, NEW q, NEW w, NEW t, NEW k, NEW misread \in BOOLEAN,
         Side(d, q, w, t, k, misread), q.at \in {"line", "header"},
         NEW r, DOMAIN r = Fields, r.at = "header" => ~r.head, r.at # "line", r.marked = q.marked,
         ParserOK(r) /\ Stream(d, r, w, t, k)
  PROVE  Side(d, r, w, t, k, misread) /\ ~misread
<1>1. q # Fresh BY DEF Fresh
<1>2. ~misread BY <1>1 DEF Side
<1>3. k <= Len(t) /\ k < Len(t) /\ ~q.marked BY <1>1 DEF Side
<1> QED BY <1>2, <1>3 DEF Side

LEMMA BeginSide ==
  ASSUME NEW d \in Dir, NEW q, NEW w \in Seq(Symbol), NEW t \in Seq(Payloads), NEW k \in Nat,
         NEW misread \in BOOLEAN, Side(d, q, w, t, k, misread), q.at = "ready"
  PROVE  Side(d, Begun(q), w, t, k, misread) /\ Begun(q).marked
<1> DEFINE r == Begun(q)
<1>1. q # Fresh BY DEF Fresh
<1>2. q.head
  <2>1. CASE misread BY <1>1, <2>1 DEF Side
  <2>2. CASE ~misread
    <3>1. Stream(d, q, w, t, k) BY <2>2 DEF Side
    <3>2. ~Before(d, q, w, t, k) BY DEF Before, InLine, InHeader
    <3> QED BY <1>1, <3>1, <3>2 DEF Stream, Within, Over
  <2> QED BY <2>1, <2>2
<1>3. DOMAIN r = Fields /\ r.head = q.head /\ r.marked = TRUE /\ r.at = "body" BY DEF Side, Fields, Begun
<1>4. ASSUME ~misread PROVE ParserOK(r) /\ Stream(d, r, w, t, k)
  <2>1. ParserOK(q) /\ Stream(d, q, w, t, k) BY <1>4 DEF Side
  <2> QED BY <2>1, BeginStream, Zenon
<1> HIDE DEF r
<1>5. Side(d, r, w, t, k, misread) BY <1>1, <1>2, <1>3, <1>4 DEF Side
<1> QED BY <1>3, <1>5 DEF r

LEMMA ClearSide ==
  ASSUME NEW d \in Dir, NEW q, NEW w \in Seq(Symbol), NEW t \in Seq(Payloads), NEW k \in Nat,
         NEW misread \in BOOLEAN, Side(d, q, w, t, k, misread), q.at = "done",
         NEW m \in BOOLEAN, misread => m,
         (q.framing = "chunked" /\ (w # <<>> \/ Contains(q.buf, "L"))) => m
  PROVE  Side(d, Fresh, w, t, k + 1, m)
<1>1. q # Fresh BY DEF Fresh
<1>2. k + 1 <= Len(t)
  <2>1. k < Len(t) BY <1>1 DEF Side
  <2>2. Len(t) \in Nat BY LenProperties
  <2> QED BY <2>1, <2>2
<1>3. m \/ Stream(d, Fresh, w, t, k + 1)
  <2>1. ASSUME ~m PROVE Stream(d, Fresh, w, t, k + 1)
    <3>1. ParserOK(q) /\ Stream(d, q, w, t, k) BY <2>1 DEF Side
    <3>2. ~(q.framing = "chunked" /\ (w # <<>> \/ Contains(q.buf, "L"))) BY <2>1
    <3> QED BY <3>1, <3>2, ClearStream
  <2> QED BY <2>1
<1> QED BY <1>2, <1>3, FreshSide

LEMMA AppendSide ==
  ASSUME NEW d \in Dir, NEW q, NEW w \in Seq(Symbol), NEW t \in Seq(Payloads), NEW k \in Nat,
         NEW misread \in BOOLEAN, Side(d, q, w, t, k, misread), NEW fr, NEW c, Fits(fr, c),
         Len(t) = k \/ (Len(t) = k + 1 /\ (q.at \in {"ready", "done"} \/ q.marked))
  PROVE  Side(d, q, w \o Message(d, fr, c), Append(t, c), k, misread)
<1>1. Len(Append(t, c)) = Len(t) + 1 /\ Len(t) \in Nat BY AppendProperties, LenProperties DEF Fits
<1>2. k <= Len(Append(t, c)) /\ k < Len(Append(t, c)) BY <1>1 DEF Side
<1>3. ASSUME ~misread PROVE ParserOK(q) /\ Stream(d, q, w \o Message(d, fr, c), Append(t, c), k)
  <2>1. ParserOK(q) /\ Stream(d, q, w, t, k) BY <1>3 DEF Side
  <2>2. q.at \in {"ready", "done"} \/ q.marked => ~Before(d, q, w, t, k)
    BY DEF Before, InLine, InHeader, Unbegun
  <2> QED BY <2>1, <2>2, AppendStream
<1> QED BY <1>2, <1>3 DEF Side

-----------------------------------------------------------------------------
(* The invariant. *)

TypesOK ==
  /\ net \in [Dir -> Seq(Symbol)] /\ DOMAIN p = Dir
  /\ sent \in [Dir -> Seq(Payloads)] /\ n \in [Dir -> Nat]
  /\ stale \in [Dir -> BOOLEAN] /\ torn \in [Dir -> BOOLEAN]

(* Requests and responses take turns.                                      *)
Served == IF spc \in {"clear", "clearing"} THEN 1 ELSE 0
Asked == IF cpc = "response" THEN 1 ELSE 0

ControlOK ==
  /\ spc \in {"head", "endpoint", "clear", "clearing"} /\ cpc \in {"idle", "response"}
  /\ Len(sent["req"]) = n["res"] + Asked
  /\ Len(sent["res"]) = n["req"] + Served
  /\ spc = "clear" => p["req"].at \in {"ready", "done"}
  /\ spc \in {"endpoint", "clearing"} => p["req"].marked

Inv ==
  /\ TypesOK /\ ControlOK
  /\ \A d \in Dir : Side(d, p[d], net[d], sent[d], n[d], Misread(d))

LEMMA TwoWays == Dir = {"req", "res"} /\ "req" \in Dir /\ "res" \in Dir /\ "req" # "res"
BY DEF Dir

(* A step of the parser of one direction.                                  *)
LEMMA ParserStep ==
  ASSUME Inv, NEW d \in Dir, NEW r, Becomes(d, r),
         UNCHANGED <<spc, cpc, sent, n, torn>>,
         NEW w \in Seq(Symbol), net' = [net EXCEPT ![d] = w],
         NEW m \in BOOLEAN, stale' = [stale EXCEPT ![d] = m],
         Side(d, r, w, sent[d], n[d], m \/ torn[d]),
         p[d].at \notin {"ready", "done"}, p[d].marked => r.marked
  PROVE  Inv'
<1>1. /\ DOMAIN p' = Dir /\ p'[d] = r /\ net'[d] = w /\ stale'[d] = m
      /\ \A c \in Dir : c # d => p'[c] = p[c] /\ net'[c] = net[c] /\ stale'[c] = stale[c]
  BY DEF Inv, TypesOK, Becomes
<1>2. TypesOK' BY <1>1 DEF Inv, TypesOK
<1>3. ASSUME NEW c \in Dir
      PROVE  Side(c, p'[c], net'[c], sent'[c], n'[c], Misread(c)')
  <2>1. CASE c = d BY <1>1, <2>1 DEF Misread
  <2>2. CASE c # d
    <3>1. Side(c, p[c], net[c], sent[c], n[c], Misread(c)) BY DEF Inv
    <3> QED BY <1>1, <2>2, <3>1 DEF Misread
  <2> QED BY <2>1, <2>2
<1>4. ControlOK'
  <2>1. d = "req" => spc # "clear" BY DEF Inv, ControlOK
  <2>2. spc = "clear" => p'["req"].at \in {"ready", "done"}
    BY <1>1, <2>1, TwoWays DEF Inv, ControlOK
  <2>3. spc \in {"endpoint", "clearing"} => p'["req"].marked
    BY <1>1, TwoWays DEF Inv, ControlOK
  <2> QED BY <2>2, <2>3 DEF Inv, ControlOK, Served, Asked
<1> QED BY <1>2, <1>3, <1>4 DEF Inv

LEMMA SideFacts ==
  ASSUME Inv, NEW d \in Dir
  PROVE  /\ net[d] \in Seq(Symbol) /\ sent[d] \in Seq(Payloads) /\ n[d] \in Nat
         /\ stale[d] \in BOOLEAN /\ torn[d] \in BOOLEAN /\ Misread(d) \in BOOLEAN
         /\ Len(net[d]) \in Nat /\ Len(sent[d]) \in Nat
         /\ net = [net EXCEPT ![d] = net[d]] /\ stale = [stale EXCEPT ![d] = stale[d]]
         /\ Side(d, p[d], net[d], sent[d], n[d], Misread(d))
         /\ DOMAIN p[d] = Fields
<1>1. net[d] \in Seq(Symbol) /\ sent[d] \in Seq(Payloads) BY DEF Inv, TypesOK
<1>2. n[d] \in Nat /\ stale[d] \in BOOLEAN /\ torn[d] \in BOOLEAN /\ Misread(d) \in BOOLEAN
  BY DEF Inv, TypesOK, Misread
<1>3. Len(net[d]) \in Nat /\ Len(sent[d]) \in Nat BY <1>1, LenProperties
<1>4. net = [net EXCEPT ![d] = net[d]] BY DEF Inv, TypesOK
<1>5. stale = [stale EXCEPT ![d] = stale[d]] BY DEF Inv, TypesOK
<1>6. Side(d, p[d], net[d], sent[d], n[d], Misread(d)) BY DEF Inv
<1>7. DOMAIN p[d] = Fields BY <1>6 DEF Side
<1> QED BY <1>1, <1>2, <1>3, <1>4, <1>5, <1>6, <1>7

LEMMA RecvKeeps ==
  ASSUME Inv, NEW d \in Dir, ~FollowMisread \/ ~Misread(d), Recv(d)
  PROVE  Inv'
<1> DEFINE q == p[d]
           w == net[d]
<1>1. ~Misread(d) /\ q.at = "recv" BY DEF Recv
<1>2. PICK j \in 1..Min({Len(w), Room(q)}) :
        /\ Becomes(d, [q EXCEPT
             !.buf = @ \o SubSeq(w, 1, j),
             !.at = IF q.head THEN "body" ELSE IF q.line = <<>> THEN "line" ELSE "header"])
        /\ net' = [net EXCEPT ![d] = After(@, j)]
  BY DEF Recv
<1>3. /\ w \in Seq(Symbol) /\ sent[d] \in Seq(Payloads) /\ n[d] \in Nat /\ Len(w) \in Nat
      /\ Side(d, q, w, sent[d], n[d], Misread(d)) /\ torn[d] \in BOOLEAN /\ stale[d] \in BOOLEAN
      /\ stale = [stale EXCEPT ![d] = stale[d]]
  BY SideFacts
<1>4. Side(d, q, w, sent[d], n[d], FALSE)
  <2>1. Misread(d) = FALSE BY <1>1 DEF Misread
  <2> QED BY <1>3, <2>1
<1>5. Room(q) \in Int
  <2>1. CASE q.head /\ q.framing = "length"
    <3>1. ParserOK(q) /\ Stream(d, q, w, sent[d], n[d]) BY <1>4 DEF Side
    <3>2. q.rem \in Int BY <1>1, <2>1, <3>1, WaitsFor
    <3> QED BY <2>1, <3>2 DEF Room
  <2>2. CASE ~(q.head /\ q.framing = "length")
    <3>1. Len(net["req"]) \in Nat /\ Len(net["res"]) \in Nat BY SideFacts, TwoWays
    <3>2. Room(q) = Len(net["req"]) + Len(net["res"]) BY <2>2 DEF Room
    <3> QED BY <3>1, <3>2
  <2> QED BY <2>1, <2>2
<1>6. j \in 1..Len(w) /\ j <= Room(q)
  <2>1. Min({Len(w), Room(q)}) = IF Len(w) <= Room(q) THEN Len(w) ELSE Room(q)
    <3>1. Len(w) \in Int BY <1>3
    <3> HIDE DEF q, w
    <3> QED BY <1>5, <3>1, MinOfTwo
  <2> DEFINE a == Len(w)
             b == Room(q)
  <2>2. j \in 1..(IF a <= b THEN a ELSE b) BY <1>2, <2>1
  <2>3. a \in Nat /\ b \in Int BY <1>3, <1>5
  <2> HIDE DEF a, b
  <2>4. j \in 1..a /\ j <= b BY <2>2, <2>3
  <2> QED BY <2>4 DEF a, b
<1>7. q.head /\ q.framing = "length" => j <= q.rem BY <1>6 DEF Room
<1> DEFINE r == Received(q, w, j)
           v == After(w, j)
<1>8. Side(d, r, v, sent[d], n[d], FALSE) /\ r.marked = q.marked
  <2> DEFINE t == sent[d]
             k == n[d]
  <2>1. w \in Seq(Symbol) /\ t \in Seq(Payloads) /\ k \in Nat BY <1>3
  <2>2. Side(d, q, w, t, k, FALSE) /\ q.at = "recv" BY <1>1, <1>4
  <2> HIDE DEF q, w, t, k
  <2>3. Side(d, r, v, t, k, FALSE) /\ r.marked = q.marked
    BY <1>6, <1>7, <2>1, <2>2, RecvSide
  <2> QED BY <2>3 DEF t, k
<1>9. v \in Seq(Symbol)
  <2>1. j \in 0..Len(w) BY <1>3, <1>6
  <2> QED BY <1>3, <2>1, Cut
<1>10. net' = [net EXCEPT ![d] = v] /\ Becomes(d, r) BY <1>2 DEF Received
<1>11. stale' = [stale EXCEPT ![d] = stale[d]] /\ UNCHANGED <<spc, cpc, sent, n, torn>>
  BY <1>3 DEF Recv
<1>12. (stale[d] \/ torn[d]) = FALSE BY <1>1, <1>3 DEF Misread
<1>13. Side(d, r, v, sent[d], n[d], stale[d] \/ torn[d]) BY <1>8, <1>12
<1>14. p[d].at \notin {"ready", "done"} /\ (p[d].marked => r.marked) BY <1>1, <1>8
<1> HIDE DEF r, v
<1> QED BY <1>3, <1>9, <1>10, <1>11, <1>13, <1>14, ParserStep

(* A step of a parser that takes nothing from the connection.              *)
LEMMA ParseStep ==
  ASSUME Inv, NEW d \in Dir, NEW r, Becomes(d, r), ParserKeeps,
         NEW m \in BOOLEAN, stale' = [stale EXCEPT ![d] = m],
         Side(d, r, net[d], sent[d], n[d], m \/ torn[d]),
         p[d].at \notin {"ready", "done"}, r.marked = p[d].marked
  PROVE  Inv'
<1>1. net[d] \in Seq(Symbol) /\ net = [net EXCEPT ![d] = net[d]] BY SideFacts
<1>2. net' = [net EXCEPT ![d] = net[d]] /\ UNCHANGED <<spc, cpc, sent, n, torn>>
  BY <1>1 DEF ParserKeeps
<1> QED BY <1>1, <1>2, ParserStep

LEMMA ParseLineKeeps ==
  ASSUME Inv, NEW d \in Dir, ParseLine(d)
  PROVE  Inv'
<1> DEFINE q == p[d]
           r == LineParsed(q)
<1>1. q.at = "line" /\ Becomes(d, r) /\ ParserKeeps /\ stale' = stale BY DEF ParseLine, LineParsed
<1>2. /\ net[d] \in Seq(Symbol) /\ sent[d] \in Seq(Payloads) /\ n[d] \in Nat /\ Misread(d) \in BOOLEAN
      /\ Side(d, q, net[d], sent[d], n[d], Misread(d)) /\ stale[d] \in BOOLEAN
      /\ stale = [stale EXCEPT ![d] = stale[d]] /\ DOMAIN q = Fields
  BY SideFacts
<1>3. ~q.head /\ ~Misread(d)
  <2>1. q # Fresh BY <1>1 DEF Fresh
  <2> QED BY <1>1, <1>2, <2>1 DEF Side
<1>4. DOMAIN r = Fields /\ r.head = q.head /\ r.marked = q.marked /\ r.at # "line"
  BY <1>2 DEF Fields, LineParsed
<1> HIDE DEF q
<1>5. ParserOK(q) /\ Stream(d, q, net[d], sent[d], n[d]) BY <1>2, <1>3 DEF Side
<1>6. ParserOK(r) /\ Stream(d, r, net[d], sent[d], n[d]) BY <1>1, <1>2, <1>5, LineStream
<1> HIDE DEF r
<1>7. Side(d, r, net[d], sent[d], n[d], Misread(d)) BY <1>1, <1>2, <1>3, <1>4, <1>6, HeadSide
<1>8. Side(d, r, net[d], sent[d], n[d], stale[d] \/ torn[d]) BY <1>7 DEF Misread
<1>9. stale' = [stale EXCEPT ![d] = stale[d]] BY <1>1, <1>2
<1> QED BY <1>1, <1>2, <1>4, <1>8, <1>9, ParseStep DEF q

LEMMA ParseHeaderKeeps ==
  ASSUME Inv, NEW d \in Dir, ParseHeader(d)
  PROVE  Inv'
<1> DEFINE q == p[d]
           text == Text(q.buf)
           rest == After(q.buf, Find(q.buf) + 2)
           r == CASE Find(q.buf) = None -> [q EXCEPT !.at = "recv"]
                  [] Find(q.buf) = 0 -> [q EXCEPT !.buf = rest, !.head = TRUE, !.at = "ready"]
                  [] Find(q.buf) > 0 /\ text[1] = "te" ->
                       [q EXCEPT !.buf = rest, !.framing = IF @ = "none" THEN "chunked" ELSE @]
                  [] Find(q.buf) > 0 /\ text[1] = "len" ->
                       [q EXCEPT !.buf = rest, !.framing = "length", !.len = SizeOf(text[2])]
                  [] OTHER -> [q EXCEPT !.at = "undefined"]
<1>1. q.at = "header" /\ Becomes(d, r) /\ ParserKeeps /\ stale' = stale BY DEF ParseHeader
<1>2. /\ net[d] \in Seq(Symbol) /\ sent[d] \in Seq(Payloads) /\ n[d] \in Nat /\ Misread(d) \in BOOLEAN
      /\ Side(d, q, net[d], sent[d], n[d], Misread(d)) /\ stale[d] \in BOOLEAN
      /\ stale = [stale EXCEPT ![d] = stale[d]] /\ DOMAIN q = Fields
  BY SideFacts
<1>3. ~q.head /\ ~Misread(d)
  <2>1. q # Fresh BY <1>1 DEF Fresh
  <2> QED BY <1>1, <1>2, <2>1 DEF Side
<1> HIDE DEF q
<1>4. DOMAIN r = Fields /\ r.marked = q.marked /\ r.at # "line" /\ (r.at = "header" => ~r.head)
  <2> DEFINE x == SizeOf(text[2])
             a == text[1]
             i == Find(q.buf)
             y == IF q.framing = "none" THEN "chunked" ELSE q.framing
  <2>1. r = CASE i = None -> [q EXCEPT !.at = "recv"]
              [] i = 0 -> [q EXCEPT !.buf = rest, !.head = TRUE, !.at = "ready"]
              [] i > 0 /\ a = "te" -> [q EXCEPT !.buf = rest, !.framing = y]
              [] i > 0 /\ a = "len" -> [q EXCEPT !.buf = rest, !.framing = "length", !.len = x]
              [] OTHER -> [q EXCEPT !.at = "undefined"]
    OBVIOUS
  <2> HIDE DEF x, a, i, y, rest, r
  <2>2. \/ r = [q EXCEPT !.at = "recv"]
        \/ r = [q EXCEPT !.buf = rest, !.head = TRUE, !.at = "ready"]
        \/ r = [q EXCEPT !.buf = rest, !.framing = y]
        \/ r = [q EXCEPT !.buf = rest, !.framing = "length", !.len = x]
        \/ r = [q EXCEPT !.at = "undefined"]
    BY <2>1
  <2> QED BY <1>1, <1>2, <1>3, <2>2 DEF Fields
<1>5. ParserOK(q) /\ Stream(d, q, net[d], sent[d], n[d]) BY <1>2, <1>3 DEF Side
<1>6. ParserOK(r) /\ Stream(d, r, net[d], sent[d], n[d]) BY <1>1, <1>2, <1>5, HeaderStream
<1> HIDE DEF r
<1>7. Side(d, r, net[d], sent[d], n[d], Misread(d)) BY <1>1, <1>2, <1>3, <1>4, <1>6, HeadSide
<1>8. Side(d, r, net[d], sent[d], n[d], stale[d] \/ torn[d]) BY <1>7 DEF Misread
<1>9. stale' = [stale EXCEPT ![d] = stale[d]] BY <1>1, <1>2
<1> QED BY <1>1, <1>2, <1>4, <1>8, <1>9, ParseStep DEF q

LEMMA BodyStep ==
  ASSUME Inv, NEW d \in Dir, p[d].at \in {"body", "chunk"},
         NEW r, Becomes(d, r), ParserKeeps,
         DOMAIN r = Fields, r.head = p[d].head, r.marked = p[d].marked,
         r.at \in {"recv", "chunk", "done", "threw"},
         NEW m \in BOOLEAN, stale' = [stale EXCEPT ![d] = m], stale[d] => m,
         ~m /\ ~Misread(d) /\ ParserOK(p[d]) /\ Stream(d, p[d], net[d], sent[d], n[d]) =>
           ParserOK(r) /\ Stream(d, r, net[d], sent[d], n[d])
  PROVE  Inv'
<1>1. /\ net[d] \in Seq(Symbol) /\ sent[d] \in Seq(Payloads) /\ n[d] \in Nat /\ Misread(d) \in BOOLEAN
      /\ Side(d, p[d], net[d], sent[d], n[d], Misread(d)) /\ stale[d] \in BOOLEAN /\ torn[d] \in BOOLEAN
  BY SideFacts
<1> DEFINE a == m \/ torn[d]
<1>2. a \in BOOLEAN /\ (Misread(d) => a) BY <1>1 DEF Misread
<1>3. a \/ (ParserOK(r) /\ Stream(d, r, net[d], sent[d], n[d]))
  <2>1. ASSUME ~a PROVE ParserOK(r) /\ Stream(d, r, net[d], sent[d], n[d])
    <3>1. ~m /\ ~Misread(d) BY <1>2, <2>1
    <3>2. ParserOK(p[d]) /\ Stream(d, p[d], net[d], sent[d], n[d]) BY <1>1, <3>1 DEF Side
    <3> QED BY <3>1, <3>2
  <2> QED BY <2>1
<1> HIDE DEF a
<1>4. Side(d, r, net[d], sent[d], n[d], a) BY <1>1, <1>2, <1>3, BodySide
<1>5. p[d].at \notin {"ready", "done"} OBVIOUS
<1> QED BY <1>4, <1>5, ParseStep DEF a

LEMMA ParseBodyKeeps ==
  ASSUME Inv, NEW d \in Dir, ParseBody(d)
  PROVE  Inv'
<1> DEFINE q == p[d]
<1>1. /\ net[d] \in Seq(Symbol) /\ sent[d] \in Seq(Payloads) /\ n[d] \in Nat /\ stale[d] \in BOOLEAN
      /\ stale = [stale EXCEPT ![d] = stale[d]] /\ DOMAIN q = Fields
      /\ Side(d, q, net[d], sent[d], n[d], Misread(d))
  BY SideFacts
<1>2. CASE ParseLength(d)
  <2> DEFINE r == LengthParsed(q)
  <2>1. q.at = "body" /\ q.framing = "length" /\ Becomes(d, r) /\ ParserKeeps /\ stale' = stale
    BY <1>2 DEF ParseLength, LengthParsed
  <2>2. DOMAIN r = Fields /\ r.head = q.head /\ r.marked = q.marked /\ r.at \in {"recv", "done"}
    BY <1>1 DEF Fields, LengthParsed
  <2>3. ASSUME ParserOK(q), Stream(d, q, net[d], sent[d], n[d])
        PROVE  ParserOK(r) /\ Stream(d, r, net[d], sent[d], n[d])
    BY <1>1, <2>1, <2>3, LengthStream
  <2> HIDE DEF r
  <2>4. stale' = [stale EXCEPT ![d] = stale[d]] BY <1>1, <2>1
  <2> QED BY <1>1, <2>1, <2>2, <2>3, <2>4, BodyStep
<1>3. CASE ParseNone(d)
  <2> DEFINE r == NoneParsed(q)
  <2>1. q.at = "body" /\ q.framing = "none" /\ Becomes(d, r) /\ ParserKeeps /\ stale' = stale
    BY <1>3 DEF ParseNone, NoneParsed
  <2>2. DOMAIN r = Fields /\ r.head = q.head /\ r.marked = q.marked /\ r.at = "done"
    BY <1>1 DEF Fields, NoneParsed
  <2>3. ASSUME ParserOK(q), Stream(d, q, net[d], sent[d], n[d])
        PROVE  ParserOK(r) /\ Stream(d, r, net[d], sent[d], n[d])
    BY <1>1, <2>1, <2>3, NoneStream
  <2> HIDE DEF r
  <2>4. stale' = [stale EXCEPT ![d] = stale[d]] BY <1>1, <2>1
  <2> QED BY <1>1, <2>1, <2>2, <2>3, <2>4, BodyStep
<1>4. CASE ParsePending(d)
  <2> DEFINE r == PendingParsed(q)
             m == stale[d] \/ q.whole
  <2>1. /\ q.at = "body" /\ q.framing = "chunked" /\ q.rem # None /\ Becomes(d, r) /\ ParserKeeps
        /\ stale' = [stale EXCEPT ![d] = m]
    BY <1>4 DEF ParsePending, PendingParsed
  <2>2. DOMAIN r = Fields /\ r.head = q.head /\ r.marked = q.marked /\ r.at \in {"recv", "chunk"}
    BY <1>1 DEF Fields, PendingParsed, TakePart
  <2>3. ASSUME ~m, ParserOK(q), Stream(d, q, net[d], sent[d], n[d])
        PROVE  ParserOK(r) /\ Stream(d, r, net[d], sent[d], n[d])
    <3>1. ~q.whole BY <2>3
    <3> QED BY <1>1, <2>1, <2>3, <3>1, PendingStream
  <2>4. m \in BOOLEAN OBVIOUS
  <2>5. stale[d] => m BY <1>1
  <2> HIDE DEF r, m
  <2> QED BY <1>1, <2>1, <2>2, <2>3, <2>4, <2>5, BodyStep
<1>5. CASE ParseFirst(d)
  <2> DEFINE r == FirstParsed(q)
  <2>1. /\ q.at = "body" /\ q.framing = "chunked" /\ q.rem = None /\ Becomes(d, r) /\ ParserKeeps
        /\ stale' = stale
    BY <1>5 DEF ParseFirst, FirstParsed
  <2>2. DOMAIN r = Fields /\ r.head = q.head /\ r.marked = q.marked /\ r.at = "chunk"
    BY <1>1 DEF Fields, FirstParsed
  <2>3. ASSUME ParserOK(q), Stream(d, q, net[d], sent[d], n[d])
        PROVE  ParserOK(r) /\ Stream(d, r, net[d], sent[d], n[d])
    BY <1>1, <2>1, <2>3, FirstStream
  <2> HIDE DEF r
  <2>4. stale' = [stale EXCEPT ![d] = stale[d]] BY <1>1, <2>1
  <2> QED BY <1>1, <2>1, <2>2, <2>3, <2>4, BodyStep
<1>6. CASE ParseChunk(d)
  <2> DEFINE r == ChunkParsed(q)
  <2>1. q.at = "chunk" /\ Becomes(d, r) /\ ParserKeeps /\ stale' = stale
    BY <1>6 DEF ParseChunk, ChunkParsed
  <2>2. DOMAIN r = Fields /\ r.head = q.head /\ r.marked = q.marked
        /\ r.at \in {"recv", "chunk", "done", "threw"}
    BY <1>1, <2>1 DEF Fields, ChunkParsed, TakePart
  <2>3. ASSUME ParserOK(q), Stream(d, q, net[d], sent[d], n[d])
        PROVE  ParserOK(r) /\ Stream(d, r, net[d], sent[d], n[d])
    BY <1>1, <2>1, <2>3, ChunkStream
  <2> HIDE DEF r
  <2>4. stale' = [stale EXCEPT ![d] = stale[d]] BY <1>1, <2>1
  <2> QED BY <1>1, <2>1, <2>2, <2>3, <2>4, BodyStep
<1> QED BY <1>2, <1>3, <1>4, <1>5, <1>6 DEF ParseBody

-----------------------------------------------------------------------------
(* The steps of the handler and of the client. *)

LEMMA OneSide ==
  ASSUME Inv, NEW d \in Dir, TypesOK', ControlOK',
         Side(d, p'[d], net'[d], sent'[d], n'[d], Misread(d)'),
         \A c \in Dir : c # d =>
           /\ p'[c] = p[c] /\ net'[c] = net[c] /\ sent'[c] = sent[c] /\ n'[c] = n[c]
           /\ stale'[c] = stale[c] /\ torn'[c] = torn[c]
  PROVE  Inv'
<1>1. ASSUME NEW c \in Dir
      PROVE  Side(c, p'[c], net'[c], sent'[c], n'[c], Misread(c)')
  <2>1. CASE c = d BY <2>1
  <2>2. CASE c # d
    <3>1. Side(c, p[c], net[c], sent[c], n[c], Misread(c)) BY DEF Inv
    <3>2. Misread(c)' = Misread(c) BY <2>2 DEF Misread
    <3> QED BY <2>2, <3>1, <3>2
  <2> QED BY <2>1, <2>2
<1> QED BY <1>1 DEF Inv

LEMMA ToldApart ==
  ASSUME Inv, NEW d \in Dir, p[d].at # "recv"
  PROVE  n[d] < Len(sent[d])
<1>1. p[d] # Fresh BY DEF Fresh
<1> QED BY <1>1 DEF Inv, Side

(* parseBody is called for a message whose head is parsed.                 *)
LEMMA BeginKeeps ==
  ASSUME Inv, NEW d \in Dir, p[d].at = "ready", BeginBody(d),
         UNCHANGED <<net, sent, n, torn, stale>>
  PROVE  /\ Side(d, p'[d], net'[d], sent'[d], n'[d], Misread(d)')
         /\ p'[d].marked
         /\ \A c \in Dir : c # d => p'[c] = p[c]
         /\ TypesOK'
<1>1. p'[d] = Begun(p[d]) /\ DOMAIN p' = Dir /\ \A c \in Dir : c # d => p'[c] = p[c]
  BY DEF Inv, TypesOK, BeginBody, Becomes, Begun
<1>2. /\ net[d] \in Seq(Symbol) /\ sent[d] \in Seq(Payloads) /\ n[d] \in Nat /\ Misread(d) \in BOOLEAN
      /\ Side(d, p[d], net[d], sent[d], n[d], Misread(d))
  BY SideFacts
<1>3. Side(d, Begun(p[d]), net[d], sent[d], n[d], Misread(d)) /\ Begun(p[d]).marked
  BY <1>2, BeginSide
<1>4. Misread(d)' = Misread(d) BY DEF Misread
<1>5. TypesOK' BY <1>1 DEF Inv, TypesOK
<1> QED BY <1>1, <1>3, <1>4, <1>5

LEMMA EndpointParsesKeeps ==
  ASSUME Inv, EndpointParses
  PROVE  Inv'
<1>1. /\ spc = "head" /\ p["req"].at = "ready" /\ spc' = "endpoint" /\ BeginBody("req")
      /\ UNCHANGED <<net, sent, n, torn, stale, cpc>>
  BY DEF EndpointParses, ServerKeeps
<1>2. /\ Side("req", p'["req"], net'["req"], sent'["req"], n'["req"], Misread("req")')
      /\ p'["req"].marked /\ \A c \in Dir : c # "req" => p'[c] = p[c]
      /\ TypesOK'
  BY <1>1, TwoWays, BeginKeeps
<1>3. ControlOK' BY <1>1, <1>2 DEF Inv, ControlOK, Served, Asked
<1> QED BY <1>1, <1>2, <1>3, TwoWays, OneSide

LEMMA ClearParsesKeeps ==
  ASSUME Inv, ClearParses
  PROVE  Inv'
<1>1. /\ spc = "clear" /\ p["req"].at = "ready" /\ spc' = "clearing" /\ BeginBody("req")
      /\ UNCHANGED <<net, sent, n, torn, stale, cpc>>
  BY DEF ClearParses, ServerKeeps
<1>2. /\ Side("req", p'["req"], net'["req"], sent'["req"], n'["req"], Misread("req")')
      /\ p'["req"].marked /\ \A c \in Dir : c # "req" => p'[c] = p[c]
      /\ TypesOK'
  BY <1>1, TwoWays, BeginKeeps
<1>3. ControlOK' BY <1>1, <1>2 DEF Inv, ControlOK, Served, Asked
<1> QED BY <1>1, <1>2, <1>3, TwoWays, OneSide

LEMMA ParserResKeeps ==
  ASSUME Inv, ParserRes
  PROVE  Inv'
<1>1. /\ p["res"].at = "ready" /\ BeginBody("res")
      /\ UNCHANGED <<net, sent, n, torn, stale, spc, cpc>>
  BY DEF ParserRes
<1>2. /\ Side("res", p'["res"], net'["res"], sent'["res"], n'["res"], Misread("res")')
      /\ \A c \in Dir : c # "res" => p'[c] = p[c]
      /\ TypesOK'
  BY <1>1, TwoWays, BeginKeeps
<1>3. ControlOK' BY <1>1, <1>2, TwoWays DEF Inv, ControlOK, Served, Asked
<1> QED BY <1>1, <1>2, <1>3, TwoWays, OneSide

(* A message is written: the parser of that direction is in the last one,  *)
(* whose body has begun, or in none.                                       *)
LEMMA WriteKeeps ==
  ASSUME Inv, NEW d \in Dir, NEW framings, framings \subseteq {"none", "length", "chunked"},
         Write(d, framings), UNCHANGED <<p, n, torn, stale>>,
         Len(sent[d]) = n[d]
           \/ (Len(sent[d]) = n[d] + 1 /\ (p[d].at \in {"ready", "done"} \/ p[d].marked))
  PROVE  /\ Side(d, p'[d], net'[d], sent'[d], n'[d], Misread(d)')
         /\ \A c \in Dir : c # d => net'[c] = net[c] /\ sent'[c] = sent[c]
         /\ TypesOK'
         /\ Len(sent'[d]) = Len(sent[d]) + 1
<1>1. PICK framing \in framings, b \in Payloads :
        /\ framing = "none" => b = <<>>
        /\ net' = [net EXCEPT ![d] = @ \o Message(d, framing, b)]
        /\ sent' = [sent EXCEPT ![d] = Append(@, b)]
  BY DEF Write
<1>2. Fits(framing, b) BY <1>1 DEF Fits, Framing
<1>3. /\ net[d] \in Seq(Symbol) /\ sent[d] \in Seq(Payloads) /\ n[d] \in Nat /\ Misread(d) \in BOOLEAN
      /\ Side(d, p[d], net[d], sent[d], n[d], Misread(d))
  BY SideFacts
<1>4. Side(d, p[d], net[d] \o Message(d, framing, b), Append(sent[d], b), n[d], Misread(d))
  BY <1>2, <1>3, AppendSide
<1>5. /\ net'[d] = net[d] \o Message(d, framing, b) /\ sent'[d] = Append(sent[d], b)
      /\ \A c \in Dir : c # d => net'[c] = net[c] /\ sent'[c] = sent[c]
      /\ DOMAIN net' = Dir /\ DOMAIN sent' = Dir
  BY <1>1 DEF Inv, TypesOK
<1>6. Misread(d)' = Misread(d) BY DEF Misread
<1>7. TypesOK'
  <2>1. Message(d, framing, b) \in Seq(Symbol) BY <1>2, MessageFacts
  <2>2. net'[d] \in Seq(Symbol) BY <1>3, <1>5, <2>1, ConcatProperties
  <2>3. sent'[d] \in Seq(Payloads) BY <1>1, <1>3, <1>5, AppendProperties
  <2>4. net' = [c \in Dir |-> net'[c]] /\ sent' = [c \in Dir |-> sent'[c]] BY <1>1 DEF Inv, TypesOK
  <2>5. net' \in [Dir -> Seq(Symbol)] BY <1>5, <2>2, <2>4 DEF Inv, TypesOK
  <2>6. sent' \in [Dir -> Seq(Payloads)] BY <1>5, <2>3, <2>4 DEF Inv, TypesOK
  <2> QED BY <2>5, <2>6 DEF Inv, TypesOK
<1>8. Len(sent'[d]) = Len(sent[d]) + 1 BY <1>1, <1>3, <1>5, AppendProperties
<1> QED BY <1>4, <1>5, <1>6, <1>7, <1>8

LEMMA Counts ==
  ASSUME Inv
  PROVE  /\ n["req"] \in Nat /\ n["res"] \in Nat /\ Asked \in 0..1 /\ Served \in 0..1
         /\ n["req"] <= Len(sent["req"]) /\ n["res"] <= Len(sent["res"])
         /\ Len(sent["req"]) = n["res"] + Asked /\ Len(sent["res"]) = n["req"] + Served
<1>1. n["req"] <= Len(sent["req"]) /\ n["res"] <= Len(sent["res"]) BY TwoWays DEF Inv, Side
<1>2. n["req"] \in Nat /\ n["res"] \in Nat BY TwoWays, SideFacts
<1> QED BY <1>1, <1>2 DEF Inv, ControlOK, Asked, Served

LEMMA ReplyKeeps ==
  ASSUME Inv, Reply
  PROVE  Inv'
<1>1. /\ spc \in {"head", "endpoint"} /\ p["req"].at \in {"ready", "done"} /\ spc' = "clear"
      /\ Write("res", ResFramings) /\ UNCHANGED <<p, n, torn, stale, cpc>>
  BY DEF Reply, ServerKeeps
<1>2. n["req"] < Len(sent["req"])
  <2>1. p["req"].at # "recv" BY <1>1
  <2> QED BY <2>1, TwoWays, ToldApart
<1>3. Len(sent["res"]) = n["res"]
  <2>1. Served = 0 BY <1>1 DEF Served
  <2> HIDE DEF Asked, Served
  <2> QED BY <1>2, <2>1, Counts
<1>4. ResFramings \subseteq {"none", "length", "chunked"} BY MessagesAssumption
<1>5. /\ Side("res", p'["res"], net'["res"], sent'["res"], n'["res"], Misread("res")')
      /\ \A c \in Dir : c # "res" => net'[c] = net[c] /\ sent'[c] = sent[c]
      /\ TypesOK' /\ Len(sent'["res"]) = Len(sent["res"]) + 1
  BY <1>1, <1>3, <1>4, TwoWays, WriteKeeps
<1>6. ControlOK'
  <2>1. sent'["req"] = sent["req"] BY <1>5, TwoWays
  <2>2. Len(sent'["res"]) = n'["req"] + 1 BY <1>1, <1>5, Counts DEF Served
  <2> QED BY <1>1, <2>1, <2>2 DEF Inv, ControlOK, Served, Asked
<1> QED BY <1>1, <1>5, <1>6, TwoWays, OneSide

LEMMA RequestKeeps ==
  ASSUME Inv, Request
  PROVE  Inv'
<1>1. /\ cpc = "idle" /\ cpc' = "response" /\ Write("req", ReqFramings)
      /\ UNCHANGED <<p, spc, n, torn, stale>>
  BY DEF Request
<1>2. Len(sent["req"]) = n["req"]
        \/ (Len(sent["req"]) = n["req"] + 1 /\ (p["req"].at \in {"ready", "done"} \/ p["req"].marked))
  <2>1. Asked = 0 BY <1>1 DEF Asked
  <2>2. Len(sent["req"]) <= n["req"] + Served BY <2>1, Counts
  <2>3. CASE Served = 0 BY <2>2, <2>3, Counts
  <2>4. CASE Served # 0
    <3>1. spc \in {"clear", "clearing"} BY <2>4 DEF Served
    <3>2. p["req"].at \in {"ready", "done"} \/ p["req"].marked BY <3>1 DEF Inv, ControlOK
    <3>3. Served = 1 BY <3>1 DEF Served
    <3>4. Len(sent["req"]) = n["req"] \/ Len(sent["req"]) = n["req"] + 1 BY <2>1, <2>2, <3>3, Counts
    <3> QED BY <3>2, <3>4
  <2> QED BY <2>3, <2>4
<1>3. ReqFramings \subseteq {"none", "length", "chunked"} BY MessagesAssumption
<1>4. /\ Side("req", p'["req"], net'["req"], sent'["req"], n'["req"], Misread("req")')
      /\ \A c \in Dir : c # "req" => net'[c] = net[c] /\ sent'[c] = sent[c]
      /\ TypesOK' /\ Len(sent'["req"]) = Len(sent["req"]) + 1
  BY <1>1, <1>2, <1>3, TwoWays, WriteKeeps
<1>5. ControlOK'
  <2>1. sent'["res"] = sent["res"] BY <1>4, TwoWays
  <2>2. Len(sent'["req"]) = n'["res"] + 1 BY <1>1, <1>4, Counts DEF Asked
  <2> QED BY <1>1, <2>1, <2>2 DEF Inv, ControlOK, Served, Asked
<1> QED BY <1>1, <1>4, <1>5, TwoWays, OneSide

(* The parser of a message that is parsed is given up for a new one.       *)
LEMMA GivenUpKeeps ==
  ASSUME Inv, NEW d \in Dir, p[d].at = "done", Becomes(d, Fresh), GivenUp(d),
         UNCHANGED <<net, sent, stale>>
  PROVE  /\ Side(d, p'[d], net'[d], sent'[d], n'[d], Misread(d)')
         /\ \A c \in Dir : c # d => p'[c] = p[c] /\ n'[c] = n[c] /\ torn'[c] = torn[c]
         /\ TypesOK'
         /\ n'[d] = n[d] + 1
<1> DEFINE cut == p[d].framing = "chunked" /\ (net[d] # <<>> \/ Contains(p[d].buf, "L"))
<1>1. /\ p'[d] = Fresh /\ DOMAIN p' = Dir /\ n'[d] = n[d] + 1 /\ torn'[d] = (torn[d] \/ cut)
      /\ \A c \in Dir : c # d => p'[c] = p[c] /\ n'[c] = n[c] /\ torn'[c] = torn[c]
  BY DEF Inv, TypesOK, Becomes, GivenUp
<1>2. /\ net[d] \in Seq(Symbol) /\ sent[d] \in Seq(Payloads) /\ n[d] \in Nat /\ Misread(d) \in BOOLEAN
      /\ Side(d, p[d], net[d], sent[d], n[d], Misread(d))
      /\ stale[d] \in BOOLEAN /\ torn[d] \in BOOLEAN
  BY SideFacts
<1>3. Misread(d)' = (Misread(d) \/ cut) BY <1>1 DEF Misread
<1> DEFINE m == Misread(d) \/ cut
<1>4. m \in BOOLEAN /\ (Misread(d) => m) /\ (cut => m) BY <1>2
<1>5. Side(d, Fresh, net[d], sent[d], n[d] + 1, m)
  <2> HIDE DEF m
  <2> QED BY <1>2, <1>4, ClearSide
<1>6. TypesOK' BY <1>1, <1>2 DEF Inv, TypesOK, GivenUp
<1> QED BY <1>1, <1>3, <1>5, <1>6

LEMMA ClearKeeps ==
  ASSUME Inv, Clear
  PROVE  Inv'
<1>1. /\ spc \in {"clear", "clearing"} /\ spc' = "head" /\ Becomes("req", Fresh) /\ GivenUp("req")
      /\ UNCHANGED <<net, sent, stale, cpc>>
  BY DEF Clear, ServerKeeps, Cleared
<1>2. p["req"].at = "done"
  <2>1. spc = "clear" /\ p["req"].marked => p["req"].at # "ready" BY TwoWays DEF Inv, Side
  <2>2. spc = "clear" => p["req"].at \in {"ready", "done"} BY DEF Inv, ControlOK
  <2> QED BY <2>1, <2>2 DEF Clear, NeedsBody
<1>3. /\ Side("req", p'["req"], net'["req"], sent'["req"], n'["req"], Misread("req")')
      /\ \A c \in Dir : c # "req" => p'[c] = p[c] /\ n'[c] = n[c] /\ torn'[c] = torn[c]
      /\ TypesOK' /\ n'["req"] = n["req"] + 1
  BY <1>1, <1>2, TwoWays, GivenUpKeeps
<1>4. ControlOK'
  <2>1. n'["res"] = n["res"] BY <1>3, TwoWays
  <2>2. Len(sent'["res"]) = n'["req"] /\ n'["req"] \in Nat BY <1>1, <1>3, Counts DEF Served
  <2> QED BY <1>1, <2>1, <2>2 DEF Inv, ControlOK, Served, Asked
<1> QED BY <1>1, <1>3, <1>4, TwoWays, OneSide

LEMMA AnsweredKeeps ==
  ASSUME Inv, Answered
  PROVE  Inv'
<1>1. /\ cpc = "response" /\ p["res"].at = "done" /\ cpc' = "idle" /\ Becomes("res", Fresh)
      /\ GivenUp("res") /\ UNCHANGED <<net, spc, sent, stale>>
  BY DEF Answered
<1>2. /\ Side("res", p'["res"], net'["res"], sent'["res"], n'["res"], Misread("res")')
      /\ \A c \in Dir : c # "res" => p'[c] = p[c] /\ n'[c] = n[c] /\ torn'[c] = torn[c]
      /\ TypesOK' /\ n'["res"] = n["res"] + 1
  BY <1>1, TwoWays, GivenUpKeeps
<1>3. ControlOK'
  <2>1. n'["req"] = n["req"] /\ p'["req"] = p["req"] BY <1>2, TwoWays
  <2>2. Len(sent'["req"]) = n'["res"] /\ n'["res"] \in Nat BY <1>1, <1>2, Counts DEF Asked
  <2> QED BY <1>1, <2>1, <2>2 DEF Inv, ControlOK, Served, Asked
<1> QED BY <1>1, <1>2, <1>3, TwoWays, OneSide

-----------------------------------------------------------------------------
(* The theorems. *)

LEMMA InitInv ==
  ASSUME Init
  PROVE  Inv
<1>1. net \in [Dir -> Seq(Symbol)] /\ sent \in [Dir -> Seq(Payloads)]
  <2>1. <<>> \in Seq(Symbol) /\ <<>> \in Seq(Payloads) OBVIOUS
  <2> QED BY <2>1 DEF Init
<1>2. TypesOK BY <1>1 DEF Init, TypesOK
<1>3. /\ \A d \in Dir : p[d] = Fresh /\ net[d] = <<>> /\ Len(sent[d]) = 0 /\ n[d] = 0
      /\ spc = "head" /\ cpc = "idle"
  <2>1. Len(<<>>) = 0 OBVIOUS
  <2> QED BY <2>1 DEF Init
<1>4. ControlOK
  <2>1. Served = 0 /\ Asked = 0 BY <1>3 DEF Served, Asked
  <2>2. /\ Len(sent["req"]) = 0 /\ n["req"] = 0 /\ Len(sent["res"]) = 0 /\ n["res"] = 0
    BY <1>3, TwoWays
  <2>3. spc = "head" /\ cpc = "idle" BY <1>3
  <2> QED BY <2>1, <2>2, <2>3 DEF ControlOK
<1>5. ASSUME NEW d \in Dir PROVE Side(d, p[d], net[d], sent[d], n[d], Misread(d))
  <2>1. p[d] = Fresh /\ net[d] = <<>> /\ Len(sent[d]) = n[d] /\ n[d] = 0 BY <1>3
  <2>2. Stream(d, Fresh, net[d], sent[d], n[d]) BY <2>1 DEF Stream
  <2>3. n[d] <= Len(sent[d]) BY <2>1
  <2> QED BY <2>1, <2>2, <2>3, FreshSide
<1> QED BY <1>2, <1>4, <1>5 DEF Inv

LEMMA StutterInv ==
  ASSUME Inv, UNCHANGED vars
  PROVE  Inv'
<1>1. ASSUME NEW d \in Dir
      PROVE  Side(d, p'[d], net'[d], sent'[d], n'[d], Misread(d)')
  <2>1. Side(d, p[d], net[d], sent[d], n[d], Misread(d)) BY DEF Inv
  <2> QED BY <2>1 DEF vars, Misread
<1>2. TypesOK' BY DEF Inv, TypesOK, vars
<1>3. ControlOK' BY DEF Inv, ControlOK, Served, Asked, vars
<1> QED BY <1>1, <1>2, <1>3 DEF Inv

LEMMA NextInv ==
  ASSUME Inv, ~FollowMisread \/ (\A d \in Dir : ~Misread(d)), Next
  PROVE  Inv'
<1>1. CASE \E d \in Dir : Recv(d) \/ ParseLine(d) \/ ParseHeader(d) \/ ParseBody(d)
  BY <1>1, RecvKeeps, ParseLineKeeps, ParseHeaderKeeps, ParseBodyKeeps
<1>2. CASE EndpointParses BY <1>2, EndpointParsesKeeps
<1>3. CASE Reply BY <1>3, ReplyKeeps
<1>4. CASE ClearParses BY <1>4, ClearParsesKeeps
<1>5. CASE Clear BY <1>5, ClearKeeps
<1>6. CASE Request BY <1>6, RequestKeeps
<1>7. CASE ParserRes BY <1>7, ParserResKeeps
<1>8. CASE Answered BY <1>8, AnsweredKeeps
<1> QED BY <1>1, <1>2, <1>3, <1>4, <1>5, <1>6, <1>7, <1>8 DEF Next

LEMMA InvExact == Inv => BodyExact
<1> SUFFICES ASSUME Inv, NEW d \in Dir, p[d].at = "done", ~Misread(d)
             PROVE  p[d].body = sent[d][n[d] + 1]
  BY DEF BodyExact
<1>1. /\ net[d] \in Seq(Symbol) /\ sent[d] \in Seq(Payloads) /\ n[d] \in Nat
      /\ Side(d, p[d], net[d], sent[d], n[d], Misread(d))
  BY SideFacts
<1>2. ParserOK(p[d]) /\ Stream(d, p[d], net[d], sent[d], n[d]) BY <1>1 DEF Side
<1> QED BY <1>1, <1>2, DoneBody

LEMMA InvParsed == Inv => AlwaysParsed
<1> SUFFICES ASSUME Inv, NEW d \in Dir, ~Misread(d)
             PROVE  /\ ~(p[d].at = "recv" /\ net[d] = <<>> /\ Len(sent[d]) > n[d])
                    /\ p[d].at # "undefined"
                    /\ p[d].at = "threw" => p[d].whole /\ Len(net[d]) > 0 /\ net[d][1] = LF
  BY DEF AlwaysParsed
<1>1. /\ net[d] \in Seq(Symbol) /\ sent[d] \in Seq(Payloads) /\ n[d] \in Nat
      /\ Side(d, p[d], net[d], sent[d], n[d], Misread(d))
  BY SideFacts
<1>2. ParserOK(p[d]) /\ Stream(d, p[d], net[d], sent[d], n[d]) BY <1>1 DEF Side
<1>3. ASSUME p[d].at = "recv", net[d] = <<>> PROVE Len(sent[d]) = n[d]
  BY <1>1, <1>2, <1>3, WaitsForSome
<1>4. p[d].at # "undefined"
      /\ (p[d].at = "threw" => p[d].whole /\ Len(net[d]) > 0 /\ net[d][1] = LF)
  BY <1>1, <1>2, Refuses
<1> QED BY <1>1, <1>3, <1>4

(* Of every connection whose readers stop where they have misread it: what *)
(* a parser holds and what is on its way to it make up the rest of the     *)
(* message it is in and the one behind it, whatever the bodies, the sizes  *)
(* of chunks and the cuts between reads, and requests and responses take   *)
(* turns.                                                                  *)
THEOREM StreamInvariant ==
  ASSUME ~FollowMisread
  PROVE  Spec => []Inv
<1>1. Init => Inv BY InitInv
<1>2. Inv /\ [Next]_vars => Inv'
  <2>1. CASE Next BY <2>1, NextInv
  <2>2. CASE UNCHANGED vars BY <2>2, StutterInv
  <2> QED BY <2>1, <2>2
<1> QED BY <1>1, <1>2, PTL DEF Spec

(* A message whose parser is done has the body that was sent, unless the   *)
(* stream was cut at one of the two places where it is misread.            *)
THEOREM BodiesAreExact ==
  ASSUME ~FollowMisread
  PROVE  Spec => []BodyExact
<1>1. Inv => BodyExact BY InvExact
<1> QED BY <1>1, StreamInvariant, PTL

(* No parser waits for bytes when all of its message has arrived, and none *)
(* is refused, but for these places and that between the CR and the LF     *)
(* behind a chunk.                                                         *)
THEOREM MessagesAreParsed ==
  ASSUME ~FollowMisread
  PROVE  Spec => []AlwaysParsed
<1>1. Inv => AlwaysParsed BY InvParsed
<1> QED BY <1>1, StreamInvariant, PTL

(* A misread stays one.                                                    *)
Flagged == DOMAIN stale = Dir /\ DOMAIN torn = Dir
Misled == \E d \in Dir : Misread(d)

LEMMA MisreadStays ==
  ASSUME Flagged, [Next]_vars
  PROVE  Flagged' /\ (Misled => Misled')
<1>1. CASE UNCHANGED <<stale, torn>> BY <1>1 DEF Flagged, Misled, Misread
<1>2. CASE \E d \in Dir : \E x : stale' = [stale EXCEPT ![d] = @ \/ x] /\ UNCHANGED torn
  <2>1. PICK d \in Dir : \E x : stale' = [stale EXCEPT ![d] = @ \/ x] BY <1>2
  <2>2. DOMAIN stale' = Dir /\ torn' = torn BY <1>2, <2>1 DEF Flagged
  <2>3. \A c \in Dir : stale[c] => stale'[c] BY <2>1 DEF Flagged
  <2>4. \A c \in Dir : Misread(c) => Misread(c)' BY <2>2, <2>3 DEF Misread
  <2> QED BY <2>2, <2>4 DEF Flagged, Misled
<1>3. CASE \E d \in Dir : \E x : torn' = [torn EXCEPT ![d] = @ \/ x] /\ UNCHANGED stale
  <2>1. PICK d \in Dir : \E x : torn' = [torn EXCEPT ![d] = @ \/ x] BY <1>3
  <2>2. DOMAIN torn' = Dir /\ stale' = stale BY <1>3, <2>1 DEF Flagged
  <2>3. \A c \in Dir : torn[c] => torn'[c] BY <2>1 DEF Flagged
  <2>4. \A c \in Dir : Misread(c) => Misread(c)' BY <2>2, <2>3 DEF Misread
  <2> QED BY <2>2, <2>4 DEF Flagged, Misled
<1>4. ASSUME NEW d \in Dir, Recv(d) \/ ParseLine(d) \/ ParseHeader(d)
      PROVE  UNCHANGED <<stale, torn>>
  BY <1>4 DEF Recv, ParseLine, ParseHeader, ParserKeeps
<1>5. ASSUME NEW d \in Dir, ParseBody(d)
      PROVE  \/ UNCHANGED <<stale, torn>>
             \/ \E x : stale' = [stale EXCEPT ![d] = @ \/ x] /\ UNCHANGED torn
  BY <1>5 DEF ParseBody, ParseLength, ParseNone, ParsePending, ParseFirst, ParseChunk, ParserKeeps
<1>6. EndpointParses \/ Reply \/ ClearParses \/ Request \/ ParserRes => UNCHANGED <<stale, torn>>
  BY DEF EndpointParses, Reply, ClearParses, Request, ParserRes, ServerKeeps
<1>7. Clear \/ Answered => \E d \in Dir : GivenUp(d) /\ UNCHANGED stale
  BY TwoWays DEF Clear, Answered, ServerKeeps
<1>8. (\E d \in Dir : GivenUp(d) /\ UNCHANGED stale) =>
        \E d \in Dir : \E x : torn' = [torn EXCEPT ![d] = @ \/ x] /\ UNCHANGED stale
  BY DEF GivenUp
<1>9. UNCHANGED vars => UNCHANGED <<stale, torn>> BY DEF vars
<1> QED BY <1>1, <1>2, <1>3, <1>4, <1>5, <1>6, <1>7, <1>8, <1>9 DEF Next

(* The same of every connection as long as nothing has been misread on it, *)
(* whatever its readers do afterwards: the body is exact, no parser waits  *)
(* in vain, and none is refused but between the CR and the LF behind a     *)
(* chunk.                                                                  *)
THEOREM ExactUntilMisread ==
  Spec => []((BodyExact /\ AlwaysParsed) \/ \E d \in Dir : Misread(d))
<1> DEFINE I == Flagged /\ (Inv \/ Misled)
<1>1. Init => I
  <2>1. Init => Inv BY InitInv
  <2>2. Init => Flagged BY DEF Init, Flagged
  <2> QED BY <2>1, <2>2
<1>2. I /\ [Next]_vars => I'
  <2> SUFFICES ASSUME I, [Next]_vars PROVE I' OBVIOUS
  <2>1. Flagged' /\ (Misled => Misled') BY MisreadStays
  <2>2. ASSUME Inv, ~Misled PROVE Inv'
    <3>1. CASE Next BY <2>2, <3>1, NextInv DEF Misled
    <3>2. CASE UNCHANGED vars BY <2>2, <3>2, StutterInv
    <3> QED BY <3>1, <3>2
  <2> QED BY <2>1, <2>2
<1>3. I => ((BodyExact /\ AlwaysParsed) \/ \E d \in Dir : Misread(d))
  BY InvExact, InvParsed DEF Misled
<1> HIDE DEF I
<1> QED BY <1>1, <1>2, <1>3, PTL DEF Spec
=============================================================================
