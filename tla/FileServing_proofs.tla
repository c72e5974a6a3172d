------------------------- MODULE FileServing_proofs -------------------------
(***************************************************************************)
(* Proofs about FileServing: about the transfers of RangeTransfer, for     *)
(* files of any size and any ranges, and about the routes of Router, for   *)
(* any templates and any requests.                                         *)
(***************************************************************************)
EXTENDS FileServing, SequenceTheorems, FiniteSetTheorems, WellFoundedInduction, TLAPS

-----------------------------------------------------------------------------
(* Operators of the model. *)

LEMMA MinOfTwo ==
  ASSUME NEW a \in Int, NEW b \in Int
  PROVE  Min({a, b}) = IF a <= b THEN a ELSE b
<1> DEFINE m == IF a <= b THEN a ELSE b
<1>1. m \in {a, b} /\ \A y \in {a, b} : m =< y OBVIOUS
<1>2. \A x \in {a, b} : (\A y \in {a, b} : x =< y) => x = m OBVIOUS
<1> HIDE DEF m
<1>3. Min({a, b}) = m BY <1>1, <1>2 DEF Min
<1> QED BY <1>3 DEF m

LEMMA MaxOfTwo ==
  ASSUME NEW a \in Int, NEW b \in Int
  PROVE  Max({a, b}) = IF a >= b THEN a ELSE b
<1> DEFINE m == IF a >= b THEN a ELSE b
<1>1. m \in {a, b} /\ \A y \in {a, b} : m >= y OBVIOUS
<1>2. \A x \in {a, b} : (\A y \in {a, b} : x >= y) => x = m OBVIOUS
<1> HIDE DEF m
<1>3. Max({a, b}) = m BY <1>1, <1>2 DEF Max
<1> QED BY <1>3 DEF m

(* What one read appends: k bytes from `o` on, which are none of them a    *)
(* CRLF.                                                                   *)
Bytes(o, k) == [i \in 1..k |-> o + i - 1]
Plain(s) == {i \in DOMAIN s : s[i] # Crlf}
Behind == IF several THEN <<Crlf>> ELSE <<>>

LEMMA BytesAppended ==
  ASSUME NEW s \in Seq(Int), NEW o \in Nat, NEW k \in Nat
  PROVE  /\ Bytes(o, k) \in Seq(Int) /\ Len(Bytes(o, k)) = k
         /\ s \o Bytes(o, k) \o Behind \in Seq(Int)
         /\ Len(s \o Bytes(o, k)) = Len(s) + k
         /\ \A i \in 1..Len(s) : (s \o Bytes(o, k) \o Behind)[i] = s[i]
         /\ \A i \in 1..k : (s \o Bytes(o, k) \o Behind)[Len(s) + i] = o + i - 1
         /\ several => (s \o Bytes(o, k) \o Behind)[Len(s) + k + 1] = Crlf
         /\ DOMAIN (s \o Bytes(o, k) \o Behind) = 1..(Len(s) + k + Len(Behind))
         /\ Len(Behind) = IF several THEN 1 ELSE 0
<1> DEFINE b == Bytes(o, k)
           u == s \o b
           v == u \o Behind
<1>1. b \in Seq(Int) /\ Len(b) = k /\ \A i \in 1..k : b[i] = o + i - 1
  BY DEF Bytes
<1>2. Behind \in Seq(Int) /\ (several => Behind[1] = Crlf) /\ Len(Behind) = IF several THEN 1 ELSE 0
  BY DEF Behind, Crlf
<1> HIDE DEF b
<1>3. u \in Seq(Int) /\ Len(u) = Len(s) + k /\ Len(s) \in Nat
  BY <1>1, ConcatProperties, LenProperties
<1>4. \A i \in 1..Len(u) : u[i] = IF i <= Len(s) THEN s[i] ELSE b[i - Len(s)]
  BY <1>1, ConcatProperties, LenProperties
<1> HIDE DEF u
<1>5. v \in Seq(Int) /\ Len(v) = Len(u) + Len(Behind) /\ DOMAIN v = 1..Len(v)
  BY <1>2, <1>3, ConcatProperties, LenProperties
<1>6. \A i \in 1..Len(v) : v[i] = IF i <= Len(u) THEN u[i] ELSE Behind[i - Len(u)]
  BY <1>2, <1>3, ConcatProperties, LenProperties
<1> HIDE DEF v
<1>7. \A i \in 1..Len(s) : v[i] = s[i]
  <2> TAKE i \in 1..Len(s)
  <2>1. Len(Behind) \in Nat /\ Len(s) \in Nat /\ Len(u) = Len(s) + k /\ Len(v) = Len(u) + Len(Behind)
    BY <1>2, <1>3, <1>5
  <2>2. i \in 1..Len(u) /\ i \in 1..Len(v) /\ i <= Len(u) /\ i <= Len(s) BY <2>1
  <2>3. u[i] = s[i] BY <2>2, <1>4
  <2> QED BY <2>2, <2>3, <1>6
<1>8. \A i \in 1..k : v[Len(s) + i] = o + i - 1
  <2> TAKE i \in 1..k
  <2>1. Len(s) + i \in 1..Len(u) /\ Len(s) + i \in 1..Len(v) /\ ~(Len(s) + i <= Len(s)) /\ Len(s) + i - Len(s) = i
    <3>1. Len(v) = Len(u) + Len(Behind) /\ Len(u) = Len(s) + k /\ Len(s) \in Nat /\ Len(Behind) \in Nat
      BY <1>2, <1>3, <1>5
    <3> QED BY <3>1
  <2>2. u[Len(s) + i] = b[i] BY <2>1, <1>4
  <2>3. QED BY <2>1, <2>2, <1>1, <1>6, <1>3
<1>9. ASSUME several PROVE v[Len(s) + k + 1] = Crlf
  <2>1. Len(Behind) = 1 /\ Behind[1] = Crlf BY <1>2, <1>9
  <2>2. Len(u) + 1 \in 1..Len(v) /\ ~(Len(u) + 1 <= Len(u)) /\ Len(u) + 1 - Len(u) = 1
    BY <2>1, <1>3, <1>5
  <2>3. v[Len(u) + 1] = Behind[1] BY <2>2, <1>6
  <2> QED BY <2>1, <2>3, <1>3
<1> QED BY <1>1, <1>2, <1>3, <1>5, <1>7, <1>8, <1>9 DEF b, u, v

LEMMA PlainGrows ==
  ASSUME NEW s \in Seq(Int), NEW o \in Nat, NEW k \in Nat, several \in BOOLEAN
  PROVE  Cardinality(Plain(s \o Bytes(o, k) \o Behind)) = Cardinality(Plain(s)) + k
<1> DEFINE v == s \o Bytes(o, k) \o Behind
           n == Len(s)
           new == (n + 1)..(n + k)
<1>1. n \in Nat /\ DOMAIN s = 1..n BY LenProperties
<1>2. /\ \A i \in 1..n : v[i] = s[i]
      /\ \A i \in 1..k : v[n + i] = o + i - 1
      /\ several => v[n + k + 1] = Crlf
      /\ DOMAIN v = 1..(n + k + Len(Behind)) /\ Len(Behind) = IF several THEN 1 ELSE 0
  <2>1. /\ \A i \in 1..n : v[i] = s[i]
        /\ \A i \in 1..k : v[n + i] = o + i - 1
    BY BytesAppended, Zenon
  <2>2. several => v[n + k + 1] = Crlf BY BytesAppended, Zenon
  <2>3. DOMAIN v = 1..(n + k + Len(Behind))
    <3> DEFINE u == s \o Bytes(o, k)
    <3>1. u \in Seq(Int) BY ConcatProperties, BytesAppended, Zenon
    <3>2. Len(u) = n + k BY BytesAppended, ConcatProperties, Zenon
    <3>3. Behind \in Seq(Int) BY DEF Behind, Crlf
    <3> HIDE DEF u, n
    <3>4. u \o Behind \in Seq(Int) /\ Len(u \o Behind) = n + k + Len(Behind)
      BY <3>1, <3>2, <3>3, ConcatProperties
    <3>5. DOMAIN (u \o Behind) = 1..(n + k + Len(Behind)) BY <3>4, LenProperties, Zenon
    <3> QED BY <3>5 DEF u
  <2>4. Len(Behind) = IF several THEN 1 ELSE 0 BY DEF Behind
  <2> QED BY <2>1, <2>2, <2>3, <2>4, Zenon
<1> HIDE DEF v, n
<1>3. \A j \in new : v[j] # Crlf
  <2> TAKE j \in new
  <2>1. j - n \in 1..k /\ n + (j - n) = j BY <1>1
  <2>2. v[j] = o + (j - n) - 1 BY <2>1, <1>2
  <2> QED BY <2>1, <2>2 DEF Crlf
<1>4. Plain(v) = Plain(s) \cup new
  <2>1. ASSUME NEW j \in Plain(v) PROVE j \in Plain(s) \cup new
    <3>1. j \in 1..(n + k + Len(Behind)) /\ v[j] # Crlf BY <2>1, <1>2 DEF Plain
    <3>2. j \in 1..n \/ j \in new BY <3>1, <1>1, <1>2
    <3> QED BY <3>1, <3>2, <1>1, <1>2 DEF Plain
  <2>2. ASSUME NEW j \in Plain(s) \cup new PROVE j \in Plain(v)
    <3>1. j \in 1..(n + k + Len(Behind)) BY <1>1, <1>2 DEF Plain
    <3>2. v[j] # Crlf BY <1>1, <1>2, <1>3 DEF Plain
    <3> QED BY <3>1, <3>2, <1>2 DEF Plain
  <2> QED BY <2>1, <2>2
<1>5. IsFiniteSet(Plain(s)) /\ IsFiniteSet(new) /\ Cardinality(new) = k
  <2>1. IsFiniteSet(1..n) BY <1>1, FS_Interval
  <2>2. Plain(s) \subseteq 1..n BY <1>1 DEF Plain
  <2>3. n + 1 \in Int /\ n + k \in Int BY <1>1
  <2>4. IsFiniteSet(new) /\ Cardinality(new) = IF n + 1 > n + k THEN 0 ELSE (n + k) - (n + 1) + 1
    BY <2>3, FS_Interval
  <2> QED BY <2>1, <2>2, <2>4, <1>1, FS_Subset
<1>6. Plain(s) \cap new = {} BY <1>1 DEF Plain
<1>7. Cardinality(Plain(v)) = Cardinality(Plain(s)) + Cardinality(new) - Cardinality(Plain(s) \cap new)
  BY <1>4, <1>5, FS_Union
<1>8. Cardinality(Plain(s) \cap new) = 0 BY <1>6, FS_EmptySet
<1>9. Cardinality(Plain(s)) \in Nat BY <1>5, FS_CardinalityType
<1> QED BY <1>5, <1>7, <1>8, <1>9 DEF v

-----------------------------------------------------------------------------
(* Transfers. *)

Bound == Nat \cup {Empty}

TransferType ==
  /\ tpc \in {"no", "read", "next", "done", "broken"}
  /\ size \in Nat /\ fileSize \in Nat /\ fileSize + 1 < Wide
  /\ tpc = "no" => size \in FileSizes
  /\ status \in {0, 200, 206, 416} /\ length \in Nat
  /\ part = NoPart \/ part \in Nat \X Int
  /\ todo \in Seq(Bound \X Bound)
  /\ several \in BOOLEAN
  /\ remaining \in Nat /\ offset \in Nat
  /\ sent \in Seq(Int) /\ reads \in Nat
  /\ changes = <<>> /\ tpc # "no" => size = fileSize

Done == offset - part[1]

(* What a part is: the whole file, or a range that begins before its end   *)
(* and ends at most one byte past the last.                                *)
Opened ==
  /\ part[1] <= part[2] + 1 /\ length = part[2] - part[1] + 1
  /\ status = 200 => ~several /\ part = <<0, fileSize - 1>>
  /\ status \in {200, 206} /\ part[2] <= fileSize

(* What was sent of it: as many bytes as the offset is past its begin, and *)
(* what remains is the rest of the length that was announced.              *)
Accounted ==
  /\ part[1] <= offset
  /\ Cardinality(Plain(sent)) = Done
  /\ status = 206 \/ changes = <<>> => Done <= length /\ remaining = length - Done

(* They are the bytes of the file, one after the other; with several reads *)
(* of one of several parts a CRLF stands between them.                     *)
Faithful ==
  /\ ~several => sent = Bytes(part[1], Done)
  /\ several /\ reads = 1 => sent = Append(Bytes(part[1], Done), Crlf)
  /\ reads = 0 => sent = <<>> /\ offset = part[1]

(* A part ends with something left only of a file that was cut, or at the  *)
(* byte behind the last.                                                   *)
Complete ==
  tpc \in {"next", "done"} /\ changes = <<>> /\ part[2] < fileSize => remaining = 0

TransferInv ==
  /\ TransferType
  /\ tpc = "next" => several
  /\ several => status = 206
  /\ tpc = "read" => part # NoPart
  /\ part = NoPart => sent = <<>>
  /\ part # NoPart => Opened /\ Accounted /\ Faithful /\ Complete

LEMMA NothingSent ==
  /\ Plain(<<>>) = {} /\ Cardinality(Plain(<<>>)) = 0
  /\ \A b \in Int : Bytes(b, 0) = <<>>
<1>1. Plain(<<>>) = {} BY DEF Plain
<1>2. \A b \in Int : Bytes(b, 0) = <<>> BY DEF Bytes
<1> QED BY <1>1, <1>2, FS_EmptySet

(* What holds of a part before its first read.                             *)
LEMMA Fresh ==
  ASSUME sent' = <<>>, reads' = 0, part'[1] \in Nat, part'[2] \in Int, offset' = part'[1],
         part'[1] <= part'[2] + 1, remaining' = part'[2] - part'[1] + 1, length' = remaining',
         tpc' = "read"
  PROVE  Accounted' /\ Faithful' /\ Complete'
<1>1. Done' = 0 BY DEF Done
<1>2. Accounted' BY <1>1, NothingSent DEF Accounted
<1>3. Bytes(part'[1], Done') = <<>> BY <1>1, NothingSent
<1>4. Faithful' BY <1>3 DEF Faithful
<1>5. Complete' BY DEF Complete
<1> QED BY <1>2, <1>4, <1>5

(* The bounds of a range that is not refused.                              *)
LEMMA BoundsOK ==
  ASSUME TransferAssumption, NEW n \in Nat, n + 1 < Wide, NEW r \in Bound \X Bound,
         ~Invalid(Begin(r), EndOf(r, n), n)
  PROVE  /\ Begin(r) \in Nat /\ EndOf(r, n) \in Nat
         /\ Begin(r) <= EndOf(r, n) /\ EndOf(r, n) <= n
         /\ PartLength(Begin(r), EndOf(r, n)) \in Nat
<1>1. r[1] \in Bound /\ r[2] \in Bound BY DEF Bound
<1>2. Begin(r) \in Nat BY <1>1 DEF Begin, Bound
<1>3. (n - 1) % Wide \in Nat BY DEF TransferAssumption
<1>4. EndOf(r, n) \in Nat BY <1>1, <1>3 DEF EndOf, Bound
<1>5. Begin(r) <= EndOf(r, n) /\ EndOf(r, n) <= n BY <1>2, <1>4 DEF Invalid
<1> QED BY <1>2, <1>4, <1>5 DEF PartLength

LEMMA OpenedPart ==
  ASSUME TransferAssumption, fileSize' \in Nat, fileSize' + 1 < Wide, NEW r \in Bound \X Bound,
         ~Invalid(Begin(r), EndOf(r, fileSize'), fileSize'), OpenPart(r, fileSize'),
         sent' = <<>>, reads' = 0, tpc' = "read", status' = 206
  PROVE  /\ part' \in Nat \X Int /\ part' # NoPart
         /\ length' \in Nat /\ remaining' \in Nat /\ offset' \in Nat
         /\ Opened' /\ Accounted' /\ Faithful' /\ Complete'
<1> DEFINE b == Begin(r)
           e == EndOf(r, fileSize')
<1>1. b \in Nat /\ e \in Nat /\ b <= e /\ e <= fileSize' /\ PartLength(b, e) \in Nat BY BoundsOK
<1>2. part' = <<b, e>> /\ remaining' = PartLength(b, e) /\ length' = remaining' /\ offset' = b
  BY DEF OpenPart
<1> HIDE DEF b, e
<1>3. part' \in Nat \X Int /\ part' # NoPart /\ part'[1] = b /\ part'[2] = e BY <1>1, <1>2 DEF NoPart
<1>4. remaining' = e - b + 1 BY <1>2 DEF PartLength
<1>5. Accounted' /\ Faithful' /\ Complete' BY <1>1, <1>2, <1>3, <1>4, Fresh
<1>6. Opened' BY <1>1, <1>2, <1>3, <1>4 DEF Opened
<1> QED BY <1>1, <1>2, <1>3, <1>4, <1>5, <1>6

(* While no part is open.                                                  *)
LEMMA NoneOpen ==
  ASSUME TransferType', tpc' # "read", part' = NoPart, sent' = <<>>,
         tpc' = "next" => several', several' => status' = 206
  PROVE  TransferInv'
BY DEF TransferInv

LEMMA BeginKeeps ==
  ASSUME TransferAssumption, TransferInv, NEW type, NEW ranges \in Ranges \cup {<<>>}, BeginTransfer(type, ranges)
  PROVE  TransferInv'
<1>0. size \in Nat /\ size \in FileSizes /\ tpc = "no" BY DEF TransferInv, TransferType, BeginTransfer
<1>1. /\ fileSize' = size /\ size' = size /\ sent' = <<>> /\ reads' = 0 /\ changes' = <<>>
  BY DEF BeginTransfer
<1>2. size + 1 < Wide BY <1>0 DEF TransferAssumption
<1>3. ranges \in Seq(Bound \X Bound)
  BY EmptySeq DEF TransferAssumption, Bound
<1>4. <<>> \in Seq(Bound \X Bound) /\ <<>> \in Seq(Int) BY EmptySeq
<1>5. ASSUME part' = NoPart, tpc' \in {"done", "next"}, status' \in {200, 206, 416}, length' \in Nat,
             todo' \in Seq(Bound \X Bound), several' \in BOOLEAN, remaining' = 0, offset' = 0,
             tpc' = "next" => several', several' => status' = 206
      PROVE  TransferInv'
  <2>1. TransferType' BY <1>0, <1>1, <1>2, <1>4, <1>5 DEF TransferType
  <2> QED BY <1>1, <1>5, <2>1, NoneOpen
<1>6. ASSUME status' \in {200, 206}, tpc' = "read", several' = FALSE, todo' = <<>>,
             part' \in Nat \X Int, part' # NoPart, length' \in Nat, remaining' \in Nat, offset' \in Nat,
             Opened', Accounted', Faithful', Complete'
      PROVE  TransferInv'
  <2>1. TransferType' BY <1>0, <1>1, <1>2, <1>4, <1>6 DEF TransferType
  <2> QED BY <1>6, <2>1 DEF TransferInv
<1>7. CASE /\ status' = 200 /\ tpc' = "done" /\ several' = FALSE /\ todo' = <<>>
           /\ part' = NoPart /\ remaining' = 0 /\ offset' = 0 /\ length' = size
  BY <1>0, <1>4, <1>5, <1>7
<1>8. CASE /\ status' = 200 /\ tpc' = "read" /\ several' = FALSE /\ todo' = <<>>
           /\ part' = <<0, size - 1>> /\ remaining' = size /\ offset' = 0 /\ length' = size
  <2>1. part' \in Nat \X Int /\ part' # NoPart /\ part'[1] = 0 /\ part'[2] = size - 1
    BY <1>0, <1>8 DEF NoPart
  <2>2. Accounted' /\ Faithful' /\ Complete' BY <1>0, <1>1, <1>8, <2>1, Fresh
  <2>3. Opened' BY <1>0, <1>1, <1>8, <2>1 DEF Opened
  <2> QED BY <1>0, <1>6, <1>8, <2>1, <2>2, <2>3
<1>9. ASSUME Len(ranges) = 1, several' = FALSE, todo' = <<>>,
             Invalid(Begin(ranges[1]), EndOf(ranges[1], size), size),
             status' = 416, tpc' = "done", Nothing
      PROVE  TransferInv'
  BY <1>4, <1>5, <1>9 DEF Nothing
<1>10. ASSUME Len(ranges) = 1, several' = FALSE, todo' = <<>>, status' = 206, tpc' = "read",
              ~Invalid(Begin(ranges[1]), EndOf(ranges[1], size), size), OpenPart(ranges[1], size)
       PROVE  TransferInv'
  <2>1. ranges[1] \in Bound \X Bound BY <1>3, <1>10, LenProperties, ElementOfSeq
  <2>2. /\ part' \in Nat \X Int /\ part' # NoPart
        /\ length' \in Nat /\ remaining' \in Nat /\ offset' \in Nat
        /\ Opened' /\ Accounted' /\ Faithful' /\ Complete'
    BY <1>0, <1>1, <1>2, <1>10, <2>1, OpenedPart
  <2> QED BY <1>6, <1>10, <2>2
<1>11. ASSUME Len(ranges) > 1, status' = 206, tpc' = "next", several' = TRUE, todo' = ranges, Nothing
       PROVE  TransferInv'
  BY <1>3, <1>5, <1>11 DEF Nothing
<1> QED BY <1>7, <1>8, <1>9, <1>10, <1>11 DEF BeginTransfer

LEMMA NextPartKeeps ==
  ASSUME TransferAssumption, TransferInv, NextPart PROVE TransferInv'
<1> USE DEF TransferInv, TransferType
<1> DEFINE r == Head(todo)
<1>1. r \in Bound \X Bound /\ Tail(todo) \in Seq(Bound \X Bound) BY DEF NextPart
<1>2. /\ fileSize' = fileSize /\ status' = status /\ several' = several /\ size' = size
      /\ changes' = changes /\ todo' = Tail(todo) /\ sent' = <<>> /\ reads' = 0 /\ tpc = "next"
  BY DEF NextPart, asked
<1>3. CASE Invalid(Begin(r), EndOf(r, fileSize), fileSize) /\ tpc' = tpc /\ Nothing
  BY <1>1, <1>2, <1>3 DEF Nothing, NoPart
<1>4. CASE /\ ~Invalid(Begin(r), EndOf(r, fileSize), fileSize)
           /\ tpc' = "read" /\ OpenPart(r, fileSize)
  <2> HIDE DEF r
  <2>1. status' = 206 BY <1>2
  <2>2. /\ part' \in Nat \X Int /\ part' # NoPart
        /\ length' \in Nat /\ remaining' \in Nat /\ offset' \in Nat
        /\ Opened' /\ Accounted' /\ Faithful' /\ Complete'
    BY <1>1, <1>2, <1>4, <2>1, OpenedPart
  <2> QED BY <1>1, <1>2, <1>4, <2>2
<1> QED BY <1>3, <1>4 DEF NextPart

LEMMA WantsSome ==
  ASSUME TransferAssumption, TransferInv, tpc = "read"
  PROVE  /\ BufSize \in Nat /\ Wants \in Nat /\ Available \in Nat
         /\ Available = (IF size >= offset THEN size - offset ELSE 0)
         /\ Min({Wants, Available}) = IF Wants <= Available THEN Wants ELSE Available
         /\ status = 206 => Wants <= remaining
         /\ remaining > 0 /\ fileSize > 0 => Wants > 0
<1> USE DEF TransferInv, TransferType
<1>1. fileSize \in Nat /\ BufMaxSize \in Nat \ {0} /\ size \in Nat /\ offset \in Nat /\ remaining \in Nat
  BY DEF TransferAssumption
<1>2. Min({fileSize, BufMaxSize}) = IF fileSize <= BufMaxSize THEN fileSize ELSE BufMaxSize
  BY <1>1, MinOfTwo
<1>3. BufSize \in Nat /\ (fileSize > 0 => BufSize > 0) BY <1>1, <1>2 DEF BufSize
<1>4. Min({remaining, BufSize}) = IF remaining <= BufSize THEN remaining ELSE BufSize
  BY <1>1, <1>3, MinOfTwo
<1>5. Wants \in Nat /\ (status = 206 => Wants <= remaining) /\ (remaining > 0 /\ fileSize > 0 => Wants > 0)
  BY <1>1, <1>3, <1>4 DEF Wants
<1>6. size - offset \in Int /\ 0 \in Int BY <1>1
<1>7. Max({0, size - offset}) = IF 0 >= size - offset THEN 0 ELSE size - offset
  BY <1>6, MaxOfTwo
<1>8. Available \in Nat /\ Available = (IF size >= offset THEN size - offset ELSE 0)
  BY <1>1, <1>7 DEF Available
<1>9. Min({Wants, Available}) = IF Wants <= Available THEN Wants ELSE Available
  BY <1>5, <1>8, MinOfTwo
<1> QED BY <1>3, <1>5, <1>8, <1>9

(* Bytes that follow one another.                                          *)
LEMMA BytesChain ==
  ASSUME NEW b \in Nat, NEW n \in Nat, NEW k \in Nat
  PROVE  Bytes(b, n) \o Bytes(b + n, k) = Bytes(b, n + k)
<1> DEFINE s == Bytes(b, n)
           t == Bytes(b + n, k)
           u == Bytes(b, n + k)
<1>1. s \in Seq(Int) /\ Len(s) = n /\ \A i \in 1..n : s[i] = b + i - 1 BY DEF Bytes
<1>2. t \in Seq(Int) /\ Len(t) = k /\ \A i \in 1..k : t[i] = b + n + i - 1 BY DEF Bytes
<1>3. u \in Seq(Int) /\ Len(u) = n + k /\ \A i \in 1..(n + k) : u[i] = b + i - 1 BY DEF Bytes
<1> HIDE DEF s, t, u
<1>4. s \o t \in Seq(Int) /\ Len(s \o t) = n + k
  BY <1>1, <1>2, ConcatProperties
<1>5. \A i \in 1..(n + k) : (s \o t)[i] = IF i <= n THEN s[i] ELSE t[i - n]
  BY <1>1, <1>2, ConcatProperties
<1>6. ASSUME NEW i \in 1..(n + k) PROVE (s \o t)[i] = u[i]
  <2>1. CASE i <= n BY <2>1, <1>1, <1>3, <1>5
  <2>2. CASE ~(i <= n)
    <3>1. i - n \in 1..k BY <2>2
    <3>2. t[i - n] = b + n + (i - n) - 1 BY <3>1, <1>2
    <3>3. t[i - n] = b + i - 1 BY <3>2
    <3> QED BY <2>2, <3>3, <1>3, <1>5
  <2> QED BY <2>1, <2>2
<1>7. s \o t = u BY <1>3, <1>4, <1>6, SeqEqual
<1> QED BY <1>7 DEF s, t, u

LEMMA ReadKeeps ==
  ASSUME TransferAssumption, TransferInv, ReadAndSend PROVE TransferInv'
<1>1. PICK k \in 1..Min({Wants, Available}) :
         /\ sent' = sent \o Bytes(offset, k) \o Behind
         /\ remaining' = (remaining - k) % Wide
         /\ offset' = offset + k
  BY DEF ReadAndSend, Bytes, Behind
<1>2. /\ tpc = "read" /\ remaining > 0 /\ reads' = reads + 1 /\ tpc' = tpc
      /\ size' = size /\ length' = length /\ part' = part /\ todo' = todo /\ changes' = changes
      /\ fileSize' = fileSize /\ status' = status /\ several' = several
  BY DEF ReadAndSend, asked
<1>3. /\ part # NoPart /\ part \in Nat \X Int /\ part[1] \in Nat /\ part[2] \in Int
      /\ Opened /\ Accounted /\ Faithful
  BY <1>2 DEF TransferInv, TransferType
<1>4. k \in Nat \ {0} /\ k <= Wants /\ k <= Available /\ Available = size - offset
      /\ (status = 206 => k <= remaining)
  <2>1. /\ Wants \in Nat /\ Available \in Nat /\ size \in Nat /\ offset \in Nat /\ remaining \in Nat
        /\ Available = (IF size >= offset THEN size - offset ELSE 0)
        /\ Min({Wants, Available}) = IF Wants <= Available THEN Wants ELSE Available
        /\ status = 206 => Wants <= remaining
    BY <1>2, WantsSome DEF TransferInv, TransferType
  <2> HIDE DEF TransferInv
  <2>2. k \in 1..Min({Wants, Available}) BY <1>1
  <2> QED BY <2>1, <2>2
<1>5. sent \in Seq(Int) /\ offset \in Nat /\ remaining \in Nat /\ size \in Nat /\ reads \in Nat
      /\ several \in BOOLEAN /\ Wide \in Nat /\ fileSize \in Nat /\ fileSize + 1 < Wide
      /\ length \in Nat
  BY DEF TransferAssumption, TransferInv, TransferType
<1>6. sent' \in Seq(Int) /\ Cardinality(Plain(sent')) = Cardinality(Plain(sent)) + k
  <2>1. sent \o Bytes(offset, k) \o Behind \in Seq(Int) BY <1>4, <1>5, BytesAppended
  <2>2. Cardinality(Plain(sent \o Bytes(offset, k) \o Behind)) = Cardinality(Plain(sent)) + k
    BY <1>4, <1>5, PlainGrows
  <2> QED BY <1>1, <2>1, <2>2
<1>7. (remaining - k) % Wide \in Nat /\ offset + k \in Nat /\ reads + 1 \in Nat BY <1>4, <1>5
<1>8. TransferType' BY <1>1, <1>2, <1>6, <1>7 DEF TransferInv, TransferType
<1>9. Opened' BY <1>2, <1>3 DEF Opened
<1>10. Done \in Nat /\ Done' = Done + k BY <1>1, <1>2, <1>3, <1>4, <1>5 DEF Done, Accounted
<1>11. Accounted'
  <2>1. part'[1] <= offset' BY <1>1, <1>2, <1>3, <1>4, <1>5 DEF Accounted
  <2>2. Cardinality(Plain(sent')) = Done' BY <1>3, <1>6, <1>10 DEF Accounted
  <2>3. ASSUME status = 206 \/ changes = <<>> PROVE Done' <= length' /\ remaining' = length' - Done'
    <3>1. Done <= length /\ remaining = length - Done BY <1>3, <2>3 DEF Accounted
    <3>2. k <= remaining
      <4>1. CASE status = 206 BY <4>1, <1>4
      <4>2. CASE status # 206
        <5>1. status = 200 /\ changes = <<>> /\ part[1] = 0 /\ part[2] = fileSize - 1
          BY <4>2, <2>3, <1>3 DEF Opened
        <5>2. size = fileSize BY <5>1, <1>2 DEF TransferInv, TransferType
        <5>3. Done = offset BY <5>1, <1>5 DEF Done
        <5>4. length = fileSize BY <5>1, <1>3, <1>5 DEF Opened
        <5> QED BY <5>2, <5>3, <5>4, <3>1, <1>4, <1>5
      <4> QED BY <4>1, <4>2
    <3>3. length < Wide BY <1>3, <1>5 DEF Opened
    <3>4. remaining - k \in 0..(Wide - 1) BY <3>1, <3>2, <3>3, <1>4, <1>5, <1>10
    <3>5. (remaining - k) % Wide = remaining - k
      <4> DEFINE m == remaining - k
      <4>1. m \in 0..(Wide - 1) /\ Wide \in Nat BY <3>4, <1>5
      <4> HIDE DEF m
      <4>2. m % Wide = m BY <4>1
      <4> QED BY <4>2 DEF m
    <3> QED BY <1>1, <1>2, <1>4, <1>5, <1>10, <3>1, <3>2, <3>5
  <2> QED BY <1>2, <2>1, <2>2, <2>3 DEF Accounted, Plain
<1>12. Faithful'
  <2>1. offset = part[1] + Done BY <1>3, <1>5 DEF Done
  <2>2. ASSUME ~several PROVE sent' = Bytes(part[1], Done + k)
    <3>1. sent' = sent \o Bytes(offset, k) \o <<>> BY <2>2, <1>1 DEF Behind
    <3>2. sent = Bytes(part[1], Done) BY <2>2, <1>3 DEF Faithful
    <3>3. sent \o Bytes(offset, k) = Bytes(part[1], Done + k)
      <4>1. Bytes(part[1], Done) \o Bytes(part[1] + Done, k) = Bytes(part[1], Done + k)
        BY <1>3, <1>4, <1>10, BytesChain
      <4> QED BY <3>2, <2>1, <4>1
    <3>4. Bytes(part[1], Done + k) \in Seq(Int) BY <1>3, <1>4, <1>10 DEF Bytes
    <3> QED BY <3>1, <3>3, <3>4, ConcatEmptySeq
  <2>3. ASSUME several, reads + 1 = 1 PROVE sent' = Append(Bytes(part[1], Done + k), Crlf)
    <3>1. sent = <<>> /\ offset = part[1] BY <2>3, <1>3, <1>5 DEF Faithful
    <3>2. Done = 0 BY <3>1, <1>3 DEF Done
    <3>3. sent' = <<>> \o Bytes(part[1], k) \o <<Crlf>> BY <2>3, <3>1, <1>1 DEF Behind
    <3>4. Bytes(part[1], k) \in Seq(Int) BY <1>3, <1>4 DEF Bytes
    <3>5. <<>> \o Bytes(part[1], k) = Bytes(part[1], k) BY <3>4, ConcatEmptySeq
    <3>6. Bytes(part[1], k) \o <<Crlf>> = Append(Bytes(part[1], k), Crlf)
      BY <3>4, AppendIsConcat DEF Crlf
    <3>7. Done + k = k BY <3>2, <1>4
    <3> QED BY <3>3, <3>5, <3>6, <3>7
  <2>4. reads' # 0 BY <1>2, <1>5
  <2> QED BY <1>2, <1>10, <2>2, <2>3, <2>4 DEF Faithful
<1>13. Complete' BY <1>2 DEF Complete
<1> QED BY <1>2, <1>3, <1>8, <1>9, <1>11, <1>12, <1>13 DEF TransferInv

(* A step that neither opens a part nor reads.                             *)
LEMMA SameSent ==
  ASSUME UNCHANGED <<fileSize, status, several, length, part, offset, sent, reads, remaining>>,
         changes' = changes \/ changes' # <<>>
  PROVE  (Opened => Opened') /\ (Accounted => Accounted') /\ (Faithful => Faithful')
<1>1. Opened => Opened' BY DEF Opened
<1>2. Done' = Done BY DEF Done
<1>3. Plain(sent') = Plain(sent) OBVIOUS
<1>4. Accounted => Accounted' BY <1>2, <1>3 DEF Accounted
<1>5. Faithful => Faithful' BY <1>2 DEF Faithful
<1> QED BY <1>1, <1>4, <1>5

LEMMA EndPartKeeps ==
  ASSUME TransferAssumption, TransferInv, EndPart PROVE TransferInv'
<1>1. /\ tpc = "read" /\ tpc' = (IF several THEN "next" ELSE "done")
      /\ UNCHANGED <<fileSize, status, several, size, length, part, todo, remaining, offset, sent, reads, changes>>
  BY DEF EndPart, PartEnds, asked
<1>2. part # NoPart /\ Opened /\ Accounted /\ Faithful /\ part \in Nat \X Int
  BY <1>1 DEF TransferInv, TransferType
<1>3. Opened' /\ Accounted' /\ Faithful' BY <1>1, <1>2, SameSent
<1>4. Complete'
  <2> SUFFICES ASSUME changes = <<>>, part[2] < fileSize, remaining # 0 PROVE FALSE
    BY <1>1 DEF Complete
  <2>1. Min({Wants, Available}) = 0 BY DEF EndPart
  <2>2. size = fileSize /\ remaining = length - Done /\ length = part[2] - part[1] + 1 /\ Done <= length
    BY <1>1, <1>2 DEF Accounted, Opened, TransferInv, TransferType
  <2>3. remaining \in Nat /\ fileSize \in Nat /\ offset \in Nat /\ part[1] \in Nat /\ part[2] \in Int
    BY <1>2 DEF TransferInv, TransferType
  <2>4. offset < size BY <2>2, <2>3, <1>2 DEF Done
  <2>5. fileSize > 0 /\ remaining > 0 BY <2>2, <2>3, <2>4
  <2>6. Wants \in Nat /\ Wants > 0 /\ Available > 0 /\ Available \in Nat
        /\ Min({Wants, Available}) = IF Wants <= Available THEN Wants ELSE Available
    BY <1>1, <2>2, <2>3, <2>4, <2>5, WantsSome
  <2> QED BY <2>1, <2>6
<1>5. TransferType' BY <1>1 DEF TransferInv, TransferType
<1> QED BY <1>1, <1>2, <1>3, <1>4, <1>5 DEF TransferInv

LEMMA OtherKeeps ==
  ASSUME TransferAssumption, TransferInv, LastBoundary \/ SendFails \/ FileChanges PROVE TransferInv'
<1>1. UNCHANGED <<fileSize, status, several, length, part, todo, remaining, offset, sent, reads>>
  BY DEF LastBoundary, SendFails, FileChanges, Grow, Truncate, Change, asked
<1>2. /\ tpc \in {"read", "next"} /\ tpc' # "no"
      /\ tpc' \in {"read", "next", "done", "broken"}
      /\ tpc' = "read" => tpc = "read"
      /\ tpc' = "next" => tpc = "next"
      /\ tpc' = "done" => tpc = "next"
      /\ tpc' = "done" => changes' = changes
      /\ (changes' = changes /\ size' = size) \/ (changes' # <<>> /\ size' \in Nat)
  <2>1. CASE LastBoundary BY <2>1 DEF LastBoundary
  <2>2. CASE SendFails BY <2>2 DEF SendFails, TransferInv
  <2>3. CASE FileChanges
    <3>1. size \in Nat BY DEF TransferInv, TransferType
    <3>2. PICK how : changes' = Append(changes, how) BY <2>3 DEF FileChanges, Grow, Truncate, Change
    <3>3. changes' # <<>> BY <3>2
    <3>4. size' \in Nat BY <2>3, <3>1 DEF FileChanges, Grow, Truncate, Change
    <3> QED BY <2>3, <3>3, <3>4 DEF FileChanges, Grow, Truncate, Change
  <2> QED BY <2>1, <2>2, <2>3
<1>3. TransferType' BY <1>1, <1>2 DEF TransferInv, TransferType
<1>4. part # NoPart => Opened' /\ Accounted' /\ Faithful' BY <1>1, <1>2, SameSent DEF TransferInv
<1>5. part # NoPart => Complete' BY <1>1, <1>2 DEF TransferInv, Complete
<1> QED BY <1>1, <1>2, <1>3, <1>4, <1>5 DEF TransferInv

LEMMA FrontOfAppend ==
  ASSUME NEW T, NEW s \in Seq(T), NEW e \in T
  PROVE  Front(Append(s, e)) = s
<1> DEFINE u == Append(s, e)
           f == Front(u)
<1>1. u \in Seq(T) /\ Len(u) = Len(s) + 1 /\ Len(s) \in Nat /\ \A i \in 1..Len(s) : u[i] = s[i]
  BY AppendProperties
<1> HIDE DEF u
<1>2. f = SubSeq(u, 1, Len(s)) BY <1>1 DEF Front
<1>3. f \in Seq(T) /\ Len(f) = Len(s) /\ \A i \in 1..Len(s) : f[i] = u[i]
  <2> HIDE DEF f
  <2>1. 1 \in 1..(Len(u) + 1) /\ Len(s) \in 0..Len(u) BY <1>1
  <2> QED BY <1>1, <1>2, <2>1, SubSeqProperties
<1> HIDE DEF f
<1>4. f = s BY <1>1, <1>3, SeqEqual
<1> QED BY <1>4 DEF f, u

LEMMA TransferStart == ASSUME TransferAssumption, TransferInit PROVE TransferInv
<1>1. size \in Nat /\ 0 + 1 < Wide BY DEF TransferAssumption, TransferInit
<1>2. <<>> \in Seq(Bound \X Bound) /\ <<>> \in Seq(Int) BY EmptySeq
<1>3. TransferType BY <1>1, <1>2 DEF TransferInit, TransferType
<1> QED BY <1>3 DEF TransferInv, TransferInit

LEMMA TransferSame == ASSUME TransferInv, UNCHANGED transferVars PROVE TransferInv'
<1>1. UNCHANGED <<tpc, size, fileSize, status, length, part, todo, several, remaining, offset, sent, reads, changes>>
  BY DEF transferVars
<1>2. TransferType' BY <1>1 DEF TransferInv, TransferType
<1>3. part # NoPart => Opened' /\ Accounted' /\ Faithful' BY <1>1, SameSent DEF TransferInv
<1>4. part # NoPart => Complete' BY <1>1 DEF TransferInv, Complete
<1> QED BY <1>1, <1>2, <1>3, <1>4 DEF TransferInv

LEMMA TransferKept == Spec => []TransferInv
<1> USE TransferAssumption
<1>1. Init => TransferInv BY TransferStart DEF Init
<1>2. TransferInv /\ [Next]_vars => TransferInv'
  <2> SUFFICES ASSUME TransferInv, [Next]_vars PROVE TransferInv'
    OBVIOUS
  <2>1. CASE Setup BY <2>1, TransferSame DEF Setup
  <2>2. ASSUME NEW m \in Methods, NEW p \in Paths, NEW q \in BOOLEAN, Request(m, p, q) PROVE TransferInv'
    BY <2>2, BeginKeeps, TransferSame DEF Request
  <2>3. CASE Serve BY <2>3, NextPartKeeps, ReadKeeps, EndPartKeeps, OtherKeeps DEF Serve, TransferStep
  <2>4. CASE UNCHANGED vars BY <2>4, TransferSame DEF vars
  <2> QED BY <2>1, <2>2, <2>3, <2>4 DEF Next
<1> QED BY <1>1, <1>2, PTL DEF Spec

(* A range never sends more than it announced, whatever happens to the     *)
(* file while it is sent, and the whole file does not either as long as    *)
(* nobody writes it (useRangeTransferFile).                                *)
THEOREM NeverSendsMore == Spec => []NeverMore
<1>1. TransferInv => NeverMore
  <2> SUFFICES ASSUME TransferInv, status = 206 \/ changes = <<>> PROVE Cardinality(Plain(sent)) <= length
    BY DEF NeverMore, Plain
  <2>1. length \in Nat BY DEF TransferInv, TransferType
  <2>2. CASE part = NoPart BY <2>1, <2>2, NothingSent DEF TransferInv
  <2>3. CASE part # NoPart BY <2>3 DEF TransferInv, Accounted
  <2> QED BY <2>2, <2>3
<1> QED BY <1>1, TransferKept, PTL

(* A part of a file that nobody writes, to a reader that stays, is exactly *)
(* the bytes asked for, and as many as its head announces; the two gaps    *)
(* RangeExact names are left out (useRangeTransferFile).                   *)
THEOREM RangesAreExact == Spec => []RangeExact
<1>1. TransferInv => RangeExact
  <2> DEFINE body == IF several THEN Front(sent) ELSE sent
  <2> SUFFICES ASSUME TransferInv, tpc \in {"next", "done"}, part # NoPart, changes = <<>>,
                      (several => reads = 1), part[2] < fileSize
               PROVE  /\ Len(body) = length
                      /\ body = [i \in 1..(part[2] - part[1] + 1) |-> part[1] + i - 1]
    BY DEF RangeExact
  <2>1. Opened /\ Accounted /\ Faithful /\ Complete /\ part[1] \in Nat /\ part[2] \in Int /\ length \in Nat
        /\ offset \in Nat
    BY DEF TransferInv, TransferType
  <2>2. Done = length /\ Done \in Nat BY <2>1 DEF Complete, Accounted, Done
  <2>3. body = Bytes(part[1], Done)
    <3>1. CASE several
      <4>1. sent = Append(Bytes(part[1], Done), Crlf) BY <3>1, <2>1 DEF Faithful
      <4>2. Bytes(part[1], Done) \in Seq(Int) /\ Crlf \in Int BY <2>1, <2>2 DEF Bytes, Crlf
      <4> HIDE DEF Crlf
      <4>3. Front(sent) = Bytes(part[1], Done) BY <4>1, <4>2, FrontOfAppend
      <4> QED BY <3>1, <4>3
    <3>2. CASE ~several BY <3>2, <2>1 DEF Faithful
    <3> QED BY <3>1, <3>2
  <2>4. Len(body) = Done BY <2>2, <2>3 DEF Bytes
  <2> HIDE DEF body
  <2> QED BY <2>1, <2>2, <2>3, <2>4 DEF Opened, Bytes
<1> QED BY <1>1, TransferKept, PTL

-----------------------------------------------------------------------------
(* The search of the router is defined: every call of it goes on with a    *)
(* shorter path.                                                           *)

(* Induction over the naturals, for a set.                                 *)
LEMMA NatSet ==
  ASSUME NEW S, 0 \in S, \A n \in Nat : n \in S => n + 1 \in S
  PROVE  Nat \subseteq S
<1> DEFINE R == OpToRel(<, Nat)
           T == Nat \ S
<1> SUFFICES ASSUME T # {} PROVE FALSE OBVIOUS
<1>1. \A x, y \in Nat : <<y, x>> \in R <=> y < x BY DEF OpToRel
<1>2. IsWellFoundedOn(R, Nat) BY NatLessThanWellFounded
<1>3. T \subseteq Nat OBVIOUS
<1> HIDE DEF R, T
<1>4. PICK x \in T : \A y \in T : ~(<<y, x>> \in R) BY <1>2, <1>3, WFMin
<1>5. x \in Nat /\ x # 0 /\ x \notin S BY DEF T
<1>6. x - 1 \in Nat /\ (x - 1) + 1 = x BY <1>5
<1>7. x - 1 \in T BY <1>5, <1>6 DEF T
<1>8. ~(x - 1 < x) BY <1>1, <1>4, <1>5, <1>6, <1>7
<1> QED BY <1>5, <1>8

At == Seq(Segment) \X Seq(Segment)

(* One call of _find, of which f are the calls it makes.                   *)
Below(f, l, k, path) == IF Append(l, k) \in nodes THEN f[<<Append(l, k), Tail(path)>>] ELSE None
Tried(f, l, path) ==
  LET s == Head(path) IN
  IF Below(f, l, s, path) # None THEN Below(f, l, s, path)
  ELSE IF Below(f, l, Wild, path) # None THEN Below(f, l, Wild, path)
  ELSE ValueAt(Append(l, Rest))
Call(f, at) == IF at[2] = <<>> THEN ValueAt(at[1]) ELSE Tried(f, at[1], at[2])

LEMMA MinInts ==
  ASSUME NEW I, I \subseteq {1, 2}, I # {}
  PROVE  Min(I) = IF 1 \in I THEN 1 ELSE 2
<1>1. CASE 1 \in I
  <2>1. \A y \in I : 1 =< y OBVIOUS
  <2>2. \A x \in I : (\A y \in I : x =< y) => x = 1 BY <1>1
  <2> QED BY <1>1, <2>1, <2>2 DEF Min
<1>2. CASE 1 \notin I
  <2>1. I = {2} BY <1>2
  <2> QED BY <2>1, <1>2 DEF Min
<1> QED BY <1>1, <1>2

LEMMA TriesBoth ==
  ASSUME NEW f, NEW l, NEW path
  PROVE  LET below(k) == IF Append(l, k) \in nodes THEN f[<<Append(l, k), Tail(path)>>] ELSE None
             ks == Tries(l, Head(path))
             hit == SelectInSeq(ks, LAMBDA k : below(k) # None)
         IN  (IF hit # 0 THEN below(ks[hit]) ELSE ValueAt(Append(l, Rest))) = Tried(f, l, path)
<1> DEFINE below(k) == IF Append(l, k) \in nodes THEN f[<<Append(l, k), Tail(path)>>] ELSE None
           ks == Tries(l, Head(path))
           I == {i \in 1..Len(ks) : below(ks[i]) # None}
           hit == SelectInSeq(ks, LAMBDA k : below(k) # None)
<1>1. /\ below(Head(path)) = Below(f, l, Head(path), path)
      /\ below(Wild) = Below(f, l, Wild, path)
  BY DEF Below
<1>2. ks = <<Head(path), Wild>> BY DEF Tries
<1> HIDE DEF below, ks
<1>3. Len(ks) = 2 /\ ks[1] = Head(path) /\ ks[2] = Wild BY <1>2
<1>3a. /\ below(ks[1]) = Below(f, l, Head(path), path)
       /\ below(ks[2]) = Below(f, l, Wild, path)
  BY <1>1, <1>3
<1> DEFINE last == ValueAt(Append(l, Rest))
           res == IF hit # 0 THEN below(ks[hit]) ELSE last
<1>3b. Tried(f, l, path) = IF below(ks[1]) # None THEN below(ks[1])
                           ELSE IF below(ks[2]) # None THEN below(ks[2]) ELSE last
  BY <1>3a DEF Tried
<1> HIDE DEF last
<1>4. I = {i \in {1, 2} : below(ks[i]) # None} BY <1>3
<1>5. hit = IF I # {} THEN Min(I) ELSE 0 BY DEF SelectInSeq
<1> HIDE DEF I, hit
<1>6. ASSUME below(ks[1]) # None PROVE res = Tried(f, l, path)
  <2>1. 1 \in I BY <1>4, <1>6
  <2>2. hit = 1 BY <1>4, <1>5, <2>1, MinInts
  <2>3. res = Tried(f, l, path) BY <2>2, <1>3b, <1>6
  <2> QED BY <2>3
<1>7. ASSUME below(ks[1]) = None, below(ks[2]) # None PROVE res = Tried(f, l, path)
  <2>1. I = {2} BY <1>4, <1>7
  <2>2. hit = 2 BY <1>5, <2>1, MinInts
  <2>3. res = Tried(f, l, path) BY <2>2, <1>3b, <1>7
  <2> QED BY <2>3
<1>8. ASSUME below(ks[1]) = None, below(ks[2]) = None PROVE res = Tried(f, l, path)
  <2>1. I = {} BY <1>4, <1>8
  <2>2. hit = 0 BY <1>5, <2>1
  <2>3. res = Tried(f, l, path) BY <2>2, <1>3b, <1>8
  <2> QED BY <2>3
<1>9. res = Tried(f, l, path) BY <1>6, <1>7, <1>8
<1> QED BY <1>9 DEF res, last, below, ks, hit

LEMMA FindChosen == Find = CHOOSE f : f = [at \in At |-> Call(f, at)]
<1> DEFINE
      Body(f, at) ==
        LET l == at[1]
            path == at[2]
            below(k) == IF Append(l, k) \in nodes THEN f[<<Append(l, k), Tail(path)>>] ELSE None
            ks == Tries(l, Head(path))
            hit == SelectInSeq(ks, LAMBDA k : below(k) # None)
        IN  IF path = <<>> THEN ValueAt(l)
            ELSE IF hit # 0 THEN below(ks[hit]) ELSE ValueAt(Append(l, Rest))
<1>1. Find = CHOOSE f : f = [at \in At |-> Body(f, at)] BY Zenon DEF Find, At
<1>2. \A f, at : Body(f, at) = Call(f, at)
  <2> TAKE f, at
  <2>1. CASE at[2] = <<>> BY <2>1 DEF Call
  <2>2. CASE at[2] # <<>>
    <3>1. Body(f, at) = Tried(f, at[1], at[2]) BY <2>2, TriesBoth, Zenon
    <3> QED BY <2>2, <3>1 DEF Call
  <2> QED BY <2>1, <2>2
<1> HIDE DEF Body
<1>3. \A f : [at \in At |-> Body(f, at)] = [at \in At |-> Call(f, at)] BY <1>2
<1>4. \A f : f = [at \in At |-> Body(f, at)] <=> f = [at \in At |-> Call(f, at)] BY <1>3
<1> QED BY <1>1, <1>3, Zenon

LEMMA Shorter ==
  ASSUME NEW at \in At, at[2] # <<>>, NEW k \in Segment
  PROVE  /\ <<Append(at[1], k), Tail(at[2])>> \in At
         /\ Len(at[2]) \in Nat \ {0} /\ Len(Tail(at[2])) = Len(at[2]) - 1
<1>1. at[1] \in Seq(Segment) /\ at[2] \in Seq(Segment) BY DEF At
<1>2. Append(at[1], k) \in Seq(Segment) BY <1>1, AppendProperties
<1>3. Tail(at[2]) \in Seq(Segment) /\ Len(Tail(at[2])) = Len(at[2]) - 1 BY <1>1, HeadTailProperties
<1>4. Len(at[2]) \in Nat \ {0} BY <1>1, EmptySeq, LenProperties
<1> QED BY <1>2, <1>3, <1>4 DEF At

LEMMA CallDepends ==
  ASSUME NEW f, NEW g, NEW at \in At,
         at[2] # <<>> => \A k \in Segment : f[<<Append(at[1], k), Tail(at[2])>>] = g[<<Append(at[1], k), Tail(at[2])>>]
  PROVE  Call(f, at) = Call(g, at)
<1>1. CASE at[2] = <<>> BY <1>1 DEF Call
<1>2. CASE at[2] # <<>>
  <2>0. at[2] \in Seq(Segment) BY DEF At
  <2>a. Wild \in Segment BY RouterAssumption DEF RouterAssumption
  <2>b. Head(at[2]) \in Segment BY <1>2, <2>0, HeadTailProperties
  <2>1. Head(at[2]) \in Segment /\ Wild \in Segment BY <2>a, <2>b
  <2>2. \A k \in Segment : Below(f, at[1], k, at[2]) = Below(g, at[1], k, at[2]) BY <1>2 DEF Below
  <2>3. Tried(f, at[1], at[2]) = Tried(g, at[1], at[2]) BY <2>1, <2>2 DEF Tried
  <2> QED BY <1>2, <2>3 DEF Call
<1> QED BY <1>1, <1>2

Solves(f, n) == \A at \in At : Len(at[2]) <= n => f[at] = Call(f, at)

LEMMA SolutionsAgree ==
  ASSUME NEW f, NEW g, NEW n \in Nat, Solves(f, n), Solves(g, n)
  PROVE  \A at \in At : Len(at[2]) <= n => f[at] = g[at]
<1> DEFINE S == {i \in Nat : i <= n => \A at \in At : Len(at[2]) = i => f[at] = g[at]}
<1>1. 0 \in S
  <2> SUFFICES ASSUME NEW at \in At, Len(at[2]) = 0 PROVE f[at] = g[at] OBVIOUS
  <2>1. at[2] = <<>> BY EmptySeq DEF At
  <2>2. f[at] = Call(f, at) /\ g[at] = Call(g, at) BY DEF Solves
  <2> QED BY <2>1, <2>2 DEF Call
<1>2. ASSUME NEW i \in Nat, i \in S PROVE i + 1 \in S
  <2> SUFFICES ASSUME i + 1 <= n, NEW at \in At, Len(at[2]) = i + 1 PROVE f[at] = g[at] OBVIOUS
  <2>1. f[at] = Call(f, at) /\ g[at] = Call(g, at) BY DEF Solves
  <2>2. at[2] # <<>> BY EmptySeq DEF At
  <2>3. ASSUME NEW k \in Segment
        PROVE  f[<<Append(at[1], k), Tail(at[2])>>] = g[<<Append(at[1], k), Tail(at[2])>>]
    <3> DEFINE b == <<Append(at[1], k), Tail(at[2])>>
    <3>1. b \in At /\ Len(Tail(at[2])) = Len(at[2]) - 1 BY <2>2, Shorter
    <3>2. b[2] = Tail(at[2]) OBVIOUS
    <3> HIDE DEF b
    <3>3. Len(b[2]) = i /\ i <= n BY <3>1, <3>2
    <3>4. f[b] = g[b] BY <1>2, <3>1, <3>3
    <3> QED BY <3>4 DEF b
  <2>4. Call(f, at) = Call(g, at) BY <2>3, CallDepends
  <2> QED BY <2>1, <2>4
<1> HIDE DEF S
<1>3. Nat \subseteq S BY <1>1, <1>2, NatSet
<1> SUFFICES ASSUME NEW at \in At, Len(at[2]) <= n PROVE f[at] = g[at] OBVIOUS
<1>4. Len(at[2]) \in Nat BY LenProperties DEF At
<1> QED BY <1>3, <1>4 DEF S

LEMMA SolutionExists == \A n \in Nat : \E f : Solves(f, n)
<1> DEFINE S == {n \in Nat : \E f : Solves(f, n)}
<1>1. 0 \in S
  <2> DEFINE f == [at \in At |-> ValueAt(at[1])]
  <2>1. ASSUME NEW at \in At, Len(at[2]) <= 0 PROVE f[at] = Call(f, at)
    <3>1. at[2] = <<>> BY <2>1, EmptySeq, LenProperties DEF At
    <3> QED BY <3>1 DEF Call
  <2> HIDE DEF f
  <2>2. Solves(f, 0) BY <2>1 DEF Solves
  <2> QED BY <2>2
<1>2. ASSUME NEW n \in Nat, n \in S PROVE n + 1 \in S
  <2>1. PICK f : Solves(f, n) BY <1>2
  <2> DEFINE g == [at \in At |-> IF Len(at[2]) <= n THEN f[at] ELSE Call(f, at)]
  <2>2. ASSUME NEW at \in At, Len(at[2]) <= n + 1 PROVE g[at] = Call(g, at)
    <3>1. Len(at[2]) \in Nat BY LenProperties DEF At
    <3>2. ASSUME at[2] # <<>>, NEW k \in Segment
          PROVE  f[<<Append(at[1], k), Tail(at[2])>>] = g[<<Append(at[1], k), Tail(at[2])>>]
      <4> DEFINE b == <<Append(at[1], k), Tail(at[2])>>
      <4>1. b \in At /\ Len(Tail(at[2])) = Len(at[2]) - 1 BY <3>2, Shorter
      <4>2. b[2] = Tail(at[2]) OBVIOUS
      <4> HIDE DEF b
      <4>3. Len(b[2]) <= n BY <2>2, <3>1, <4>1, <4>2
      <4>4. f[b] = g[b] BY <4>1, <4>3
      <4> QED BY <4>4 DEF b
    <3> HIDE DEF g
    <3>3. Call(f, at) = Call(g, at) BY <3>2, CallDepends
    <3>4. g[at] = Call(f, at)
      <4>1. CASE Len(at[2]) <= n BY <4>1, <2>1 DEF g, Solves
      <4>2. CASE ~(Len(at[2]) <= n) BY <4>2 DEF g
      <4> QED BY <4>1, <4>2
    <3> QED BY <3>3, <3>4
  <2> HIDE DEF g
  <2>3. Solves(g, n + 1) BY <2>2 DEF Solves
  <2> QED BY <2>3
<1> HIDE DEF S
<1>3. Nat \subseteq S BY <1>1, <1>2, NatSet
<1> QED BY <1>3 DEF S

(* The recursion equation of the search.                                   *)
LEMMA FindUnfolds == \A at \in At : Find[at] = Call(Find, at)
<1> DEFINE Sol(n) == CHOOSE f : Solves(f, n)
           g == [at \in At |-> Sol(Len(at[2]))[at]]
<1>1. \A n \in Nat : Solves(Sol(n), n) BY SolutionExists
<1> HIDE DEF Sol
<1>2. ASSUME NEW at \in At PROVE g[at] = Call(g, at)
  <2> DEFINE n == Len(at[2])
  <2>1. n \in Nat BY LenProperties DEF At
  <2>2. Solves(Sol(n), n) BY <1>1, <2>1
  <2>3. g[at] = Sol(n)[at] OBVIOUS
  <2>4. Sol(n)[at] = Call(Sol(n), at) BY <2>1, <2>2 DEF Solves
  <2>5. ASSUME at[2] # <<>>, NEW k \in Segment
        PROVE  Sol(n)[<<Append(at[1], k), Tail(at[2])>>] = g[<<Append(at[1], k), Tail(at[2])>>]
    <3> DEFINE b == <<Append(at[1], k), Tail(at[2])>>
               m == Len(b[2])
    <3>1. b \in At /\ n \in Nat \ {0} /\ Len(Tail(at[2])) = n - 1 BY <2>5, Shorter
    <3>2. b[2] = Tail(at[2]) OBVIOUS
    <3> HIDE DEF b
    <3>3. m = n - 1 /\ m \in Nat BY <3>1, <3>2
    <3>4. g[b] = Sol(m)[b] BY <3>1
    <3> HIDE DEF n
    <3>5. Solves(Sol(m), m) BY <1>1, <3>3
    <3>6. Solves(Sol(n), m) BY <2>1, <2>2, <3>1, <3>3, LenProperties DEF Solves, At
    <3>7. Sol(n)[b] = Sol(m)[b] BY <3>1, <3>3, <3>5, <3>6, SolutionsAgree
    <3> QED BY <3>4, <3>7 DEF b
  <2> HIDE DEF g, n
  <2>6. Call(Sol(n), at) = Call(g, at) BY <2>5, CallDepends
  <2> QED BY <2>3, <2>4, <2>6
<1>3. g = [at \in At |-> Call(g, at)]
  <2>1. g = [at \in At |-> g[at]] OBVIOUS
  <2> HIDE DEF g
  <2> QED BY <1>2, <2>1
<1> HIDE DEF g
<1>4. Find = [at \in At |-> Call(Find, at)]
  <2> DEFINE P(f) == f = [at \in At |-> Call(f, at)]
  <2>1. P(g) BY <1>3
  <2>2. Find = CHOOSE f : P(f) BY FindChosen
  <2> HIDE DEF P
  <2>3. P(Find) BY <2>1, <2>2, Zenon
  <2> QED BY <2>3 DEF P
<1> QED
  <2> SUFFICES ASSUME NEW at \in At PROVE Find[at] = Call(Find, at) OBVIOUS
  <2> HIDE DEF At
  <2> DEFINE c == [b \in At |-> Call(Find, b)]
  <2>1. Find[at] = c[at] BY <1>4
  <2> QED BY <2>1

-----------------------------------------------------------------------------
(* What the search finds. *)

Under(w, l) == Len(l) <= Len(w) /\ \A i \in 1..Len(l) : w[i] = l[i]

(* Behind its first n segments the key w goes along the path p: to its     *)
(* end, or to a "**" that takes what is left.                              *)
Along(w, n, p) ==
  \/ Len(w) = n + Len(p) /\ \A i \in 1..Len(p) : w[n + i] \in {p[i], Wild}
  \/ /\ Len(w) \in (n + 1)..(n + Len(p)) /\ w[Len(w)] = Rest
     /\ \A i \in 1..(Len(w) - n - 1) : w[n + i] \in {p[i], Wild}

Hit(w, l, p) == w \in DOMAIN val /\ Under(w, l) /\ Along(w, Len(l), p)

KeyRank(k) == IF k = Rest THEN 3 ELSE IF k = Wild THEN 2 ELSE 1
Beats(v, w) ==
  \E i \in DOMAIN v \cap DOMAIN w :
     KeyRank(v[i]) < KeyRank(w[i]) /\ \A j \in 1..i - 1 : v[j] = w[j]

(* r is the endpoint of the best key below the node l for the path p.      *)
Found(l, p, r) ==
  IF \E w \in DOMAIN val : Hit(w, l, p)
  THEN \E w \in DOMAIN val :
          /\ Hit(w, l, p) /\ r = val[w]
          /\ \A v \in DOMAIN val : Hit(v, l, p) => v = w \/ Beats(w, v)
  ELSE r = None

NoStars(p) == \A i \in DOMAIN p : p[i] \notin {Wild, Rest}

(* Every endpoint can be reached from the root, and it is that of the last *)
(* template with its key.                                                  *)
TreeOK ==
  /\ added \in Seq(Template)
  /\ DOMAIN val \subseteq Seq(Segment)
  /\ \A w \in DOMAIN val : \A i \in 0..Len(w) : SubSeq(w, 1, i) \in nodes
  /\ \A w \in DOMAIN val : \E j \in DOMAIN added :
        /\ Link(added[j]) = w /\ val[w] = added[j]
        /\ \A i \in DOMAIN added : i > j => Link(added[i]) # w
  /\ \A j \in DOMAIN added : Link(added[j]) \in DOMAIN val

LEMMA UnderAppend ==
  ASSUME NEW w \in Seq(Segment), NEW l \in Seq(Segment), NEW k \in Segment
  PROVE  /\ Append(l, k) \in Seq(Segment) /\ Len(Append(l, k)) = Len(l) + 1
         /\ Append(l, k)[Len(l) + 1] = k
         /\ Under(w, Append(l, k)) <=> Len(l) + 1 <= Len(w) /\ Under(w, l) /\ w[Len(l) + 1] = k
<1> DEFINE u == Append(l, k)
           n == Len(l)
<1>1. u \in Seq(Segment) /\ Len(u) = n + 1 /\ n \in Nat /\ u[n + 1] = k /\ \A i \in 1..n : u[i] = l[i]
  BY AppendProperties, LenProperties
<1>2. Len(w) \in Nat BY LenProperties
<1> HIDE DEF u, n
<1>3. ASSUME Under(w, u) PROVE n + 1 <= Len(w) /\ Under(w, l) /\ w[n + 1] = k
  <2>1. n + 1 <= Len(w) /\ \A i \in 1..(n + 1) : w[i] = u[i] BY <1>1, <1>3 DEF Under
  <2>2. n <= Len(w) /\ n + 1 \in 1..(n + 1) BY <2>1, <1>1, <1>2
  <2>3. \A i \in 1..n : w[i] = l[i] BY <2>1, <1>1
  <2> QED BY <2>1, <2>2, <2>3, <1>1 DEF Under, n
<1>4. ASSUME n + 1 <= Len(w), Under(w, l), w[n + 1] = k PROVE Under(w, u)
  <2>1. \A i \in 1..n : w[i] = l[i] BY <1>4 DEF Under, n
  <2>2. \A i \in 1..(n + 1) : w[i] = u[i]
    <3> TAKE i \in 1..(n + 1)
    <3>1. CASE i \in 1..n BY <3>1, <2>1, <1>1
    <3>2. CASE i = n + 1 BY <3>2, <1>1, <1>4
    <3> QED BY <3>1, <3>2, <1>1
  <2> QED BY <2>2, <1>1, <1>4 DEF Under
<1> QED BY <1>1, <1>3, <1>4 DEF u, n

LEMMA EarlierWins ==
  ASSUME NEW w \in Seq(Segment), NEW v \in Seq(Segment), NEW l \in Seq(Segment),
         NEW a \in Segment, NEW b \in Segment,
         Under(w, Append(l, a)), Under(v, Append(l, b)), KeyRank(a) < KeyRank(b)
  PROVE  Beats(w, v)
<1> DEFINE i == Len(l) + 1
<1>1. i <= Len(w) /\ Under(w, l) /\ w[i] = a BY UnderAppend
<1>2. i <= Len(v) /\ Under(v, l) /\ v[i] = b BY UnderAppend
<1>3. Len(l) \in Nat /\ Len(w) \in Nat /\ Len(v) \in Nat /\ DOMAIN w = 1..Len(w) /\ DOMAIN v = 1..Len(v)
  BY LenProperties
<1>4. i \in DOMAIN w \cap DOMAIN v /\ i - 1 = Len(l) BY <1>1, <1>2, <1>3
<1>5. \A j \in 1..Len(l) : w[j] = v[j] BY <1>1, <1>2 DEF Under
<1> HIDE DEF i
<1> QED BY <1>1, <1>2, <1>4, <1>5 DEF Beats

LEMMA SameKey ==
  ASSUME NEW w \in Seq(Segment), NEW l \in Seq(Segment), NEW k \in Segment,
         Under(w, Append(l, k)), Len(w) = Len(l) + 1
  PROVE  w = Append(l, k)
<1> DEFINE u == Append(l, k)
<1>1. u \in Seq(Segment) /\ Len(u) = Len(l) + 1 BY UnderAppend
<1> HIDE DEF u
<1>2. \A i \in 1..Len(u) : w[i] = u[i] BY DEF Under, u
<1>3. w = u BY <1>1, <1>2, SeqEqual
<1> QED BY <1>3 DEF u

(* Where a key goes from a node: to a child, or to the "**" below it.      *)
LEMMA Branches ==
  ASSUME NEW w \in Seq(Segment), NEW l \in Seq(Segment), NEW p \in Seq(Segment), p # <<>>,
         Rest \in Segment, Wild \in Segment
  PROVE  Under(w, l) /\ Along(w, Len(l), p) <=>
           \/ \E k \in {Head(p), Wild} : Under(w, Append(l, k)) /\ Along(w, Len(Append(l, k)), Tail(p))
           \/ w = Append(l, Rest)
<1> DEFINE n == Len(l)
           q == Tail(p)
           m == Len(q)
           c == Len(w)
<1>1. /\ q \in Seq(Segment) /\ m \in Nat /\ Len(p) = m + 1 /\ \A i \in 1..m : q[i] = p[i + 1]
      /\ Head(p) = p[1] /\ Head(p) \in Segment
  BY EmptySeq, LenProperties, HeadTailProperties
<1>2. n \in Nat /\ c \in Nat BY LenProperties
<1>3. \A k \in {Head(p), Wild} : k \in Segment /\ Len(Append(l, k)) = n + 1
  BY <1>1, UnderAppend
<1>4. \A k \in Segment : Under(w, Append(l, k)) <=> n + 1 <= c /\ Under(w, l) /\ w[n + 1] = k
  BY UnderAppend
<1> HIDE DEF n, q, m, c
<1>5. ASSUME Under(w, l), Along(w, n, p)
      PROVE  \/ \E k \in {Head(p), Wild} : Under(w, Append(l, k)) /\ Along(w, n + 1, q)
             \/ w = Append(l, Rest)
  <2>1. CASE c = n + Len(p) /\ \A i \in 1..Len(p) : w[n + i] \in {p[i], Wild}
    <3>1. w[n + 1] \in {p[1], Wild} /\ n + 1 <= c BY <2>1, <1>1, <1>2
    <3>2. c = (n + 1) + m BY <2>1, <1>1, <1>2
    <3>3. ASSUME NEW i \in 1..m PROVE w[(n + 1) + i] \in {q[i], Wild}
      <4>1. i + 1 \in 1..Len(p) /\ (n + 1) + i = n + (i + 1) BY <1>1, <1>2
      <4>2. w[n + (i + 1)] \in {p[i + 1], Wild} BY <4>1, <2>1
      <4> QED BY <4>1, <4>2, <1>1
    <3>4. Along(w, n + 1, q) BY <3>2, <3>3 DEF Along, c, m
    <3> QED BY <3>1, <3>4, <1>1, <1>3, <1>4, <1>5
  <2>2. CASE /\ c \in (n + 1)..(n + Len(p)) /\ w[c] = Rest
             /\ \A i \in 1..(c - n - 1) : w[n + i] \in {p[i], Wild}
    <3>1. CASE c = n + 1
      <4>1. Under(w, Append(l, Rest)) BY <3>1, <2>2, <1>4, <1>5, <1>2
      <4> QED BY <4>1, <3>1, SameKey DEF c, n
    <3>2. CASE c # n + 1
      <4>1. w[n + 1] \in {p[1], Wild} /\ n + 1 <= c BY <2>2, <3>2, <1>1, <1>2
      <4>2. c \in ((n + 1) + 1)..((n + 1) + m) BY <2>2, <3>2, <1>1, <1>2
      <4>3. ASSUME NEW i \in 1..(c - (n + 1) - 1) PROVE w[(n + 1) + i] \in {q[i], Wild}
        <5>1. i + 1 \in 1..(c - n - 1) /\ (n + 1) + i = n + (i + 1) /\ i \in 1..m
          BY <2>2, <1>1, <1>2
        <5>2. w[n + (i + 1)] \in {p[i + 1], Wild} BY <5>1, <2>2
        <5> QED BY <5>1, <5>2, <1>1
      <4>4. Along(w, n + 1, q) BY <2>2, <4>2, <4>3 DEF Along, c, m
      <4> QED BY <4>1, <4>4, <1>1, <1>3, <1>4, <1>5
    <3> QED BY <3>1, <3>2
  <2> QED BY <1>5, <2>1, <2>2 DEF Along, c
<1>6. ASSUME NEW k \in {Head(p), Wild}, Under(w, Append(l, k)), Along(w, n + 1, q)
      PROVE  Under(w, l) /\ Along(w, n, p)
  <2>1. n + 1 <= c /\ Under(w, l) /\ w[n + 1] = k BY <1>3, <1>4, <1>6
  <2>2. CASE c = (n + 1) + m /\ \A i \in 1..m : w[(n + 1) + i] \in {q[i], Wild}
    <3>1. c = n + Len(p) BY <2>2, <1>1, <1>2
    <3>2. ASSUME NEW i \in 1..Len(p) PROVE w[n + i] \in {p[i], Wild}
      <4>1. CASE i = 1 BY <4>1, <2>1, <1>1
      <4>2. CASE i # 1
        <5>1. i - 1 \in 1..m /\ (n + 1) + (i - 1) = n + i /\ (i - 1) + 1 = i BY <4>2, <1>1, <1>2
        <5>2. w[(n + 1) + (i - 1)] \in {q[i - 1], Wild} BY <5>1, <2>2
        <5>3. q[i - 1] = p[(i - 1) + 1] BY <5>1, <1>1
        <5> QED BY <5>1, <5>2, <5>3
      <4> QED BY <4>1, <4>2
    <3> QED BY <2>1, <3>1, <3>2 DEF Along, c
  <2>3. CASE /\ c \in ((n + 1) + 1)..((n + 1) + m) /\ w[c] = Rest
             /\ \A i \in 1..(c - (n + 1) - 1) : w[(n + 1) + i] \in {q[i], Wild}
    <3>1. c \in (n + 1)..(n + Len(p)) BY <2>3, <1>1, <1>2
    <3>2. ASSUME NEW i \in 1..(c - n - 1) PROVE w[n + i] \in {p[i], Wild}
      <4>1. CASE i = 1 BY <4>1, <2>1, <1>1
      <4>2. CASE i # 1
        <5>1. i - 1 \in 1..(c - (n + 1) - 1) /\ (n + 1) + (i - 1) = n + i /\ (i - 1) + 1 = i
              /\ i - 1 \in 1..m
          BY <4>2, <2>3, <1>1, <1>2
        <5>2. w[(n + 1) + (i - 1)] \in {q[i - 1], Wild} BY <5>1, <2>3
        <5>3. q[i - 1] = p[(i - 1) + 1] BY <5>1, <1>1
        <5> QED BY <5>1, <5>2, <5>3
      <4> QED BY <4>1, <4>2
    <3> QED BY <2>1, <2>3, <3>1, <3>2 DEF Along, c
  <2> QED BY <1>6, <2>2, <2>3 DEF Along, c, m
<1>7. ASSUME w = Append(l, Rest) PROVE Under(w, l) /\ Along(w, n, p)
  <2>1. Len(w) = n + 1 /\ w[n + 1] = Rest BY <1>7, UnderAppend DEF n
  <2>2. Under(w, Append(l, Rest)) BY <1>7 DEF Under, c
  <2>3. Under(w, l) BY <2>2, <1>4
  <2>4. Len(w) \in (n + 1)..(n + Len(p)) BY <2>1, <1>1, <1>2
  <2>5. 1..(Len(w) - n - 1) = {} BY <2>1, <1>2
  <2> QED BY <2>1, <2>3, <2>4, <2>5 DEF Along
<1> QED BY <1>3, <1>5, <1>6, <1>7 DEF n, q

LEMMA Endpoints ==
  ASSUME TreeOK, NEW w \in DOMAIN val
  PROVE  w \in Seq(Segment) /\ val[w] # None
<1>1. PICK j \in DOMAIN added : val[w] = added[j] BY DEF TreeOK
<1>2. added[j] \in Template BY <1>1, ElementOfSeq, LenProperties DEF TreeOK
<1> QED BY <1>1, <1>2, RouterAssumption DEF RouterAssumption, TreeOK, None

LEMMA NoneIsNone ==
  ASSUME TreeOK, NEW l, NEW p, NEW r, Found(l, p, r)
  PROVE  r # None <=> \E w \in DOMAIN val : Hit(w, l, p)
BY Endpoints DEF Found

LEMMA PrefixOfKey ==
  ASSUME NEW w \in Seq(Segment), NEW u \in Seq(Segment), Under(w, u)
  PROVE  Len(u) \in 0..Len(w) /\ SubSeq(w, 1, Len(u)) = u
<1> DEFINE n == Len(u)
           s == SubSeq(w, 1, n)
<1>1. n \in Nat /\ Len(w) \in Nat /\ n <= Len(w) BY LenProperties DEF Under
<1>2. \A i \in 1..n : w[i] = u[i] BY DEF Under
<1>3. \A i \in 1..n : w[i] \in Segment BY <1>1, ElementOfSeq
<1> HIDE DEF n
<1>4. s \in Seq(Segment) /\ Len(s) = n /\ \A i \in 1..n : s[i] = w[i]
  BY <1>1, <1>3, SubSeqProperties
<1> HIDE DEF s
<1>5. s = u BY <1>2, <1>4, SeqEqual DEF n
<1> QED BY <1>1, <1>5 DEF s, n

(* A node that is not there has no endpoint below it.                      *)
LEMMA BelowFound ==
  ASSUME TreeOK, NEW l \in Seq(Segment), NEW k \in Segment, NEW p,
         Found(Append(l, k), Tail(p), Find[<<Append(l, k), Tail(p)>>])
  PROVE  Found(Append(l, k), Tail(p), Below(Find, l, k, p))
<1> DEFINE u == Append(l, k)
<1>1. CASE u \in nodes BY <1>1 DEF Below
<1>2. CASE u \notin nodes
  <2>1. u \in Seq(Segment) BY UnderAppend
  <2> HIDE DEF u
  <2>2. ASSUME NEW w \in DOMAIN val, Hit(w, u, Tail(p)) PROVE FALSE
    <3>1. w \in Seq(Segment) /\ Under(w, u) BY <2>2, Endpoints DEF Hit
    <3>2. Len(u) \in 0..Len(w) /\ SubSeq(w, 1, Len(u)) = u BY <2>1, <3>1, PrefixOfKey
    <3>3. SubSeq(w, 1, Len(u)) \in nodes BY <3>2 DEF TreeOK
    <3> QED BY <1>2, <3>2, <3>3
  <2>3. Below(Find, l, k, p) = None BY <1>2 DEF Below, u
  <2> QED BY <2>2, <2>3 DEF Found, u
<1> QED BY <1>1, <1>2

LEMMA EmptyPathFound ==
  ASSUME TreeOK, NEW l \in Seq(Segment)
  PROVE  Found(l, <<>>, ValueAt(l))
<1>1. ASSUME NEW w \in DOMAIN val PROVE Hit(w, l, <<>>) <=> w = l
  <2>1. w \in Seq(Segment) /\ Len(w) \in Nat /\ Len(l) \in Nat BY Endpoints, LenProperties
  <2>2. ASSUME Hit(w, l, <<>>) PROVE w = l
    <3>1. Len(w) = Len(l) BY <2>1, <2>2 DEF Hit, Along
    <3>2. \A i \in 1..Len(l) : w[i] = l[i] BY <2>2 DEF Hit, Under
    <3> QED BY <2>1, <3>1, <3>2, SeqEqual
  <2>3. ASSUME w = l PROVE Hit(w, l, <<>>)
    <3>1. Len(<<>>) = 0 /\ 1..Len(<<>>) = {} OBVIOUS
    <3> QED BY <2>1, <2>3, <3>1 DEF Hit, Under, Along
  <2> QED BY <2>2, <2>3
<1>2. CASE l \in DOMAIN val BY <1>1, <1>2 DEF Found, ValueAt
<1>3. CASE l \notin DOMAIN val BY <1>1, <1>3 DEF Found, ValueAt
<1> QED BY <1>2, <1>3

(* One call of the search, if the calls it makes find what they should.    *)
LEMMA TriedFound ==
  ASSUME TreeOK, NEW l \in Seq(Segment), NEW p \in Seq(Segment), p # <<>>, NoStars(p),
         \A k \in {Head(p), Wild} :
            Found(Append(l, k), Tail(p), Find[<<Append(l, k), Tail(p)>>])
  PROVE  Found(l, p, Tried(Find, l, p))
<1> DEFINE s == Head(p)
           q == Tail(p)
           r(k) == Below(Find, l, k, p)
           star == Append(l, Rest)
<1>1. s \in Segment /\ s = p[1] /\ 1 \in DOMAIN p BY HeadTailProperties, EmptySeq, LenProperties
<1>2. s \notin {Wild, Rest} BY <1>1 DEF NoStars
<1>3. Wild \in Segment /\ Rest \in Segment /\ Wild # Rest BY RouterAssumption DEF RouterAssumption, Wild, Rest
<1>4. KeyRank(s) = 1 /\ KeyRank(Wild) = 2 /\ KeyRank(Rest) = 3 BY <1>2, <1>3 DEF KeyRank
<1>5. Found(Append(l, s), q, r(s)) /\ Found(Append(l, Wild), q, r(Wild))
  BY <1>1, <1>3, BelowFound
<1>6. \A w \in DOMAIN val :
        Hit(w, l, p) <=> Hit(w, Append(l, s), q) \/ Hit(w, Append(l, Wild), q) \/ w = star
  BY <1>3, Branches, Endpoints DEF Hit
<1>7. ASSUME NEW v \in DOMAIN val, NEW w \in DOMAIN val, NEW a \in Segment, NEW b \in Segment,
             Under(v, Append(l, a)), Under(w, Append(l, b)), KeyRank(a) < KeyRank(b)
      PROVE  Beats(v, w)
  BY <1>7, EarlierWins, Endpoints
<1>8. \A w : Under(w, w) BY DEF Under
<1>9. Tried(Find, l, p) = IF r(s) # None THEN r(s) ELSE IF r(Wild) # None THEN r(Wild) ELSE ValueAt(star)
  BY DEF Tried
<1> HIDE DEF s, q, r, star
<1>10. CASE r(s) # None
  <2>1. PICK w \in DOMAIN val :
           /\ Hit(w, Append(l, s), q) /\ r(s) = val[w]
           /\ \A v \in DOMAIN val : Hit(v, Append(l, s), q) => v = w \/ Beats(w, v)
    BY <1>5, <1>10 DEF Found
  <2>2. ASSUME NEW v \in DOMAIN val, Hit(v, l, p) PROVE v = w \/ Beats(w, v)
    <3>1. CASE Hit(v, Append(l, s), q) BY <2>1, <3>1
    <3>2. CASE Hit(v, Append(l, Wild), q)
      BY <1>1, <1>3, <1>4, <1>7, <2>1, <3>2 DEF Hit
    <3>3. CASE v = star
      <4>1. Under(v, Append(l, Rest)) BY <1>8, <3>3 DEF star
      <4>2. Under(w, Append(l, s)) BY <2>1 DEF Hit
      <4>3. Beats(w, v) BY <1>1, <1>3, <1>4, <1>7, <4>1, <4>2
      <4> QED BY <4>3
    <3> QED BY <1>6, <2>2, <3>1, <3>2, <3>3
  <2> QED BY <1>6, <1>9, <1>10, <2>1, <2>2 DEF Found
<1>11. CASE r(s) = None /\ r(Wild) # None
  <2>0. \A v \in DOMAIN val : ~Hit(v, Append(l, s), q) BY <1>5, <1>11, NoneIsNone
  <2>1. PICK w \in DOMAIN val :
           /\ Hit(w, Append(l, Wild), q) /\ r(Wild) = val[w]
           /\ \A v \in DOMAIN val : Hit(v, Append(l, Wild), q) => v = w \/ Beats(w, v)
    BY <1>5, <1>11 DEF Found
  <2>2. ASSUME NEW v \in DOMAIN val, Hit(v, l, p) PROVE v = w \/ Beats(w, v)
    <3>1. CASE Hit(v, Append(l, Wild), q) BY <2>1, <3>1
    <3>2. CASE v = star
      <4>1. Under(v, Append(l, Rest)) BY <1>8, <3>2 DEF star
      <4>2. Under(w, Append(l, Wild)) BY <2>1 DEF Hit
      <4>3. Beats(w, v) BY <1>3, <1>4, <1>7, <4>1, <4>2
      <4> QED BY <4>3
    <3> QED BY <1>6, <2>0, <2>2, <3>1, <3>2
  <2> QED BY <1>6, <1>9, <1>11, <2>1, <2>2 DEF Found
<1>12. CASE r(s) = None /\ r(Wild) = None
  <2>0. \A v \in DOMAIN val : ~Hit(v, Append(l, s), q) /\ ~Hit(v, Append(l, Wild), q)
    BY <1>5, <1>12, NoneIsNone
  <2>1. \A v \in DOMAIN val : Hit(v, l, p) <=> v = star BY <1>6, <2>0
  <2>2. Tried(Find, l, p) = IF star \in DOMAIN val THEN val[star] ELSE None BY <1>9, <1>12 DEF ValueAt
  <2> QED BY <2>1, <2>2 DEF Found
<1> QED BY <1>10, <1>11, <1>12

LEMMA FindFinds ==
  ASSUME TreeOK
  PROVE  \A at \in At : NoStars(at[2]) => Found(at[1], at[2], Find[at])
<1> DEFINE S == {n \in Nat : \A at \in At : Len(at[2]) = n /\ NoStars(at[2]) => Found(at[1], at[2], Find[at])}
<1>1. 0 \in S
  <2> SUFFICES ASSUME NEW at \in At, Len(at[2]) = 0 PROVE Found(at[1], at[2], Find[at]) OBVIOUS
  <2>1. at[2] = <<>> /\ at[1] \in Seq(Segment) BY EmptySeq DEF At
  <2>2. Find[at] = ValueAt(at[1]) BY <2>1, FindUnfolds DEF Call
  <2> QED BY <2>1, <2>2, EmptyPathFound
<1>2. ASSUME NEW n \in Nat, n \in S PROVE n + 1 \in S
  <2> SUFFICES ASSUME NEW at \in At, Len(at[2]) = n + 1, NoStars(at[2]) PROVE Found(at[1], at[2], Find[at]) OBVIOUS
  <2> DEFINE l == at[1]
             p == at[2]
  <2>1. l \in Seq(Segment) /\ p \in Seq(Segment) /\ p # <<>> BY EmptySeq DEF At
  <2>2. Find[at] = Tried(Find, l, p) BY <2>1, FindUnfolds DEF Call
  <2>3. Wild \in Segment /\ Head(p) \in Segment
    BY <2>1, HeadTailProperties, RouterAssumption DEF RouterAssumption
  <2>4. NoStars(Tail(p))
    <3>1. Tail(p) \in Seq(Segment) /\ Len(Tail(p)) = n /\ \A i \in 1..n : Tail(p)[i] = p[i + 1]
      BY <2>1, HeadTailProperties
    <3>2. DOMAIN Tail(p) = 1..n /\ DOMAIN p = 1..(n + 1) BY <2>1, <3>1, LenProperties
    <3>3. \A i \in 1..n : i + 1 \in 1..(n + 1) OBVIOUS
    <3> QED BY <3>1, <3>2, <3>3 DEF NoStars
  <2>5. ASSUME NEW k \in {Head(p), Wild}
        PROVE  Found(Append(l, k), Tail(p), Find[<<Append(l, k), Tail(p)>>])
    <3> DEFINE b == <<Append(l, k), Tail(p)>>
    <3>1. b \in At /\ Len(Tail(p)) = Len(p) - 1 BY <2>1, <2>3, Shorter
    <3>2. b[1] = Append(l, k) /\ b[2] = Tail(p) OBVIOUS
    <3> HIDE DEF b
    <3>3. Len(b[2]) = n BY <3>1, <3>2
    <3>4. Found(b[1], b[2], Find[b]) BY <1>2, <2>4, <3>1, <3>2, <3>3
    <3> QED BY <3>2, <3>4 DEF b
  <2> HIDE DEF l, p
  <2>6. NoStars(p) BY DEF p
  <2>7. Found(l, p, Tried(Find, l, p)) BY <2>1, <2>5, <2>6, TriedFound
  <2> QED BY <2>2, <2>7 DEF l, p
<1> HIDE DEF S
<1>3. Nat \subseteq S BY <1>1, <1>2, NatSet
<1> SUFFICES ASSUME NEW at \in At, NoStars(at[2]) PROVE Found(at[1], at[2], Find[at]) OBVIOUS
<1>4. Len(at[2]) \in Nat BY LenProperties DEF At
<1> QED BY <1>3, <1>4 DEF S

-----------------------------------------------------------------------------
(* The templates behind the keys. *)

(* Segments the router has a meaning of its own for are not sent, and no   *)
(* template has "*" for a literal: it would be stored like a parameter.    *)
NoStarSegments ==
  /\ \A p \in Paths : NoStars(p)
  /\ Methods \cap {Wild, Rest} = {}
  /\ \A t \in Template : Wild \notin ToSet(t)

LEMMA LinkFacts ==
  ASSUME NEW t \in Template
  PROVE  /\ t \in Seq(Segment) /\ Link(t) \in Seq(Segment) /\ Len(t) \in Nat \ {0}
         /\ Len(Link(t)) = Len(t) /\ DOMAIN t = 1..Len(t) /\ DOMAIN Link(t) = 1..Len(t)
         /\ \A i \in 1..Len(t) : Link(t)[i] = Key(t[i]) /\ t[i] \in Segment
<1>1. t \in Seq(Segment) /\ t # <<>> BY RouterAssumption DEF RouterAssumption
<1>2. Len(t) \in Nat \ {0} /\ DOMAIN t = 1..Len(t) BY <1>1, EmptySeq, LenProperties
<1>3. \A i \in 1..Len(t) : t[i] \in Segment BY <1>1, ElementOfSeq
<1>4. \A k \in Segment : Key(k) \in Segment BY RouterAssumption DEF RouterAssumption, Key
<1>5. Link(t) = [i \in 1..Len(t) |-> Key(t[i])] BY <1>2 DEF Link
<1>6. Link(t) \in [1..Len(t) -> Segment] BY <1>3, <1>4, <1>5
<1>7. Link(t) \in Seq(Segment) /\ Len(Link(t)) = Len(t) BY <1>2, <1>6, SeqDef, LenProperties
<1> QED BY <1>1, <1>2, <1>3, <1>5, <1>7

LEMMA Stars == Wild # Rest /\ Query # Wild /\ Query # Rest
BY DEF Wild, Rest, Query

LEMMA KeyFacts ==
  ASSUME NoStarSegments, NEW t \in Template, NEW i \in DOMAIN t
  PROVE  /\ Link(t)[i] = Rest <=> t[i] = Rest
         /\ Link(t)[i] = Wild <=> t[i] \in Param
         /\ t[i] \notin Param => Link(t)[i] = t[i]
         /\ KeyRank(Link(t)[i]) = Rank(t[i])
<1>1. Link(t)[i] = Key(t[i]) BY LinkFacts
<1>2. t[i] # Wild BY DEF NoStarSegments, ToSet
<1>3. Rest \notin Param BY RouterAssumption DEF RouterAssumption
<1> QED BY <1>1, <1>2, <1>3, Stars DEF Key, Rank, KeyRank

LEMMA FitsAlong ==
  ASSUME NoStarSegments, NEW t \in Template, NEW L \in Seq(Segment), NoStars(L)
  PROVE  Fits(t, L) <=> Along(Link(t), 0, L)
<1> DEFINE w == Link(t)
           n == Len(t)
           m == Len(L)
<1>1. n \in Nat \ {0} /\ m \in Nat /\ Len(w) = n /\ DOMAIN t = 1..n BY LinkFacts, LenProperties
<1>2. \A i \in 1..m : L[i] \notin {Wild, Rest} BY LenProperties DEF NoStars
<1>3. ASSUME NEW i \in 1..n PROVE /\ w[i] = Rest <=> t[i] = Rest
                                  /\ w[i] = Wild <=> t[i] \in Param
                                  /\ t[i] \notin Param => w[i] = t[i]
  BY <1>1, <1>3, KeyFacts
<1>4. ASSUME NEW i \in 1..n, i \in 1..m PROVE t[i] \in Param \cup {L[i]} <=> w[i] \in {L[i], Wild}
  BY <1>2, <1>3, <1>4
<1>5. Last(t) = t[n] BY DEF Last
<1> HIDE DEF w, n, m
<1>6. CASE t[n] = Rest
  <2>1. n \in 1..n /\ w[n] = Rest BY <1>1, <1>3, <1>6
  <2>2. Fits(t, L) <=> m > n - 1 /\ \A i \in 1..(n - 1) : t[i] \in Param \cup {L[i]}
    BY <1>5, <1>6 DEF Fits, n, m
  <2>3. ASSUME m > n - 1 PROVE n <= m BY <2>3, <1>1
  <2>4. ASSUME n <= m
        PROVE  (\A i \in 1..(n - 1) : t[i] \in Param \cup {L[i]}) <=>
               (\A i \in 1..(n - 1) : w[i] \in {L[i], Wild})
    <3>1. \A i \in 1..(n - 1) : i \in 1..n /\ i \in 1..m BY <2>4, <1>1
    <3> QED BY <3>1, <1>4
  <2>5. ASSUME n = 0 + m, \A i \in 1..m : w[0 + i] \in {L[i], Wild} PROVE FALSE
    <3>1. n \in 1..m /\ 0 + n = n BY <2>5, <1>1
    <3>2. w[n] \in {L[n], Wild} BY <2>5, <3>1
    <3> QED BY <3>1, <3>2, <2>1, <1>2, Stars
  <2>6. n \in (0 + 1)..(0 + m) <=> m > n - 1 BY <1>1
  <2>7. (\A i \in 1..(n - 0 - 1) : w[0 + i] \in {L[i], Wild}) <=> (\A i \in 1..(n - 1) : w[i] \in {L[i], Wild})
    <3>1. n - 0 - 1 = n - 1 BY <1>1
    <3>2. \A i \in 1..(n - 1) : 0 + i = i BY <1>1
    <3> QED BY <3>1, <3>2
  <2>8. Along(w, 0, L) <=> m > n - 1 /\ \A i \in 1..(n - 1) : w[i] \in {L[i], Wild}
    BY <1>1, <2>1, <2>5, <2>6, <2>7 DEF Along, m
  <2> QED BY <2>2, <2>3, <2>4, <2>8 DEF w
<1>7. CASE t[n] # Rest
  <2>1. n \in 1..n /\ w[n] # Rest BY <1>1, <1>3, <1>7
  <2>2. Fits(t, L) <=> m = n /\ \A i \in 1..n : t[i] \in Param \cup {L[i]}
    BY <1>5, <1>7 DEF Fits, n, m
  <2>3. ASSUME m = n
        PROVE  (\A i \in 1..n : t[i] \in Param \cup {L[i]}) <=> (\A i \in 1..m : w[0 + i] \in {L[i], Wild})
    <3>1. \A i \in 1..n : i \in 1..m /\ 0 + i = i BY <2>3, <1>1
    <3> QED BY <2>3, <3>1, <1>4
  <2>4. n = 0 + m <=> m = n BY <1>1
  <2>5. Along(w, 0, L) <=> m = n /\ \A i \in 1..m : w[0 + i] \in {L[i], Wild}
    BY <1>1, <2>1, <2>4 DEF Along, m
  <2> QED BY <2>2, <2>3, <2>5 DEF w
<1> QED BY <1>6, <1>7

LEMMA BeatsBetter ==
  ASSUME NoStarSegments, NEW t \in Template, NEW u \in Template
  PROVE  /\ Beats(Link(t), Link(u)) => Better(t, u)
         /\ Beats(Link(t), Link(u)) => ~Better(u, t)
         /\ Link(t) = Link(u) => ~Better(t, u)
<1>1. /\ DOMAIN t = 1..Len(t) /\ DOMAIN Link(t) = DOMAIN t /\ DOMAIN u = 1..Len(u) /\ DOMAIN Link(u) = DOMAIN u
      /\ Len(t) \in Nat /\ Len(u) \in Nat
  BY LinkFacts
<1>2. /\ \A i \in DOMAIN t : KeyRank(Link(t)[i]) = Rank(t[i])
      /\ \A i \in DOMAIN u : KeyRank(Link(u)[i]) = Rank(u[i])
  BY KeyFacts
<1>3. \A i \in DOMAIN t : Rank(t[i]) \in Nat BY DEF Rank
<1>3u. \A i \in DOMAIN u : Rank(u[i]) \in Nat BY DEF Rank
<1>4. ASSUME Beats(Link(t), Link(u)) PROVE Better(t, u) /\ ~Better(u, t)
  <2>1. PICK i \in DOMAIN t \cap DOMAIN u :
           /\ KeyRank(Link(t)[i]) < KeyRank(Link(u)[i])
           /\ \A j \in 1..i - 1 : Link(t)[j] = Link(u)[j]
    BY <1>1, <1>4 DEF Beats
  <2>2. \A j \in 1..i - 1 : j \in DOMAIN t \cap DOMAIN u BY <1>1
  <2>3. Rank(t[i]) < Rank(u[i]) /\ \A j \in 1..i - 1 : Rank(t[j]) = Rank(u[j])
    <3>1. Rank(t[i]) < Rank(u[i]) BY <1>2, <2>1
    <3>2. ASSUME NEW j \in 1..i - 1 PROVE Rank(t[j]) = Rank(u[j])
      <4>1. KeyRank(Link(t)[j]) = KeyRank(Link(u)[j]) BY <2>1
      <4> QED BY <1>2, <2>2, <4>1
    <3> QED BY <3>1, <3>2
  <2>4. Better(t, u) BY <2>3 DEF Better
  <2>5. ASSUME NEW h \in DOMAIN u \cap DOMAIN t, Rank(u[h]) < Rank(t[h]),
               \A j \in 1..h - 1 : Rank(u[j]) = Rank(t[j])
        PROVE  FALSE
    <3>1. CASE h < i
      <4>1. h \in 1..i - 1 BY <3>1, <1>1
      <4>2. Rank(t[h]) = Rank(u[h]) BY <4>1, <2>3
      <4> QED BY <4>2, <2>5, <1>3, <1>3u
    <3>2. CASE i < h
      <4>1. i \in 1..h - 1 BY <3>2, <1>1
      <4>2. Rank(u[i]) = Rank(t[i]) BY <4>1, <2>5
      <4> QED BY <4>2, <2>3, <1>3, <1>3u
    <3>3. CASE i = h BY <3>3, <2>3, <2>5, <1>3, <1>3u
    <3> QED BY <3>1, <3>2, <3>3, <1>1
  <2>6. ~Better(u, t) BY <2>5 DEF Better
  <2> QED BY <2>4, <2>6
<1>5. ASSUME Link(t) = Link(u) PROVE ~Better(t, u)
  <2>1. \A i \in DOMAIN t \cap DOMAIN u : Rank(t[i]) = Rank(u[i]) BY <1>2, <1>5
  <2>2. \A i \in DOMAIN t \cap DOMAIN u : ~(Rank(t[i]) < Rank(u[i])) BY <2>1, <1>3, <1>3u
  <2> QED BY <2>2 DEF Better
<1> QED BY <1>4, <1>5

(* The search finds what FindsBest asks for.                               *)
LEMMA FoundIsBest ==
  ASSUME NoStarSegments, TreeOK, NEW L \in Seq(Segment), NoStars(L), NEW r, Found(<<>>, L, r)
  PROVE  LET fits == {i \in DOMAIN added : Fits(added[i], L)}
             best == {i \in fits : \A j \in fits : ~Better(added[j], added[i])}
         IN  r = IF fits = {} THEN None ELSE added[Max(best)]
<1> DEFINE fits == {i \in DOMAIN added : Fits(added[i], L)}
           best == {i \in fits : \A j \in fits : ~Better(added[j], added[i])}
<1>1. \A i \in DOMAIN added : added[i] \in Template BY ElementOfSeq, LenProperties DEF TreeOK
<1>2. DOMAIN added \subseteq Nat BY LenProperties DEF TreeOK
<1>3. ASSUME NEW i \in DOMAIN added
      PROVE  /\ Link(added[i]) \in DOMAIN val
             /\ i \in fits <=> Hit(Link(added[i]), <<>>, L)
  <2>1. Link(added[i]) \in DOMAIN val BY DEF TreeOK
  <2>2. Under(Link(added[i]), <<>>)
    <3>1. Len(<<>>) = 0 /\ 1..Len(<<>>) = {} OBVIOUS
    <3>2. Len(Link(added[i])) \in Nat \ {0} BY <1>1, LinkFacts
    <3> QED BY <3>1, <3>2 DEF Under
  <2>3. Fits(added[i], L) <=> Along(Link(added[i]), 0, L) BY <1>1, FitsAlong
  <2>4. Len(<<>>) = 0 OBVIOUS
  <2> QED BY <2>1, <2>2, <2>3, <2>4 DEF Hit
<1> HIDE DEF fits
<1>4. CASE \E w \in DOMAIN val : Hit(w, <<>>, L)
  <2>1. PICK w \in DOMAIN val :
           /\ Hit(w, <<>>, L) /\ r = val[w]
           /\ \A v \in DOMAIN val : Hit(v, <<>>, L) => v = w \/ Beats(w, v)
    BY <1>4 DEF Found
  <2>2. PICK k \in DOMAIN added :
           /\ Link(added[k]) = w /\ val[w] = added[k]
           /\ \A i \in DOMAIN added : i > k => Link(added[i]) # w
    BY DEF TreeOK
  <2>3. k \in fits BY <1>3, <2>1, <2>2
  <2>4. ASSUME NEW j \in fits PROVE Link(added[j]) = w \/ Beats(w, Link(added[j]))
    <3>1. j \in DOMAIN added BY DEF fits
    <3> QED BY <1>3, <2>1, <2>4, <3>1
  <2>5. k \in best
    <3>1. ASSUME NEW j \in fits PROVE ~Better(added[j], added[k])
      <4>1. j \in DOMAIN added BY DEF fits
      <4> QED BY <1>1, <2>2, <2>4, <4>1, BeatsBetter
    <3> QED BY <2>3, <3>1
  <2>6. ASSUME NEW i \in best PROVE i \in Nat /\ k >= i
    <3>1. i \in DOMAIN added /\ i \in fits BY DEF fits
    <3>2. ~Better(added[k], added[i]) BY <2>3
    <3>3. ~Beats(w, Link(added[i])) BY <1>1, <2>2, <3>1, <3>2, BeatsBetter
    <3>4. Link(added[i]) = w BY <2>4, <3>1, <3>3
    <3>5. ~(i > k) BY <2>2, <3>1, <3>4
    <3> QED BY <1>2, <3>1, <3>5
  <2> HIDE DEF best
  <2>7. k \in Nat BY <1>2
  <2>8. \A x \in best : (\A y \in best : x >= y) => x = k BY <2>5, <2>6, <2>7
  <2>9. Max(best) = k BY <2>5, <2>6, <2>8 DEF Max
  <2> QED BY <2>1, <2>2, <2>3, <2>9 DEF best, fits
<1>5. CASE ~\E w \in DOMAIN val : Hit(w, <<>>, L)
  <2>1. fits = {} BY <1>3, <1>5 DEF fits
  <2>2. r = None BY <1>5 DEF Found
  <2> QED BY <2>1, <2>2 DEF fits
<1> QED BY <1>4, <1>5

-----------------------------------------------------------------------------
(* The tree and the requests. *)

LEMMA AddKeeps ==
  ASSUME TreeOK, NEW t \in Template, AddEndpoint(t)
  PROVE  TreeOK'
<1> DEFINE k == Link(t)
           n == Len(added)
<1>1. added \in Seq(Template) /\ n \in Nat /\ DOMAIN added = 1..n BY LenProperties DEF TreeOK
<1>2. /\ added' = Append(added, t) /\ nodes' = nodes \cup Prefixes(k) /\ val' = [l \in DOMAIN val \cup {k} |-> IF l = k THEN t ELSE val[l]]
  BY DEF AddEndpoint, Insert
<1>3. /\ added' \in Seq(Template) /\ DOMAIN added' = 1..(n + 1) /\ added'[n + 1] = t
      /\ \A i \in 1..n : added'[i] = added[i]
  BY <1>1, <1>2, AppendProperties, LenProperties
<1>4. /\ DOMAIN val' = {k} \cup DOMAIN val /\ val'[k] = t
      /\ \A w \in DOMAIN val : w # k => val'[w] = val[w]
  BY <1>2
<1>5. k \in Seq(Segment) BY LinkFacts
<1> HIDE DEF k, n
<1>6. DOMAIN val' \subseteq Seq(Segment) BY <1>4, <1>5 DEF TreeOK
<1>7. ASSUME NEW w \in DOMAIN val', NEW i \in 0..Len(w) PROVE SubSeq(w, 1, i) \in nodes'
  BY <1>2, <1>4, <1>7 DEF TreeOK, Prefixes
<1>8. ASSUME NEW w \in DOMAIN val'
      PROVE  \E j \in DOMAIN added' :
                /\ Link(added'[j]) = w /\ val'[w] = added'[j]
                /\ \A i \in DOMAIN added' : i > j => Link(added'[i]) # w
  <2>1. CASE w = k
    <3>1. n + 1 \in DOMAIN added' /\ \A i \in DOMAIN added' : ~(i > n + 1) BY <1>1, <1>3
    <3> QED BY <1>3, <1>4, <2>1, <3>1 DEF k
  <2>2. CASE w # k
    <3>1. w \in DOMAIN val /\ val'[w] = val[w] BY <1>4, <2>2
    <3>2. PICK j \in 1..n :
             /\ Link(added[j]) = w /\ val[w] = added[j]
             /\ \A i \in 1..n : i > j => Link(added[i]) # w
      BY <1>1, <3>1 DEF TreeOK
    <3>3. j \in DOMAIN added' BY <1>1, <1>3
    <3>4. ASSUME NEW i \in DOMAIN added', i > j PROVE Link(added'[i]) # w
      <4>1. CASE i = n + 1 BY <4>1, <1>3, <2>2 DEF k
      <4>2. CASE i # n + 1
        <5>1. i \in 1..n BY <4>2, <1>1, <1>3
        <5> QED BY <5>1, <1>3, <3>2, <3>4
      <4> QED BY <4>1, <4>2
    <3> QED BY <1>3, <3>1, <3>2, <3>3, <3>4
  <2> QED BY <2>1, <2>2
<1>9. ASSUME NEW j \in DOMAIN added' PROVE Link(added'[j]) \in DOMAIN val'
  <2>1. CASE j = n + 1 BY <2>1, <1>3, <1>4 DEF k
  <2>2. CASE j # n + 1
    <3>1. j \in 1..n BY <2>2, <1>1, <1>3
    <3> QED BY <3>1, <1>1, <1>3, <1>4 DEF TreeOK
  <2> QED BY <2>1, <2>2
<1>10. /\ \A w \in DOMAIN val' : \A i \in 0..Len(w) : SubSeq(w, 1, i) \in nodes'
       /\ \A j \in DOMAIN added' : Link(added'[j]) \in DOMAIN val'
  BY <1>7, <1>9
<1>11. \A w \in DOMAIN val' : \E j \in DOMAIN added' :
          /\ Link(added'[j]) = w /\ val'[w] = added'[j]
          /\ \A i \in DOMAIN added' : i > j => Link(added'[i]) # w
  BY <1>8
<1>12. \A j : Link(added'[j]) = Link(added[j])' BY DEF Link
<1> QED BY <1>3, <1>6, <1>10, <1>11, <1>12 DEF TreeOK, Link

RequestOK ==
  request # NoRequest =>
    /\ phase = "serve"
    /\ request \in [method : Methods, path : Paths, query : BOOLEAN]

LEMMA LinkOfRequest ==
  ASSUME NoStarSegments, NEW r \in [method : Methods, path : Paths, query : BOOLEAN]
  PROVE  FindLink(r) \in Seq(Segment) /\ NoStars(FindLink(r))
<1> DEFINE a == <<r.method>>
           b == IF r.query THEN <<Query>> ELSE <<>>
           T == Segment \ {Wild, Rest}
<1>1. a \in Seq(T) BY ServingAssumption DEF ServingAssumption, NoStarSegments
<1>2. b \in Seq(T)
  <2>1. Query \in T BY Stars, RouterAssumption DEF RouterAssumption
  <2>2. <<Query>> \in Seq(T) BY <2>1
  <2>3. <<>> \in Seq(T) BY EmptySeq
  <2> QED BY <2>2, <2>3
<1>3. r.path \in Seq(T)
  <2>1. r.path \in Paths /\ r.path \in Seq(Segment) BY ServingAssumption DEF ServingAssumption
  <2>2. NoStars(r.path) BY <2>1 DEF NoStarSegments
  <2>3. \A i \in 1..Len(r.path) : r.path[i] \in T BY <2>1, <2>2, ElementOfSeq, LenProperties DEF NoStars
  <2> HIDE DEF T
  <2>4. r.path \in [1..Len(r.path) -> T] /\ Len(r.path) \in Nat BY <2>1, <2>3, LenProperties
  <2> QED BY <2>4, SeqDef
<1>4. FindLink(r) = a \o r.path \o b BY DEF FindLink
<1> HIDE DEF a, b, T
<1>5. FindLink(r) \in Seq(T) BY <1>1, <1>2, <1>3, <1>4, ConcatProperties
<1>6. \A i \in DOMAIN FindLink(r) : FindLink(r)[i] \in T BY <1>5, ElementOfSeq, LenProperties
<1>7. FindLink(r) \in Seq(Segment)
  <2>1. T \subseteq Segment BY DEF T
  <2> QED BY <1>5, <2>1, SeqMonotonic
<1> QED BY <1>6, <1>7 DEF NoStars, T

RouteInv == TreeOK /\ RequestOK /\ FindsBest

LEMMA FindsBestAfter ==
  ASSUME NoStarSegments, TreeOK, NEW r \in [method : Methods, path : Paths, query : BOOLEAN],
         request' = r, route' = Find[<< <<>>, FindLink(r) >>], added' = added
  PROVE  FindsBest'
<1> DEFINE L == FindLink(r)
           at == << <<>>, L >>
           fits == {i \in DOMAIN added : Fits(added[i], L)}
           best == {i \in fits : \A j \in fits : ~Better(added[j], added[i])}
<1>1. L \in Seq(Segment) /\ NoStars(L) BY LinkOfRequest
<1>2. <<>> \in Seq(Segment) BY EmptySeq
<1> HIDE DEF L
<1>3. at \in At /\ at[1] = <<>> /\ at[2] = L BY <1>1, <1>2 DEF At
<1>4. Found(at[1], at[2], Find[at]) BY <1>1, <1>3, FindFinds
<1>5. Found(<<>>, L, Find[at]) BY <1>3, <1>4
<1>6. Find[at] = IF fits = {} THEN None ELSE added[Max(best)] BY <1>1, <1>5, FoundIsBest
<1>7. route' = Find[at] BY DEF L
<1> HIDE DEF at
<1>8. route' = IF fits = {} THEN None ELSE added[Max(best)] BY <1>6, <1>7
<1>9. FindLink(request') = L BY DEF L
<1> QED BY <1>8, <1>9 DEF FindsBest

LEMMA RouteKept ==
  ASSUME NoStarSegments
  PROVE  Spec => []RouteInv
<1>1. Init => RouteInv
  <2> SUFFICES ASSUME Init PROVE RouteInv OBVIOUS
  <2>1. added = <<>> /\ val = << >> /\ request = NoRequest BY DEF Init, RouterInit
  <2>2. DOMAIN added = {} /\ DOMAIN val = {} /\ added \in Seq(Template) BY <2>1, EmptySeq
  <2> QED BY <2>1, <2>2 DEF RouteInv, TreeOK, RequestOK, FindsBest
<1>2. RouteInv /\ [Next]_vars => RouteInv'
  <2> SUFFICES ASSUME RouteInv, [Next]_vars PROVE RouteInv' OBVIOUS
  <2>0. TreeOK /\ RequestOK /\ FindsBest BY DEF RouteInv
  <2>1. ASSUME UNCHANGED routerVars PROVE TreeOK'
    BY <2>0, <2>1 DEF routerVars, TreeOK, Link
  <2>2. ASSUME UNCHANGED <<request, route, added>> PROVE FindsBest'
    BY <2>0, <2>2 DEF FindsBest
  <2>3. CASE Setup
    <3>1. UNCHANGED <<request, route>> /\ phase = "setup" BY <2>3 DEF Setup
    <3>2. request = NoRequest BY <2>0, <3>1 DEF RequestOK
    <3>3. RequestOK' /\ FindsBest' BY <3>1, <3>2 DEF RequestOK, FindsBest
    <3>4. TreeOK' BY <2>0, <2>1, <2>3, AddKeeps DEF Setup
    <3> QED BY <3>3, <3>4 DEF RouteInv
  <2>4. ASSUME NEW m \in Methods, NEW p \in Paths, NEW q \in BOOLEAN, Request(m, p, q) PROVE RouteInv'
    <3> DEFINE r == [method |-> m, path |-> p, query |-> q]
    <3>1. /\ request' = r /\ route' = Find[<< <<>>, FindLink(request') >>]
          /\ phase = "serve" /\ UNCHANGED <<routerVars, phase>>
      BY <2>4, Zenon DEF Request
    <3>2. r \in [method : Methods, path : Paths, query : BOOLEAN] OBVIOUS
    <3> HIDE DEF r
    <3>3. RequestOK' BY <3>1, <3>2 DEF RequestOK
    <3>4. added' = added BY <3>1 DEF routerVars
    <3>5. FindsBest' BY <2>0, <3>1, <3>2, <3>4, FindsBestAfter
    <3> QED BY <2>1, <3>1, <3>3, <3>5 DEF RouteInv
  <2>5. CASE Serve
    BY <2>0, <2>1, <2>2, <2>5 DEF Serve, RouteInv, RequestOK, routerVars
  <2>6. CASE UNCHANGED vars
    BY <2>0, <2>1, <2>2, <2>6 DEF vars, RouteInv, RequestOK, routerVars
  <2> QED BY <2>3, <2>4, <2>5, <2>6 DEF Next
<1> QED BY <1>1, <1>2, PTL DEF Spec

(* The endpoint of a request is that of the best template that fits it,    *)
(* whatever templates were added in whatever order: the search with its    *)
(* way back misses none and prefers none that is worse (RouterTree::_find, *)
(* ConnectionHandler).                                                     *)
THEOREM FindsTheBest ==
  ASSUME NoStarSegments
  PROVE  Spec => []FindsBest
<1>1. RouteInv => FindsBest BY DEF RouteInv
<1> QED BY <1>1, RouteKept, PTL

-----------------------------------------------------------------------------
(* Parameters. *)

Before(t, i) == {j \in 1..i : t[j] \in Param}
Nth(t, i) == Cardinality(Before(t, i))

LEMMA NthGrows ==
  ASSUME NEW t, NEW i \in Nat
  PROVE  /\ Nth(t, i) \in Nat /\ Nth(t, 0) = 0
         /\ Nth(t, i + 1) = IF t[i + 1] \in Param THEN Nth(t, i) + 1 ELSE Nth(t, i)
<1>1. IsFiniteSet(1..i) /\ Before(t, i) \subseteq 1..i BY FS_Interval DEF Before
<1>2. IsFiniteSet(Before(t, i)) /\ Nth(t, i) \in Nat BY <1>1, FS_Subset, FS_CardinalityType DEF Nth
<1>3. Before(t, 0) = {} BY DEF Before
<1>4. Nth(t, 0) = 0 BY <1>3, FS_EmptySet DEF Nth
<1>5. CASE t[i + 1] \in Param
  <2>1. Before(t, i + 1) = Before(t, i) \cup {i + 1} BY <1>5 DEF Before
  <2>2. i + 1 \notin Before(t, i) BY DEF Before
  <2>3. Nth(t, i + 1) = Nth(t, i) + 1 BY <1>2, <2>1, <2>2, FS_AddElement DEF Nth
  <2> QED BY <1>2, <1>4, <1>5, <2>3
<1>6. CASE t[i + 1] \notin Param
  <2>1. Before(t, i + 1) = Before(t, i) BY <1>6 DEF Before
  <2> QED BY <1>2, <1>4, <1>6, <2>1 DEF Nth
<1> QED BY <1>5, <1>6

(* One round of the loop of getPathWildcardAnalysisArr.                    *)
Round(f, t, i) ==
  IF i = 0 THEN <<>> ELSE IF t[i + 1] \in Param THEN Append(f[i - 1], i) ELSE f[i - 1]

LEMMA LoopRuns ==
  ASSUME NEW t, NEW n \in Nat
  PROVE  \E f : f = [i \in 0..n |-> Round(f, t, i)]
<1> DEFINE S == {m \in Nat : \E f : \A i \in 0..m : f[i] = Round(f, t, i)}
<1>1. 0 \in S
  <2> DEFINE f == [i \in {0} |-> <<>>]
  <2>1. \A i \in 0..0 : f[i] = Round(f, t, i) BY DEF Round
  <2> HIDE DEF f
  <2> QED BY <2>1
<1>2. ASSUME NEW m \in Nat, m \in S PROVE m + 1 \in S
  <2>1. PICK f : \A i \in 0..m : f[i] = Round(f, t, i) BY <1>2
  <2> DEFINE g == [i \in 0..(m + 1) |-> IF i = m + 1 THEN Round(f, t, m + 1) ELSE f[i]]
  <2>2. \A i \in 0..m : g[i] = f[i] OBVIOUS
  <2>3. g[m + 1] = Round(f, t, m + 1) OBVIOUS
  <2> HIDE DEF g
  <2>4. ASSUME NEW i \in 0..(m + 1) PROVE g[i] = Round(g, t, i)
    <3>1. ASSUME i # 0 PROVE i - 1 \in 0..m /\ g[i - 1] = f[i - 1] BY <2>2, <3>1
    <3>2. Round(g, t, i) = Round(f, t, i) BY <3>1 DEF Round
    <3>3. CASE i = m + 1 BY <2>3, <3>2, <3>3
    <3>4. CASE i # m + 1
      <4>1. i \in 0..m BY <3>4
      <4> QED BY <4>1, <2>1, <2>2, <3>2
    <3> QED BY <3>3, <3>4
  <2> QED BY <2>4
<1> HIDE DEF S
<1>3. n \in S BY <1>1, <1>2, NatSet
<1>4. PICK f : \A i \in 0..n : f[i] = Round(f, t, i) BY <1>3 DEF S
<1> DEFINE g == [i \in 0..n |-> f[i]]
<1>5. \A i \in 0..n : g[i] = f[i] OBVIOUS
<1>6. g = [i \in 0..n |-> g[i]] OBVIOUS
<1> HIDE DEF g
<1>7. ASSUME NEW i \in 0..n PROVE g[i] = Round(g, t, i)
  <2>1. i # 0 => i - 1 \in 0..n OBVIOUS
  <2>2. Round(g, t, i) = Round(f, t, i) BY <1>5, <2>1 DEF Round
  <2> QED BY <1>4, <1>5, <2>2
<1>8. g = [i \in 0..n |-> Round(g, t, i)] BY <1>6, <1>7
<1> QED BY <1>8

(* The index of a parameter stands at its place among the parameters.      *)
LEMMA IndexArrIs ==
  ASSUME NEW t \in Template
  PROVE  /\ IndexArr(t) \in Seq(Nat)
         /\ \A i \in 2..Len(t) : t[i] \in Param =>
              Nth(t, i) \in DOMAIN IndexArr(t) /\ IndexArr(t)[Nth(t, i)] = i - 1
<1> DEFINE n == Len(t) - 1
           P(f) == f = [i \in 0..n |-> Round(f, t, i)]
           f == CHOOSE g : P(g)
<1>0. Len(t) \in Nat \ {0} BY LinkFacts
<1>1. n \in Nat BY <1>0
<1>2. IndexArr(t) = f[n] BY Zenon DEF IndexArr, Round
<1>3. \E g : P(g) BY <1>1, LoopRuns
<1> HIDE DEF P
<1>4. P(f) BY <1>3, Zenon
<1> HIDE DEF f, n
<1>5. f = [i \in 0..n |-> Round(f, t, i)] BY <1>4 DEF P
<1>6. \A i \in 0..n : f[i] = Round(f, t, i)
  <2> DEFINE g == [i \in 0..n |-> Round(f, t, i)]
  <2>1. \A i \in 0..n : g[i] = Round(f, t, i) OBVIOUS
  <2>2. f = g BY <1>5
  <2> HIDE DEF g
  <2> QED BY <2>1, <2>2
<1> DEFINE Good(i) ==
             /\ f[i] \in Seq(Nat) /\ Len(f[i]) = Nth(t, i + 1)
             /\ \A x \in 1..i : t[x + 1] \in Param =>
                  Nth(t, x + 1) \in 1..Nth(t, i + 1) /\ f[i][Nth(t, x + 1)] = x
           S == {i \in Nat : i <= n => Good(i)}
<1>7. 0 \in S
  <2>1. f[0] = <<>> BY <1>1, <1>6 DEF Round
  <2>2. t[1] \notin Param BY RouterAssumption DEF RouterAssumption
  <2>3. 0 + 1 = 1 OBVIOUS
  <2>4. Nth(t, 0 + 1) = 0
    <3>1. Nth(t, 0) = 0 /\ Nth(t, 0 + 1) = IF t[0 + 1] \in Param THEN Nth(t, 0) + 1 ELSE Nth(t, 0)
      BY NthGrows
    <3> QED BY <2>2, <2>3, <3>1
  <2>5. <<>> \in Seq(Nat) /\ Len(<<>>) = 0 /\ 1..0 = {} BY EmptySeq
  <2> QED BY <2>1, <2>4, <2>5
<1>8. ASSUME NEW i \in Nat, i \in S PROVE i + 1 \in S
  <2> SUFFICES ASSUME i + 1 <= n PROVE Good(i + 1) OBVIOUS
  <2> DEFINE c == Nth(t, i + 1)
             d == Nth(t, (i + 1) + 1)
  <2>1. Good(i)
    <3>1. i <= n BY <1>1
    <3> QED BY <3>1, <1>8
  <2>2. c \in Nat /\ d = IF t[(i + 1) + 1] \in Param THEN c + 1 ELSE c
    <3>1. i + 1 \in Nat OBVIOUS
    <3> QED BY <3>1, NthGrows
  <2>3. f[i + 1] = IF t[(i + 1) + 1] \in Param THEN Append(f[i], i + 1) ELSE f[i]
    <3>1. i + 1 \in 0..n /\ i + 1 # 0 /\ (i + 1) - 1 = i BY <1>1
    <3>2. f[i + 1] = Round(f, t, i + 1) BY <1>6, <3>1
    <3>3. Round(f, t, i + 1) = IF t[(i + 1) + 1] \in Param THEN Append(f[(i + 1) - 1], i + 1) ELSE f[(i + 1) - 1]
      BY <3>1 DEF Round
    <3> QED BY <3>1, <3>2, <3>3
  <2>4. /\ f[i] \in Seq(Nat) /\ Len(f[i]) = c
        /\ \A x \in 1..i : t[x + 1] \in Param => Nth(t, x + 1) \in 1..c /\ f[i][Nth(t, x + 1)] = x
    BY <2>1
  <2> DEFINE s == f[i]
             u == f[i + 1]
  <2> HIDE DEF Good, S, c, d
  <2>5. CASE t[(i + 1) + 1] \in Param
    <3>1. u = Append(s, i + 1) /\ d = c + 1 BY <2>2, <2>3, <2>5
    <3> HIDE DEF s, u
    <3>2. s \in Seq(Nat) /\ Len(s) = c BY <2>4 DEF s
    <3>3. u \in Seq(Nat) /\ Len(u) = d /\ u[d] = i + 1 /\ \A x \in 1..c : u[x] = s[x]
      BY <3>1, <3>2, AppendProperties
    <3>4. ASSUME NEW x \in 1..(i + 1), t[x + 1] \in Param PROVE Nth(t, x + 1) \in 1..d /\ u[Nth(t, x + 1)] = x
      <4>1. CASE x = i + 1
        <5>1. Nth(t, x + 1) = d BY <4>1 DEF d
        <5> QED BY <4>1, <5>1, <3>1, <3>3, <2>2
      <4>2. CASE x # i + 1
        <5>1. x \in 1..i BY <4>2
        <5>2. Nth(t, x + 1) \in 1..c /\ s[Nth(t, x + 1)] = x BY <5>1, <2>4, <3>4 DEF s
        <5> QED BY <5>2, <3>1, <3>3, <2>2
      <4> QED BY <4>1, <4>2
    <3> QED BY <3>3, <3>4 DEF Good, d, u
  <2>6. CASE t[(i + 1) + 1] \notin Param
    <3>1. u = s /\ d = c BY <2>2, <2>3, <2>6
    <3>4. ASSUME NEW x \in 1..(i + 1), t[x + 1] \in Param PROVE Nth(t, x + 1) \in 1..d /\ u[Nth(t, x + 1)] = x
      <4>1. x # i + 1 BY <2>6, <3>4
      <4>2. x \in 1..i BY <4>1
      <4> QED BY <4>2, <2>4, <3>1, <3>4
    <3> QED BY <2>4, <3>1, <3>4 DEF Good, d, u
  <2> QED BY <2>5, <2>6
<1> HIDE DEF S
<1>9. n \in S BY <1>1, <1>7, <1>8, NatSet
<1>10. Good(n) BY <1>1, <1>9 DEF S
<1>11. \A i \in 2..Len(t) : i - 1 \in 1..n /\ (i - 1) + 1 = i BY <1>0 DEF n
<1>12. DOMAIN f[n] = 1..Nth(t, n + 1) BY <1>10, LenProperties
<1> QED
  <2>1. IndexArr(t) \in Seq(Nat) BY <1>2, <1>10
  <2>2. ASSUME NEW i \in 2..Len(t), t[i] \in Param
        PROVE  Nth(t, i) \in DOMAIN IndexArr(t) /\ IndexArr(t)[Nth(t, i)] = i - 1
    <3>1. i - 1 \in 1..n /\ t[(i - 1) + 1] \in Param /\ (i - 1) + 1 = i BY <1>11, <2>2
    <3>2. Nth(t, (i - 1) + 1) \in 1..Nth(t, n + 1) /\ f[n][Nth(t, (i - 1) + 1)] = i - 1
      BY <1>10, <3>1
    <3> QED BY <1>2, <1>12, <3>1, <3>2
  <2> QED BY <2>1, <2>2

(* What is found is the template of an endpoint, and it fits.              *)
LEMMA FoundFits ==
  ASSUME NoStarSegments, TreeOK, NEW L \in Seq(Segment), NoStars(L), NEW r, Found(<<>>, L, r), r # None
  PROVE  r \in Template /\ Fits(r, L)
<1>1. PICK w \in DOMAIN val : Hit(w, <<>>, L) /\ r = val[w] BY DEF Found
<1>2. PICK k \in DOMAIN added : Link(added[k]) = w /\ val[w] = added[k] BY DEF TreeOK
<1>3. r \in Template /\ Link(r) = w BY <1>1, <1>2, ElementOfSeq, LenProperties DEF TreeOK
<1>4. Len(<<>>) = 0 OBVIOUS
<1>5. Along(Link(r), 0, L) BY <1>1, <1>3, <1>4 DEF Hit
<1> QED BY <1>3, <1>5, FitsAlong

FixedOf(t) == IF Last(t) = Rest THEN Front(t) ELSE t
Filled(t, path) ==
  [i \in DOMAIN FixedOf(t) |->
     IF FixedOf(t)[i] \in Param THEN WildcarData(t, path)[Nth(FixedOf(t), i)] ELSE FixedOf(t)[i]]

LEMMA FixedFacts ==
  ASSUME NEW t \in Template
  PROVE  LET n == IF Last(t) = Rest THEN Len(t) - 1 ELSE Len(t)
         IN  /\ FixedOf(t) \in Seq(Segment) /\ Len(FixedOf(t)) = n /\ DOMAIN FixedOf(t) = 1..n
             /\ \A i \in 1..n : FixedOf(t)[i] = t[i]
             /\ n \in Nat \ {0} /\ n <= Len(t)
             /\ \A i \in 1..n : Nth(FixedOf(t), i) = Nth(t, i)
<1> DEFINE n == IF Last(t) = Rest THEN Len(t) - 1 ELSE Len(t)
           f == FixedOf(t)
<1>1. t \in Seq(Segment) /\ Len(t) \in Nat \ {0} BY LinkFacts
<1>2. n \in Nat /\ n <= Len(t) BY <1>1
<1>3. n # 0
  <2>1. t[1] # Rest BY RouterAssumption DEF RouterAssumption
  <2> QED BY <1>1, <2>1 DEF Last
<1>4. f \in Seq(Segment) /\ Len(f) = n /\ \A i \in 1..n : f[i] = t[i]
  <2>1. CASE Last(t) = Rest
    <3>1. f = SubSeq(t, 1, n) /\ n = Len(t) - 1 BY <2>1 DEF FixedOf, Front
    <3>2. \A i \in 1..n : t[i] \in Segment BY <1>1, <1>2, ElementOfSeq
    <3> HIDE DEF f, n
    <3>3. f \in Seq(Segment) /\ Len(f) = n /\ \A i \in 1..n : f[i] = t[i]
      <4>1. n \in Int /\ 1 \in Int /\ 1 <= n BY <1>2, <1>3
      <4>2. /\ SubSeq(t, 1, n) \in Seq(Segment)
            /\ Len(SubSeq(t, 1, n)) = IF 1 <= n THEN n - 1 + 1 ELSE 0
            /\ \A i \in 1..(n - 1 + 1) : SubSeq(t, 1, n)[i] = t[1 + i - 1]
        BY <3>2, <4>1, SubSeqProperties
      <4>3. n - 1 + 1 = n /\ \A i \in 1..n : 1 + i - 1 = i BY <4>1
      <4> QED BY <3>1, <4>1, <4>2, <4>3
    <3> QED BY <3>3
  <2>2. CASE Last(t) # Rest BY <1>1, <2>2 DEF FixedOf
  <2> QED BY <2>1, <2>2
<1> HIDE DEF f, n
<1>5. DOMAIN f = 1..n BY <1>4, LenProperties
<1>6. ASSUME NEW i \in 1..n PROVE Nth(f, i) = Nth(t, i)
  <2>1. \A j \in 1..i : f[j] = t[j] BY <1>2, <1>4
  <2>2. Before(f, i) = Before(t, i) BY <2>1 DEF Before
  <2> QED BY <2>2 DEF Nth
<1> QED BY <1>2, <1>3, <1>4, <1>5, <1>6 DEF f, n

(* A template that fits is filled in to the path it fits.                  *)
LEMMA FilledIsPath ==
  ASSUME NEW t \in Template, NEW m \in Segment, NEW p \in Seq(Segment), Fits(t, <<m>> \o p)
  PROVE  <<m>> \o p = Filled(t, p) \o UrlWildcard(t, p)
<1> DEFINE L == <<m>> \o p
           n == IF Last(t) = Rest THEN Len(t) - 1 ELSE Len(t)
           f == FixedOf(t)
           a == Filled(t, p)
           b == UrlWildcard(t, p)
           c == Len(p)
<1>1. c \in Nat /\ DOMAIN p = 1..c BY LenProperties
<1>2. L \in Seq(Segment) /\ Len(L) = c + 1 /\ L[1] = m /\ \A i \in 2..(c + 1) : L[i] = p[i - 1]
  <2>1. <<m>> \in Seq(Segment) /\ Len(<<m>>) = 1 /\ <<m>>[1] = m OBVIOUS
  <2>2. L \in Seq(Segment) /\ Len(L) = 1 + c BY <2>1, ConcatProperties
  <2>3. \A i \in 1..(1 + c) : L[i] = IF i <= 1 THEN <<m>>[i] ELSE p[i - 1]
    BY <2>1, ConcatProperties
  <2>4. L[1] = m BY <2>1, <2>3, <1>1
  <2>5. \A i \in 2..(c + 1) : L[i] = p[i - 1] BY <2>3, <1>1
  <2> QED BY <2>2, <2>4, <2>5, <1>1
<1>3. /\ f \in Seq(Segment) /\ Len(f) = n /\ DOMAIN f = 1..n /\ n \in Nat \ {0} /\ n <= Len(t)
      /\ \A i \in 1..n : f[i] = t[i] /\ Nth(f, i) = Nth(t, i)
  BY FixedFacts
<1>4. /\ IF Last(t) = Rest THEN Len(L) > n ELSE Len(L) = n
      /\ \A i \in 1..n : t[i] \in Param \cup {L[i]}
  BY DEF Fits
<1>5. Len(t) \in Nat BY LinkFacts
<1>6. n <= c + 1 BY <1>1, <1>2, <1>3, <1>4
<1> HIDE DEF L, n
<1>7. ASSUME NEW i \in 1..n PROVE a[i] = L[i]
  <2>1. a[i] = IF f[i] \in Param THEN WildcarData(t, p)[Nth(f, i)] ELSE f[i]
    BY <1>3 DEF Filled
  <2>2. CASE t[i] \notin Param BY <2>1, <2>2, <1>3, <1>4
  <2>3. CASE t[i] \in Param
    <3>1. i # 1 BY <2>3, RouterAssumption DEF RouterAssumption
    <3>2. i \in 2..Len(t) /\ i \in 2..(c + 1) /\ i - 1 \in 1..c BY <3>1, <1>1, <1>3, <1>5, <1>6
    <3>3. Nth(t, i) \in DOMAIN IndexArr(t) /\ IndexArr(t)[Nth(t, i)] = i - 1 BY <2>3, <3>2, IndexArrIs
    <3>4. WildcarData(t, p)[Nth(t, i)] = p[i - 1] BY <3>2, <3>3, <1>1 DEF WildcarData
    <3>5. L[i] = p[i - 1] BY <1>2, <3>2
    <3> QED BY <2>1, <2>3, <3>4, <3>5, <1>3
  <2> QED BY <2>2, <2>3
<1>8. \A i \in 1..n : L[i] \in Segment BY <1>2, <1>6, <1>1, <1>3, ElementOfSeq
<1>9. a \in Seq(Segment) /\ Len(a) = n
  <2>1. DOMAIN a = 1..n /\ a = [i \in 1..n |-> a[i]] BY <1>3 DEF Filled
  <2> HIDE DEF a
  <2>2. a \in [1..n -> Segment] BY <1>7, <1>8, <2>1
  <2> QED BY <2>2, <1>3, SeqDef, LenProperties
<1> HIDE DEF a
<1>10. CASE Last(t) = Rest
  <2>1. n = Len(t) - 1 BY <1>10 DEF n
  <2>2. b = SubSeq(p, n, c) BY <1>10, <2>1 DEF UrlWildcard
  <2>3. \A i \in n..c : p[i] \in Segment BY <1>1, <1>3, ElementOfSeq
  <2>4. n <= c BY <1>1, <1>2, <1>3, <1>4, <1>10
  <2> HIDE DEF b, c
  <2>5. b \in Seq(Segment) /\ Len(b) = c - n + 1 /\ \A i \in 1..(c - n + 1) : b[i] = p[n + i - 1]
    BY <1>1, <1>3, <2>2, <2>3, <2>4, SubSeqProperties
  <2>6. a \o b \in Seq(Segment) /\ Len(a \o b) = c + 1
    <3>1. a \o b \in Seq(Segment) /\ Len(a \o b) = Len(a) + Len(b) BY <1>9, <2>5, ConcatProperties
    <3> QED BY <3>1, <1>1, <1>3, <1>9, <2>5
  <2>7. \A i \in 1..(Len(a) + Len(b)) : (a \o b)[i] = IF i <= Len(a) THEN a[i] ELSE b[i - Len(a)]
    BY <1>9, <2>5, ConcatProperties
  <2>8. ASSUME NEW i \in 1..(c + 1) PROVE (a \o b)[i] = L[i]
    <3>1. i \in 1..(Len(a) + Len(b)) BY <1>1, <1>3, <1>9, <2>5
    <3>2. (a \o b)[i] = IF i <= n THEN a[i] ELSE b[i - n] BY <3>1, <2>7, <1>9
    <3>3. CASE i <= n
      <4>1. i \in 1..n BY <3>3
      <4> QED BY <4>1, <3>2, <3>3, <1>7
    <3>4. CASE ~(i <= n)
      <4>1. i - n \in 1..(c - n + 1) /\ n + (i - n) - 1 = i - 1 /\ i \in 2..(c + 1) BY <3>4, <1>1, <1>3
      <4>2. b[i - n] = p[n + (i - n) - 1] BY <4>1, <2>5
      <4>3. b[i - n] = p[i - 1] BY <4>1, <4>2
      <4>4. L[i] = p[i - 1] BY <4>1, <1>2
      <4> QED BY <3>2, <3>4, <4>3, <4>4
    <3> QED BY <3>3, <3>4
  <2>9. L = a \o b BY <1>2, <2>6, <2>8, SeqEqual
  <2> QED BY <2>9 DEF L, a, b
<1>11. CASE Last(t) # Rest
  <2>1. b = <<>> BY <1>11 DEF UrlWildcard
  <2>2. Len(L) = n BY <1>4, <1>11
  <2>3. a = L BY <1>2, <1>7, <1>9, <2>2, SeqEqual
  <2>4. a \o b = a BY <1>9, <2>1, ConcatEmptySeq
  <2> QED BY <2>3, <2>4 DEF L, a, b
<1> QED BY <1>10, <1>11

ParamsInv == TreeOK /\ RequestOK /\ ParamsRebuildPath

LEMMA ParamsAfter ==
  ASSUME NoStarSegments, TreeOK, NEW r \in [method : Methods, path : Paths, query : BOOLEAN],
         request' = r, route' = Find[<< <<>>, FindLink(r) >>],
         data' = IF route' = None THEN <<>> ELSE WildcarData(route', r.path),
         rest' = IF route' = None THEN <<>> ELSE UrlWildcard(route', r.path)
  PROVE  ParamsRebuildPath'
<1> DEFINE L == FindLink(r)
           at == << <<>>, L >>
           t == Find[at]
<1> SUFFICES ASSUME t # None, ~r.query PROVE ParamsRebuildPath'
  BY DEF ParamsRebuildPath
<1>1. L \in Seq(Segment) /\ NoStars(L) BY LinkOfRequest
<1>2. <<>> \in Seq(Segment) BY EmptySeq
<1>3. r.method \in Segment /\ r.path \in Seq(Segment) BY ServingAssumption DEF ServingAssumption
<1>4. L = <<r.method>> \o r.path
  <2>1. L = <<r.method>> \o r.path \o <<>> BY DEF FindLink
  <2>2. <<r.method>> \in Seq(Segment) BY <1>3
  <2>3. <<r.method>> \o r.path \in Seq(Segment) BY <1>3, <2>2, ConcatProperties
  <2> QED BY <2>1, <2>3, ConcatEmptySeq
<1>5. route' = t /\ data' = WildcarData(t, r.path) /\ rest' = UrlWildcard(t, r.path) OBVIOUS
<1> HIDE DEF L
<1>6. at \in At /\ at[1] = <<>> /\ at[2] = L BY <1>1, <1>2 DEF At
<1>7. Found(at[1], at[2], Find[at]) BY <1>1, <1>6, FindFinds
<1>8. Found(<<>>, L, t) BY <1>6, <1>7
<1> HIDE DEF t, at
<1>9. t \in Template /\ Fits(t, L) BY <1>1, <1>8, FoundFits
<1>10. <<r.method>> \o r.path = Filled(t, r.path) \o UrlWildcard(t, r.path)
  BY <1>3, <1>4, <1>9, FilledIsPath
<1> QED BY <1>5, <1>10 DEF ParamsRebuildPath, Filled, FixedOf, Nth, Before

LEMMA ParamsKept ==
  ASSUME NoStarSegments
  PROVE  Spec => []ParamsInv
<1>1. Init => ParamsInv
  <2> SUFFICES ASSUME Init PROVE ParamsInv OBVIOUS
  <2>1. added = <<>> /\ val = << >> /\ request = NoRequest /\ route = None BY DEF Init, RouterInit
  <2>2. DOMAIN added = {} /\ DOMAIN val = {} /\ added \in Seq(Template) BY <2>1, EmptySeq
  <2> QED BY <2>1, <2>2 DEF ParamsInv, TreeOK, RequestOK, ParamsRebuildPath
<1>2. ParamsInv /\ RouteInv /\ RouteInv' /\ [Next]_vars => ParamsInv'
  <2> SUFFICES ASSUME ParamsInv, RouteInv', [Next]_vars PROVE ParamsInv' OBVIOUS
  <2>0. TreeOK /\ RequestOK /\ ParamsRebuildPath /\ TreeOK' /\ RequestOK' BY DEF ParamsInv, RouteInv
  <2>1. ASSUME UNCHANGED <<request, route, data, rest>> PROVE ParamsInv'
    <3>1. ParamsRebuildPath' BY <2>0, <2>1 DEF ParamsRebuildPath
    <3> QED BY <2>0, <3>1 DEF ParamsInv
  <2>3. CASE Setup BY <2>1, <2>3 DEF Setup
  <2>4. ASSUME NEW m \in Methods, NEW p \in Paths, NEW q \in BOOLEAN, Request(m, p, q) PROVE ParamsInv'
    <3> DEFINE r == [method |-> m, path |-> p, query |-> q]
    <3>1. /\ request' = r /\ route' = Find[<< <<>>, FindLink(request') >>]
          /\ data' = IF route' = None THEN <<>> ELSE WildcarData(route', p)
          /\ rest' = IF route' = None THEN <<>> ELSE UrlWildcard(route', p)
      BY <2>4, Zenon DEF Request
    <3>2. r \in [method : Methods, path : Paths, query : BOOLEAN] /\ r.path = p OBVIOUS
    <3> HIDE DEF r
    <3>3. ParamsRebuildPath' BY <2>0, <3>1, <3>2, ParamsAfter
    <3> QED BY <2>0, <3>3 DEF ParamsInv
  <2>5. CASE Serve BY <2>1, <2>5 DEF Serve
  <2>6. CASE UNCHANGED vars BY <2>1, <2>6 DEF vars
  <2> QED BY <2>3, <2>4, <2>5, <2>6 DEF Next
<1> QED BY <1>1, <1>2, RouteKept, PTL DEF Spec

(* The endpoint gets every parameter from its own place and the rest of    *)
(* the path from where "**" stands: filled into the template they give the *)
(* path of the request back, for any templates and paths                   *)
(* (getPathWildcardAnalysisArr, the endpoints of _addEndpoint).            *)
THEOREM ParamsArePath ==
  ASSUME NoStarSegments
  PROVE  Spec => []ParamsRebuildPath
<1>1. ParamsInv => ParamsRebuildPath BY DEF ParamsInv
<1> QED BY <1>1, ParamsKept, PTL
=============================================================================
