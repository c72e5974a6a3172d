------------------------- MODULE Combinators_proofs -------------------------
(***************************************************************************)
(* A combinator returns what decided it, and under a queue that no start   *)
(* can fill nothing of it is used once it is gone.                         *)
(***************************************************************************)
EXTENDS Combinators, SequenceTheorems, FiniteSetTheorems, WellFoundedInduction, TLAPS

-----------------------------------------------------------------------------
(* Keep. *)

Step(seq, S, f, i) ==
  IF i = 0 THEN <<>> ELSE IF seq[i] \in S THEN Append(f[i - 1], seq[i]) ELSE f[i - 1]

Upto(seq, S, f, n) == f = [i \in 0..n |-> Step(seq, S, f, i)]

(* An induction over the natural numbers, by the least counterexample.     *)
LEMMA LeastOf ==
  ASSUME NEW Bad \in SUBSET Nat, Bad # {}
  PROVE  \E n \in Bad : \A m \in Bad : n <= m
<1> DEFINE R == OpToRel(<, Nat)
<1>1. \A x, y \in Nat : <<y, x>> \in R <=> y < x BY DEF OpToRel
<1>2. IsWellFoundedOn(R, Nat) BY NatLessThanWellFounded
<1> HIDE DEF R
<1>3. PICK n \in Bad : \A m \in Bad : ~(<<m, n>> \in R) BY <1>2, WFMin
<1>4. ASSUME NEW m \in Bad PROVE n <= m
  <2>1. m \in Nat /\ n \in Nat BY <1>3
  <2>2. ~(<<m, n>> \in R) BY <1>3
  <2>3. ~(m < n) BY <1>1, <2>1, <2>2
  <2>4. QED BY <2>1, <2>3
<1>5. QED BY <1>4

LEMMA UptoExists ==
  ASSUME NEW T, NEW seq \in Seq(T), NEW S
  PROVE  \A n \in Nat : \E f : Upto(seq, S, f, n)
<1> DEFINE Bad == {n \in Nat : ~\E f : Upto(seq, S, f, n)}
<1>1. SUFFICES ASSUME Bad # {} PROVE FALSE
  OBVIOUS
<1>2. PICK n \in Bad : \A m \in Bad : n <= m BY <1>1, LeastOf
<1>3. CASE n = 0
  <2> DEFINE f == [i \in 0..0 |-> <<>>]
  <2>1. \A i \in 0..0 : Step(seq, S, f, i) = <<>> BY DEF Step
  <2>2. f = [i \in 0..0 |-> Step(seq, S, f, i)] BY <2>1
  <2>3. Upto(seq, S, f, n) BY <1>3, <2>2 DEF Upto
  <2>4. QED BY <2>3
<1>4. CASE n # 0
  <2>1. n \in Nat /\ n - 1 \in Nat /\ n - 1 \notin Bad BY <1>2, <1>4
  <2>2. PICK g : Upto(seq, S, g, n - 1) BY <2>1
  <2> DEFINE f == [i \in 0..n |-> IF i = n THEN Step(seq, S, g, n) ELSE g[i]]
  <2>3. ASSUME NEW i \in 0..n PROVE f[i] = Step(seq, S, f, i)
    <3>1. i # 0 => i - 1 \in 0..n /\ f[i - 1] = g[i - 1] BY <2>1
    <3>2. Step(seq, S, f, i) = Step(seq, S, g, i) BY <3>1 DEF Step
    <3>3. i # n => g[i] = Step(seq, S, g, i)
      <4>1. g = [j \in 0..(n - 1) |-> Step(seq, S, g, j)] BY <2>2 DEF Upto
      <4>2. \A j \in 0..(n - 1) : g[j] = Step(seq, S, g, j) BY <4>1, Zenon
      <4>3. i # n => i \in 0..(n - 1) BY <2>1
      <4>4. QED BY <4>2, <4>3
    <3>4. QED BY <3>2, <3>3
  <2>4. f = [i \in 0..n |-> f[i]] OBVIOUS
  <2> HIDE DEF f
  <2>5. f = [i \in 0..n |-> Step(seq, S, f, i)] BY <2>3, <2>4, Zenon
  <2>7. Upto(seq, S, f, n) BY <2>5 DEF Upto
  <2>6. QED BY <1>2, <2>7
<1>5. QED BY <1>3, <1>4

LEMMA KeepIs ==
  ASSUME NEW T, NEW seq \in Seq(T), NEW S
  PROVE  \E f : Upto(seq, S, f, Len(seq)) /\ Keep(seq, S) = f[Len(seq)]
<1>1. \E f : Upto(seq, S, f, Len(seq)) BY UptoExists, LenProperties
<1> DEFINE F == CHOOSE f : f = [i \in 0..Len(seq) |-> IF i = 0 THEN <<>> ELSE
                                  IF seq[i] \in S THEN Append(f[i - 1], seq[i]) ELSE f[i - 1]]
<1>2. \E f : f = [i \in 0..Len(seq) |-> IF i = 0 THEN <<>> ELSE
                                  IF seq[i] \in S THEN Append(f[i - 1], seq[i]) ELSE f[i - 1]]
  BY <1>1 DEF Upto, Step
<1>3. Keep(seq, S) = F[Len(seq)] BY DEF Keep
<1>4. F = [i \in 0..Len(seq) |-> IF i = 0 THEN <<>> ELSE
                                  IF seq[i] \in S THEN Append(F[i - 1], seq[i]) ELSE F[i - 1]]
  BY <1>2
<1>5. Upto(seq, S, F, Len(seq)) BY <1>4 DEF Upto, Step
<1>6. QED BY <1>3, <1>5

NoDup(s) == \A i, j \in DOMAIN s : s[i] = s[j] => i = j
NoDupIn(s, S) == \A i, j \in DOMAIN s : s[i] \in S /\ s[i] = s[j] => i = j

(* What has been kept of the first n entries.                              *)
Kept(T, seq, S, g, n) ==
  /\ g \in Seq(T)
  /\ \A j \in DOMAIN g : \E i \in 1..n : seq[i] \in S /\ g[j] = seq[i]
  /\ \A i \in 1..n : seq[i] \in S => \E j \in DOMAIN g : g[j] = seq[i]
  /\ NoDupIn(seq, S) => NoDup(g)

LEMMA KeptMore ==
  ASSUME NEW T, NEW seq \in Seq(T), NEW S, NEW n \in 1..Len(seq), NEW g,
         Kept(T, seq, S, g, n - 1)
  PROVE  Kept(T, seq, S, IF seq[n] \in S THEN Append(g, seq[n]) ELSE g, n)
<1>1. Len(seq) \in Nat /\ n - 1 \in Nat /\ seq[n] \in T /\ DOMAIN seq = 1..Len(seq) OBVIOUS
<1>2. /\ g \in Seq(T)
      /\ \A j \in DOMAIN g : \E i \in 1..(n - 1) : seq[i] \in S /\ g[j] = seq[i]
      /\ \A i \in 1..(n - 1) : seq[i] \in S => \E j \in DOMAIN g : g[j] = seq[i]
      /\ NoDupIn(seq, S) => NoDup(g)
  BY DEF Kept
<1>3. CASE seq[n] \notin S
  <2>1. \A i \in 1..n : seq[i] \in S => i \in 1..(n - 1) BY <1>1, <1>3
  <2>2. \A i \in 1..(n - 1) : i \in 1..n BY <1>1
  <2>3. Kept(T, seq, S, g, n) BY <1>2, <2>1, <2>2 DEF Kept
  <2>4. QED BY <1>3, <2>3
<1>4. CASE seq[n] \in S
  <2> DEFINE h == Append(g, seq[n])
  <2>1. /\ h \in Seq(T) /\ Len(g) \in Nat /\ Len(h) = Len(g) + 1 /\ h[Len(g) + 1] = seq[n]
        /\ \A j \in 1..Len(g) : h[j] = g[j]
    BY <1>1, <1>2
  <2>2. DOMAIN g = 1..Len(g) /\ DOMAIN h = 1..(Len(g) + 1) BY <1>2, <2>1
  <2> HIDE DEF h
  <2>3. \A j \in DOMAIN h : \E i \in 1..n : seq[i] \in S /\ h[j] = seq[i]
    <3>1. ASSUME NEW j \in DOMAIN h PROVE \E i \in 1..n : seq[i] \in S /\ h[j] = seq[i]
      <4>1. CASE j = Len(g) + 1 BY <1>1, <1>4, <2>1, <4>1
      <4>2. CASE j # Len(g) + 1
        <5>1. j \in DOMAIN g /\ h[j] = g[j] BY <2>1, <2>2, <4>2
        <5>2. PICK i \in 1..(n - 1) : seq[i] \in S /\ g[j] = seq[i] BY <1>2, <5>1
        <5>3. i \in 1..n BY <1>1
        <5>4. QED BY <5>1, <5>2, <5>3
      <4>3. QED BY <4>1, <4>2
    <3>2. QED BY <3>1
  <2>4. \A i \in 1..n : seq[i] \in S => \E j \in DOMAIN h : h[j] = seq[i]
    <3>1. ASSUME NEW i \in 1..n, seq[i] \in S PROVE \E j \in DOMAIN h : h[j] = seq[i]
      <4>1. CASE i = n
        <5>1. Len(g) + 1 \in DOMAIN h BY <2>1, <2>2
        <5>2. QED BY <2>1, <4>1, <5>1
      <4>2. CASE i # n
        <5>1. i \in 1..(n - 1) BY <1>1, <4>2
        <5>2. PICK j \in DOMAIN g : g[j] = seq[i] BY <1>2, <3>1, <5>1
        <5>3. j \in DOMAIN h /\ h[j] = g[j] BY <2>1, <2>2
        <5>4. QED BY <5>2, <5>3
      <4>3. QED BY <4>1, <4>2
    <3>2. QED BY <3>1
  <2>5. ASSUME NoDupIn(seq, S) PROVE NoDup(h)
    <3>1. \A i, j \in 1..Len(seq) : seq[i] \in S /\ seq[i] = seq[j] => i = j
      BY <1>1, <2>5 DEF NoDupIn
    <3>2. \A i, j \in 1..Len(g) : g[i] = g[j] => i = j BY <1>2, <2>2, <2>5 DEF NoDup
    <3>3. ASSUME NEW j \in 1..Len(g) PROVE g[j] # seq[n]
      <4>1. PICK i \in 1..(n - 1) : seq[i] \in S /\ g[j] = seq[i] BY <1>2, <2>2
      <4>2. i \in 1..Len(seq) /\ i # n BY <1>1
      <4>3. QED BY <1>1, <3>1, <4>1, <4>2
    <3>4. ASSUME NEW i \in 1..(Len(g) + 1), NEW j \in 1..(Len(g) + 1), h[i] = h[j] PROVE i = j
      <4>1. CASE i = Len(g) + 1 /\ j = Len(g) + 1 BY <4>1
      <4>2. CASE i = Len(g) + 1 /\ j # Len(g) + 1
        <5>1. j \in 1..Len(g) BY <2>1, <4>2
        <5>2. QED BY <2>1, <3>3, <3>4, <4>2, <5>1
      <4>3. CASE i # Len(g) + 1 /\ j = Len(g) + 1
        <5>1. i \in 1..Len(g) BY <2>1, <4>3
        <5>2. QED BY <2>1, <3>3, <3>4, <4>3, <5>1
      <4>4. CASE i # Len(g) + 1 /\ j # Len(g) + 1
        <5>1. i \in 1..Len(g) /\ j \in 1..Len(g) BY <2>1, <4>4
        <5>2. QED BY <2>1, <3>2, <3>4, <5>1
      <4>5. QED BY <4>1, <4>2, <4>3, <4>4
    <3>5. QED BY <2>2, <3>4 DEF NoDup
  <2>6. Kept(T, seq, S, h, n) BY <2>1, <2>3, <2>4, <2>5 DEF Kept
  <2>7. QED BY <1>4, <2>6 DEF h
<1>5. QED BY <1>3, <1>4

LEMMA KeptUpto ==
  ASSUME NEW T, NEW seq \in Seq(T), NEW S, NEW f, Upto(seq, S, f, Len(seq))
  PROVE  \A n \in 0..Len(seq) : Kept(T, seq, S, f[n], n)
<1> DEFINE Bad == {n \in 0..Len(seq) : ~Kept(T, seq, S, f[n], n)}
<1>0. Len(seq) \in Nat OBVIOUS
<1>1. SUFFICES ASSUME Bad # {} PROVE FALSE
  OBVIOUS
<1>2. Bad \in SUBSET Nat OBVIOUS
<1>3. PICK n \in Bad : \A m \in Bad : n <= m BY <1>1, <1>2, LeastOf
<1>4. \A i \in 0..Len(seq) : f[i] = Step(seq, S, f, i)
  <2>1. f = [i \in 0..Len(seq) |-> Step(seq, S, f, i)] BY DEF Upto
  <2>2. QED BY <2>1, Zenon
<1>5. CASE n = 0
  <2>1. f[0] = <<>> BY <1>0, <1>4 DEF Step
  <2>2. <<>> \in Seq(T) /\ DOMAIN <<>> = {} /\ 1..0 = {} OBVIOUS
  <2>3. NoDup(<<>>) BY <2>2 DEF NoDup
  <2>4. Kept(T, seq, S, <<>>, 0) BY <2>2, <2>3 DEF Kept
  <2>5. QED BY <1>3, <1>5, <2>1, <2>4
<1>6. CASE n # 0
  <2>1. n \in 1..Len(seq) /\ n - 1 \in 0..Len(seq) /\ ~(n <= n - 1) BY <1>0, <1>3, <1>6
  <2>2. Kept(T, seq, S, f[n - 1], n - 1) BY <1>3, <2>1
  <2>3. f[n] = IF seq[n] \in S THEN Append(f[n - 1], seq[n]) ELSE f[n - 1]
    BY <1>4, <1>6, <2>1 DEF Step
  <2>4. Kept(T, seq, S, IF seq[n] \in S THEN Append(f[n - 1], seq[n]) ELSE f[n - 1], n)
    BY <2>1, <2>2, KeptMore
  <2>5. QED BY <1>3, <2>3, <2>4
<1>7. QED BY <1>5, <1>6

(* Keep keeps the entries of a queue that are in S, all of them, and each  *)
(* once if it occurs once.                                                 *)
LEMMA KeepFacts ==
  ASSUME NEW T, NEW seq \in Seq(T), NEW S
  PROVE  /\ Keep(seq, S) \in Seq(T)
         /\ \A j \in DOMAIN Keep(seq, S) :
              Keep(seq, S)[j] \in S /\ \E i \in DOMAIN seq : Keep(seq, S)[j] = seq[i]
         /\ \A i \in DOMAIN seq : seq[i] \in S => \E j \in DOMAIN Keep(seq, S) : Keep(seq, S)[j] = seq[i]
         /\ NoDupIn(seq, S) => NoDup(Keep(seq, S))
<1>1. PICK f : Upto(seq, S, f, Len(seq)) /\ Keep(seq, S) = f[Len(seq)] BY KeepIs
<1>2. Len(seq) \in Nat /\ DOMAIN seq = 1..Len(seq) OBVIOUS
<1>3. Kept(T, seq, S, f[Len(seq)], Len(seq)) BY <1>1, <1>2, KeptUpto
<1>4. Kept(T, seq, S, Keep(seq, S), Len(seq)) BY <1>1, <1>3
<1>5. QED BY <1>2, <1>4 DEF Kept

-----------------------------------------------------------------------------
(* Calls and branches. *)

LEMMA BranchFacts ==
  /\ \A b \in Branch : CallOf(b) \in Call /\ b[3] \in 1..Width /\ b = Of(CallOf(b), b[3])
  /\ \A c \in Call, i \in 1..Width : Of(c, i) \in Branch /\ CallOf(Of(c, i)) = c /\ Of(c, i)[3] = i
  /\ None \notin Call
  /\ Width \in Nat /\ Width >= 2
<1>1. Width \in Nat /\ Width >= 2 /\ MaxCalls \in Nat /\ None \notin Parent \X Nat
  BY CombinatorsAssumption
<1>2. ASSUME NEW b \in Branch PROVE CallOf(b) \in Call /\ b[3] \in 1..Width /\ b = Of(CallOf(b), b[3])
  BY DEF Branch, Call, CallOf, Of
<1>3. ASSUME NEW c \in Call, NEW i \in 1..Width
      PROVE Of(c, i) \in Branch /\ CallOf(Of(c, i)) = c /\ Of(c, i)[3] = i
  BY DEF Branch, Call, CallOf, Of
<1>4. None \notin Call BY <1>1 DEF Call
<1>5. QED BY <1>1, <1>2, <1>3, <1>4

LEMMA CountFacts ==
  ASSUME NEW c \in Call, kind[c] \in Kinds
  PROVE  Count(c) \in 1..Width /\ (kind[c] # "link" => Count(c) = Width)
BY CombinatorsAssumption, BranchFacts DEF Count, Size

Running(c) == call[c] \in {"starting", "waiting"}
How == {"value", "throw"}

(* The types of what the combinators themselves keep.                      *)
ControlType ==
  /\ kind \in [Call -> Kinds \cup {None}]
  /\ call \in [Call -> {"new", "starting", "waiting", "returned"}]
  /\ next \in [Call -> Nat]
  /\ frame \in [Branch -> {"none", "created", "suspended", "ended", "gone"}]
  /\ exc \in [Call -> BOOLEAN] /\ last \in [Call -> 0..Width] /\ cnt \in [Call -> 0..Width]
  /\ slot \in [Branch -> How \cup {"unset"}]
  /\ out = [c \in Call |-> out[c]]
  /\ ends \in [Call -> Seq((1..Width) \X How)]
  /\ turn \in Call \cup {None}

(* A whenAll still waits for as many branches as have not ended, and each  *)
(* that has ended left its result in its slot.                             *)
Unsettled(c) ==
  /\ cnt[c] \in 1..Width /\ Len(ends[c]) + cnt[c] = Width
  /\ \A j \in DOMAIN ends[c] :
       frame[Of(c, ends[c][j][1])] = "ended" /\ slot[Of(c, ends[c][j][1])] = ends[c][j][2]

Settled(c) ==
  IF kind[c] = "all"
  THEN Len(ends[c]) = Width /\ \A j \in DOMAIN ends[c] : out[c][ends[c][j][1]] = ends[c][j][2]
  ELSE Len(ends[c]) = 1 /\ out[c] = IF ends[c][1][2] = "throw" THEN "throw" ELSE ends[c][1][1]

CallOK(c) ==
  /\ call[c] = "new" => /\ ends[c] = <<>> /\ ~exc[c] /\ next[c] = 1 /\ out[c] = None
                        /\ \A b \in BranchesOf(c) : frame[b] = "none"
  /\ call[c] = "starting" <=> turn = c
  /\ call[c] = "starting" => /\ next[c] \in 1..Count(c)
                             /\ \A i \in next[c]..Count(c) : frame[Of(c, i)] = "created"
  /\ call[c] # "new" => kind[c] \in Kinds
  /\ Running(c) => IF kind[c] = "all" THEN Unsettled(c) ELSE ends[c] = <<>> /\ ~exc[c]
  /\ call[c] = "returned" => Settled(c) /\ \A b \in BranchesOf(c) : frame[b] = "gone"

Control == ControlType /\ \A c \in Call : CallOK(c)

(* Nothing about call c has changed.                                       *)
SameCall(c) ==
  /\ kind'[c] = kind[c] /\ call'[c] = call[c] /\ next'[c] = next[c]
  /\ exc'[c] = exc[c] /\ cnt'[c] = cnt[c] /\ out'[c] = out[c] /\ ends'[c] = ends[c]
  /\ turn' = c <=> turn = c
  /\ \A b \in BranchesOf(c) : frame'[b] = frame[b] /\ slot'[b] = slot[b]

LEMMA Untouched ==
  ASSUME NEW c \in Call, ControlType, CallOK(c), SameCall(c)
  PROVE  CallOK(c)'
<1>1. \A i \in 1..Width : Of(c, i) \in BranchesOf(c) BY BranchFacts DEF BranchesOf
<1>2. call[c] # "new" => kind[c] \in Kinds BY DEF CallOK
<1>3. Running(c)' <=> Running(c) BY DEF Running, SameCall
<1>4. Count(c)' = Count(c) BY DEF Count, SameCall
<1>5. call[c] = "starting" => \A i \in next[c]..Count(c) : i \in 1..Width
  BY <1>2, CountFacts, BranchFacts DEF CallOK
<1>6. \A j \in DOMAIN ends[c] : ends[c][j][1] \in 1..Width
  BY DEF ControlType
<1>7. Unsettled(c) => Unsettled(c)' BY <1>1, <1>6 DEF Unsettled, SameCall
<1>8. Settled(c) => Settled(c)' BY DEF Settled, SameCall
<1>9. QED BY <1>1, <1>2, <1>3, <1>4, <1>5, <1>7, <1>8 DEF CallOK, SameCall, BranchesOf

(* Of a branch that may end the call is running, and it has not ended.     *)
MayEnd(b) ==
  \/ turn = None /\ frame[b] = "suspended"
  \/ turn = CallOf(b) /\ b = Of(CallOf(b), next[CallOf(b)])

LEMMA MayEndFacts ==
  ASSUME Control, NEW b \in Branch, MayEnd(b)
  PROVE  /\ Running(CallOf(b)) /\ kind[CallOf(b)] \in Kinds
         /\ frame[b] \in {"suspended", "created"}
         /\ turn \in {None, CallOf(b)}
         /\ turn = CallOf(b) => call[CallOf(b)] = "starting" /\ b[3] = next[CallOf(b)]
<1> DEFINE c == CallOf(b)
<1>1. c \in Call /\ b \in BranchesOf(c) BY BranchFacts DEF BranchesOf
<1>2. CallOK(c) /\ call[c] \in {"new", "starting", "waiting", "returned"}
  BY <1>1 DEF Control, ControlType
<1>3. CASE turn = None /\ frame[b] = "suspended"
  BY <1>1, <1>2, <1>3, BranchFacts DEF CallOK, Running
<1>4. CASE turn = c /\ b = Of(c, next[c])
  <2>1. call[c] = "starting" /\ kind[c] \in Kinds BY <1>2, <1>4 DEF CallOK
  <2>2. Count(c) \in 1..Width BY <1>1, <2>1, CountFacts
  <2>3. next[c] \in 1..Count(c) BY <1>2, <2>1 DEF CallOK
  <2>4. next[c] \in 1..Width /\ next[c] \in next[c]..Count(c) BY <2>2, <2>3, BranchFacts
  <2>5. frame[b] = "created" BY <1>2, <1>4, <2>1, <2>4 DEF CallOK
  <2>6. b[3] = next[c] BY <1>1, <1>4, <2>4, BranchFacts
  <2>7. QED BY <1>4, <2>1, <2>5, <2>6 DEF Running
<1>5. QED BY <1>3, <1>4 DEF MayEnd

(* Of an ending branch's call nothing is left to do, or it is a whenAll    *)
(* that goes on without this branch.                                       *)
LEMMA EndsType ==
  ASSUME Control, NEW b \in Branch, NEW how \in How, MayEnd(b), Ends(b, how), UNCHANGED kind
  PROVE  ControlType'
<1> DEFINE c == CallOf(b)
<1>1. c \in Call /\ b[3] \in 1..Width /\ Running(c) /\ kind[c] \in Kinds
      /\ turn \in {None, c} /\ (turn = c => call[c] = "starting")
  BY BranchFacts, MayEndFacts
<1>2. ControlType /\ CallOK(c) BY <1>1 DEF Control
<1>3. ends' = [ends EXCEPT ![c] = Append(@, <<b[3], how>>)] BY DEF Ends
<1>4. ends' \in [Call -> Seq((1..Width) \X How)]
  <2>1. <<b[3], how>> \in (1..Width) \X How BY <1>1
  <2>2. Append(ends[c], <<b[3], how>>) \in Seq((1..Width) \X How) BY <1>1, <1>2, <2>1 DEF ControlType
  <2>3. QED BY <1>1, <1>2, <1>3, <2>2 DEF ControlType
<1> DEFINE Base == /\ call' \in [Call -> {"new", "starting", "waiting", "returned"}]
                   /\ next' \in [Call -> Nat]
                   /\ frame' \in [Branch -> {"none", "created", "suspended", "ended", "gone"}]
                   /\ out' = [d \in Call |-> out'[d]]
                   /\ turn' \in Call \cup {None}
<1>5. ASSUME NEW x, Returns(c, x), UNCHANGED next PROVE Base
  <2>1. call' \in [Call -> {"new", "starting", "waiting", "returned"}]
    BY <1>2, <1>5 DEF Returns, ControlType
  <2>2. next' \in [Call -> Nat] BY <1>2, <1>5 DEF ControlType
  <2>3. frame' \in [Branch -> {"none", "created", "suspended", "ended", "gone"}]
    BY <1>2, <1>5 DEF Returns, ControlType
  <2>4. out' = [d \in Call |-> out'[d]]
    <3>1. DOMAIN out = Call BY <1>2 DEF ControlType
    <3>2. out' = [out EXCEPT ![c] = x] BY <1>5 DEF Returns
    <3>3. QED BY <3>1, <3>2
  <2>5. turn' \in Call \cup {None} BY <1>2, <1>5 DEF Returns, ControlType
  <2>6. QED BY <2>1, <2>2, <2>3, <2>4, <2>5
<1>6. ASSUME StaysEnded(b) PROVE Base
  <2>1. frame' \in [Branch -> {"none", "created", "suspended", "ended", "gone"}]
    BY <1>2, <1>6 DEF StaysEnded, ControlType
  <2>2. CASE turn = c
    <3>1. next' = [next EXCEPT ![c] = @ + 1] /\ out' = out
          /\ IF next[c] = Count(c) THEN turn' = None /\ call' = [call EXCEPT ![c] = "waiting"]
             ELSE turn' = turn /\ call' = call
      BY <1>6, <2>2 DEF StaysEnded, Started
    <3>2. next' \in [Call -> Nat]
      <4>1. next \in [Call -> Nat] /\ next[c] + 1 \in Nat BY <1>1, <1>2 DEF ControlType
      <4>2. QED BY <3>1, <4>1
    <3>3. call' \in [Call -> {"new", "starting", "waiting", "returned"}] /\ turn' \in Call \cup {None}
      BY <1>2, <3>1 DEF ControlType
    <3>4. out' = [d \in Call |-> out'[d]] BY <1>2, <3>1 DEF ControlType
    <3>5. QED BY <2>1, <3>2, <3>3, <3>4
  <2>3. CASE turn # c
    <3>1. UNCHANGED <<next, turn, call, out>> BY <1>6, <2>3 DEF StaysEnded
    <3>2. QED BY <1>2, <2>1, <3>1 DEF ControlType
  <2>4. QED BY <2>2, <2>3
<1>7. CASE kind[c] = "all"
  <2>1. AllEnds(b, how) BY <1>7 DEF Ends
  <2>2. /\ slot' = [slot EXCEPT ![b] = how] /\ cnt' = [cnt EXCEPT ![c] = cnt[c] - 1]
        /\ exc' = exc /\ last' = last
        /\ \/ UNCHANGED next /\ \E x : Returns(c, x)
           \/ StaysEnded(b)
    BY <2>1 DEF AllEnds, Decrements
  <2>3. cnt[c] \in 1..Width BY <1>1, <1>2, <1>7 DEF CallOK, Unsettled
  <2>4. cnt[c] - 1 \in 0..Width BY <2>3, BranchFacts
  <2>5. cnt' \in [Call -> 0..Width] BY <1>1, <1>2, <2>2, <2>4 DEF ControlType
  <2>6. slot' \in [Branch -> How \cup {"unset"}] BY <1>2, <2>2 DEF ControlType
  <2>7. Base BY <1>5, <1>6, <2>2
  <2> HIDE DEF Base
  <2>8. QED BY <1>2, <1>4, <2>2, <2>5, <2>6, <2>7 DEF ControlType, Base
<1>8. CASE kind[c] # "all"
  <2>1. AnyEnds(b, how) BY <1>8 DEF Ends
  <2>2. /\ exc' = [exc EXCEPT ![c] = (exc[c] \/ how = "throw")]
        /\ last' = [last EXCEPT ![c] = IF how = "value" THEN b[3] ELSE last[c]]
        /\ cnt' = cnt /\ slot' = slot
        /\ UNCHANGED next /\ \E x : Returns(c, x)
    BY <2>1 DEF AnyEnds, Decides
  <2>3. exc' \in [Call -> BOOLEAN] BY <1>2, <2>2, Zenon DEF ControlType
  <2>4. last' \in [Call -> 0..Width] BY <1>1, <1>2, <2>2, BranchFacts DEF ControlType
  <2>5. Base BY <1>5, <2>2
  <2> HIDE DEF Base
  <2>6. QED BY <1>2, <1>4, <2>2, <2>3, <2>4, <2>5 DEF ControlType, Base
<1>9. QED BY <1>7, <1>8

LEMMA EndsControl ==
  ASSUME Control, NEW b \in Branch, NEW how \in How, MayEnd(b), Ends(b, how), UNCHANGED kind
  PROVE  Control'
<1> DEFINE c == CallOf(b)
<1>1. /\ c \in Call /\ b[3] \in 1..Width /\ b \in BranchesOf(c) /\ Running(c) /\ kind[c] \in Kinds
      /\ turn \in {None, c} /\ (turn = c => call[c] = "starting" /\ b[3] = next[c])
      /\ frame[b] # "ended" /\ c # None
  BY BranchFacts, MayEndFacts DEF BranchesOf
<1>2. ControlType /\ \A d \in Call : CallOK(d) BY DEF Control
<1>3. ends' = [ends EXCEPT ![c] = Append(@, <<b[3], how>>)] /\ kind' = kind BY DEF Ends
<1>4. /\ ends'[c] = Append(ends[c], <<b[3], how>>) /\ ends[c] \in Seq((1..Width) \X How)
      /\ \A d \in Call : d # c => ends'[d] = ends[d]
  BY <1>1, <1>2, <1>3 DEF ControlType
<1>5. /\ Len(ends'[c]) = Len(ends[c]) + 1 /\ Len(ends[c]) \in Nat
      /\ DOMAIN ends'[c] = 1..(Len(ends[c]) + 1) /\ DOMAIN ends[c] = 1..Len(ends[c])
      /\ ends'[c][Len(ends[c]) + 1] = <<b[3], how>>
      /\ \A j \in DOMAIN ends[c] : ends'[c][j] = ends[c][j]
  <2>1. <<b[3], how>> \in (1..Width) \X How BY <1>1
  <2>2. QED BY <1>4, <2>1
<1>6. ControlType' BY EndsType
(* One call gives way to nobody else's.                                    *)
<1> DEFINE Rest == /\ \A d \in Call : d # c =>
                        /\ call'[d] = call[d] /\ next'[d] = next[d] /\ out'[d] = out[d]
                        /\ turn' = d <=> turn = d
                   /\ \A x \in Branch : CallOf(x) # c => frame'[x] = frame[x]
<1>7. ASSUME NEW x, Returns(c, x), UNCHANGED next
      PROVE  /\ Rest /\ call'[c] = "returned" /\ out'[c] = x /\ turn' # c
             /\ \A y \in BranchesOf(c) : frame'[y] = "gone"
  <2>1. \A d \in Call : d # c => call'[d] = call[d] /\ next'[d] = next[d] /\ out'[d] = out[d]
    BY <1>2, <1>7 DEF Returns, ControlType
  <2>2. call'[c] = "returned" /\ out'[c] = x BY <1>1, <1>2, <1>7 DEF Returns, ControlType
  <2>3. turn' # c /\ \A d \in Call : d # c => (turn' = d <=> turn = d)
    BY <1>1, <1>7, BranchFacts DEF Returns
  <2>4. /\ \A y \in Branch : CallOf(y) # c => frame'[y] = frame[y]
        /\ \A y \in BranchesOf(c) : frame'[y] = "gone"
    BY <1>7 DEF Returns, BranchesOf
  <2>5. QED BY <2>1, <2>2, <2>3, <2>4
<1>8. ASSUME StaysEnded(b)
      PROVE  /\ Rest /\ frame'[b] = "ended" /\ out' = out
             /\ \A y \in Branch : y # b => frame'[y] = frame[y]
             /\ IF turn = c
                THEN /\ next'[c] = next[c] + 1
                     /\ IF next[c] = Count(c) THEN turn' = None /\ call'[c] = "waiting"
                        ELSE turn' = turn /\ call'[c] = call[c]
                ELSE turn' = turn /\ call'[c] = call[c] /\ next'[c] = next[c]
  <2>1. frame'[b] = "ended" /\ (\A y \in Branch : y # b => frame'[y] = frame[y]) /\ out' = out
    BY <1>2, <1>8 DEF StaysEnded, ControlType
  <2>2. \A y \in Branch : CallOf(y) # c => y # b OBVIOUS
  <2>3. CASE turn = c
    <3>1. next' = [next EXCEPT ![c] = @ + 1]
          /\ IF next[c] = Count(c) THEN turn' = None /\ call' = [call EXCEPT ![c] = "waiting"]
             ELSE turn' = turn /\ call' = call
      BY <1>8, <2>3 DEF StaysEnded, Started
    <3>2. QED BY <1>1, <1>2, <2>1, <2>2, <2>3, <3>1, BranchFacts DEF ControlType
  <2>4. CASE turn # c
    <3>1. UNCHANGED <<next, turn, call>> BY <1>8, <2>4 DEF StaysEnded
    <3>2. QED BY <2>1, <2>2, <2>4, <3>1
  <2>5. QED BY <2>3, <2>4
<1>9. ASSUME Rest, \A d \in Call : d # c => exc'[d] = exc[d] /\ cnt'[d] = cnt[d],
             \A x \in Branch : x # b => slot'[x] = slot[x], CallOK(c)'
      PROVE  Control'
  <2>1. ASSUME NEW d \in Call, d # c PROVE CallOK(d)'
    <3>1. \A x \in BranchesOf(d) : x \in Branch /\ CallOf(x) # c /\ x # b BY <2>1 DEF BranchesOf
    <3>2. SameCall(d) BY <1>3, <1>4, <1>9, <2>1, <3>1 DEF SameCall
    <3>3. QED BY <1>2, <3>2, Untouched
  <2>2. QED BY <1>6, <1>9, <2>1 DEF Control
<1>10. CASE kind[c] = "all"
  <2>1. AllEnds(b, how) BY <1>10 DEF Ends
  <2>2. slot' = [slot EXCEPT ![b] = how] /\ cnt' = [cnt EXCEPT ![c] = cnt[c] - 1] /\ exc' = exc
    BY <2>1 DEF AllEnds, Decrements
  <2>3. Unsettled(c) BY <1>1, <1>2, <1>10 DEF CallOK
  <2>4. /\ slot'[b] = how /\ cnt'[c] = cnt[c] - 1 /\ cnt[c] \in 1..Width
        /\ \A x \in Branch : x # b => slot'[x] = slot[x]
        /\ \A d \in Call : d # c => exc'[d] = exc[d] /\ cnt'[d] = cnt[d]
    BY <1>1, <1>2, <2>2, <2>3 DEF ControlType, Unsettled
  <2>5. \A j \in DOMAIN ends[c] :
          /\ ends[c][j][1] \in 1..Width /\ Of(c, ends[c][j][1]) \in Branch
          /\ Of(c, ends[c][j][1]) # b
          /\ slot'[Of(c, ends[c][j][1])] = ends[c][j][2]
    <3>1. \A j \in DOMAIN ends[c] : ends[c][j][1] \in 1..Width BY <1>4
    <3>2. QED BY <1>1, <2>3, <2>4, <3>1, BranchFacts DEF Unsettled
  <2>6. \A j \in DOMAIN ends'[c] : ends'[c][j][1] \in 1..Width
                                   /\ slot'[Of(c, ends'[c][j][1])] = ends'[c][j][2]
    <3>1. ASSUME NEW j \in DOMAIN ends'[c], j \notin DOMAIN ends[c]
          PROVE ends'[c][j] = <<b[3], how>>
      BY <1>5, <3>1
    <3>2. b = Of(c, b[3]) BY BranchFacts
    <3>3. ASSUME NEW j \in DOMAIN ends'[c], j \notin DOMAIN ends[c]
          PROVE  ends'[c][j][1] \in 1..Width /\ slot'[Of(c, ends'[c][j][1])] = ends'[c][j][2]
      <4>1. ends'[c][j][1] = b[3] /\ ends'[c][j][2] = how BY <3>1, <3>3
      <4>2. QED BY <1>1, <2>4, <3>2, <4>1
    <3>4. \A j \in DOMAIN ends[c] : ends'[c][j] = ends[c][j] BY <1>5
    <3>5. QED BY <2>5, <3>3, <3>4
  <2>7. CASE cnt[c] - 1 = 0
    <3>1. Returns(c, [i \in 1..Width |-> slot'[Of(c, i)]]) /\ UNCHANGED next
      BY <2>1, <2>7 DEF AllEnds, Decrements
    <3> DEFINE res == [i \in 1..Width |-> slot'[Of(c, i)]]
    <3>2. Rest /\ call'[c] = "returned" /\ out'[c] = res /\ turn' # c
          /\ \A y \in BranchesOf(c) : frame'[y] = "gone"
      <4> HIDE DEF res, Rest
      <4>1. Returns(c, res) BY <3>1 DEF res
      <4>2. QED BY <1>7, <3>1, <4>1
    <3>3. Len(ends'[c]) = Width BY <1>5, <2>3, <2>7, BranchFacts DEF Unsettled
    <3>4. \A j \in DOMAIN ends'[c] : out'[c][ends'[c][j][1]] = ends'[c][j][2] BY <2>6, <3>2
    <3>5. Settled(c)' BY <1>3, <1>10, <3>3, <3>4 DEF Settled
    <3>6. CallOK(c)' BY <1>1, <1>3, <3>2, <3>5 DEF CallOK, Running, BranchesOf
    <3>7. QED BY <1>9, <2>4, <3>2, <3>6
  <2>8. CASE cnt[c] - 1 # 0
    <3>1. StaysEnded(b) BY <2>1, <2>8 DEF AllEnds, Decrements
    <3>2. /\ Rest /\ frame'[b] = "ended"
          /\ \A y \in Branch : y # b => frame'[y] = frame[y]
          /\ IF turn = c
             THEN /\ next'[c] = next[c] + 1
                  /\ IF next[c] = Count(c) THEN turn' = None /\ call'[c] = "waiting"
                     ELSE turn' = turn /\ call'[c] = call[c]
             ELSE turn' = turn /\ call'[c] = call[c] /\ next'[c] = next[c]
      BY <1>8, <3>1
    <3>3. \A j \in DOMAIN ends'[c] : frame'[Of(c, ends'[c][j][1])] = "ended"
      <4>1. ASSUME NEW j \in DOMAIN ends'[c], j \notin DOMAIN ends[c]
            PROVE ends'[c][j] = <<b[3], how>>
        BY <1>5, <4>1
      <4>2. b = Of(c, b[3]) BY BranchFacts
      <4>3. \A j \in DOMAIN ends[c] : frame[Of(c, ends[c][j][1])] = "ended" BY <2>3 DEF Unsettled
      <4>4. QED BY <1>5, <2>5, <3>2, <4>1, <4>2, <4>3
    <3>4. cnt'[c] \in 1..Width /\ Len(ends'[c]) + cnt'[c] = Width
      <4>1. Len(ends[c]) + cnt[c] = Width BY <2>3 DEF Unsettled
      <4>2. Len(ends'[c]) = Len(ends[c]) + 1 /\ Len(ends[c]) \in Nat BY <1>5
      <4>3. cnt'[c] = cnt[c] - 1 /\ cnt[c] \in 1..Width /\ Width \in Nat BY <2>4, BranchFacts
      <4>4. QED BY <2>8, <4>1, <4>2, <4>3
    <3>5. Unsettled(c)' BY <2>6, <3>3, <3>4 DEF Unsettled
    <3>6. Running(c)' BY <1>1, <3>2 DEF Running
    <3>7. call'[c] = "starting" <=> turn' = c BY <1>1, <1>2, <3>2 DEF CallOK
    <3>8. ASSUME call'[c] = "starting"
          PROVE  next'[c] \in 1..Count(c) /\ \A i \in next'[c]..Count(c) : frame'[Of(c, i)] = "created"
      <4>1. turn = c /\ turn' = c BY <1>1, <3>2, <3>7, <3>8
      <4>2. next'[c] = next[c] + 1 /\ next[c] # Count(c) /\ b[3] = next[c]
        BY <1>1, <3>2, <4>1
      <4>3. next[c] \in 1..Count(c) /\ \A i \in next[c]..Count(c) : frame[Of(c, i)] = "created"
        BY <1>1, <1>2, <4>1 DEF CallOK
      <4>4. Count(c) \in 1..Width /\ Width \in Nat BY <1>1, CountFacts, BranchFacts
      <4>5. next'[c] \in 1..Count(c) BY <4>2, <4>3, <4>4
      <4>6. ASSUME NEW i \in next'[c]..Count(c) PROVE frame'[Of(c, i)] = "created"
        <5>1. i \in next[c]..Count(c) /\ i \in 1..Width /\ i # b[3] BY <4>2, <4>3, <4>4
        <5>2. Of(c, i) \in Branch /\ Of(c, i) # b BY <1>1, <5>1, BranchFacts
        <5>3. QED BY <3>2, <4>3, <5>1, <5>2
      <4>7. QED BY <4>5, <4>6
    <3>9. Count(c)' = Count(c) BY <1>3 DEF Count
    <3>10. CallOK(c)' BY <1>1, <1>3, <1>10, <3>5, <3>6, <3>7, <3>8, <3>9 DEF CallOK, Running
    <3>11. QED BY <1>9, <2>4, <3>2, <3>10
  <2>9. QED BY <2>7, <2>8
<1>11. CASE kind[c] # "all"
  <2>1. AnyEnds(b, how) BY <1>11 DEF Ends
  <2>2. ends[c] = <<>> /\ ~exc[c] BY <1>1, <1>2, <1>11 DEF CallOK
  <2>3. /\ exc' = [exc EXCEPT ![c] = (exc[c] \/ how = "throw")] /\ cnt' = cnt /\ slot' = slot
        /\ Returns(c, IF exc[c] \/ how = "throw" THEN "throw"
                      ELSE IF how = "value" THEN b[3] ELSE last[c])
        /\ UNCHANGED next
    BY <2>1 DEF AnyEnds, Decides
  <2>4. Returns(c, IF how = "throw" THEN "throw" ELSE b[3])
    <3>1. how = "throw" \/ how = "value" BY DEF How
    <3>2. CASE how = "throw" BY <2>3, <3>2
    <3>3. CASE how = "value" BY <2>2, <2>3, <3>3
    <3>4. QED BY <3>1, <3>2, <3>3
  <2>5. /\ Rest /\ call'[c] = "returned" /\ out'[c] = (IF how = "throw" THEN "throw" ELSE b[3])
        /\ turn' # c /\ \A y \in BranchesOf(c) : frame'[y] = "gone"
    BY <1>7, <2>3, <2>4
  <2>6. \A d \in Call : d # c => exc'[d] = exc[d] BY <1>2, <2>3 DEF ControlType
  <2>7. Len(ends'[c]) = 1 /\ ends'[c][1] = <<b[3], how>> BY <1>5, <2>2
  <2>8. ends'[c][1][1] = b[3] /\ ends'[c][1][2] = how BY <2>7
  <2>9. Settled(c)' BY <1>3, <1>11, <2>5, <2>7, <2>8 DEF Settled
  <2>10. CallOK(c)' BY <1>1, <1>3, <2>5, <2>9 DEF CallOK, Running, BranchesOf
  <2>11. QED BY <1>9, <2>3, <2>5, <2>6, <2>10
<1>12. QED BY <1>10, <1>11

LEMMA StillControl ==
  ASSUME Control, UNCHANGED <<kind, call, next, frame, blockVars, turn>>
  PROVE  Control'
<1>1. ControlType' BY DEF Control, ControlType, blockVars
<1>2. ASSUME NEW c \in Call PROVE CallOK(c)'
  <2>1. SameCall(c) BY DEF SameCall, blockVars
  <2>2. QED BY <2>1, Untouched DEF Control
<1>3. QED BY <1>1, <1>2 DEF Control

LEMMA BeginControl ==
  ASSUME Control, NEW p \in Parent, Begin(p)
  PROVE  Control'
<1>1. PICK n \in 1..MaxCalls, k \in Kinds :
        LET c == <<p, n>> IN
        /\ turn = None /\ call[c] = "new"
        /\ kind' = [kind EXCEPT ![c] = k]
        /\ call' = [call EXCEPT ![c] = "starting"]
        /\ turn' = c
        /\ frame' = [b \in Branch |-> IF CallOf(b) = c /\ b[3] <= Size(k) THEN "created" ELSE frame[b]]
        /\ cnt' = IF k = "all" THEN [cnt EXCEPT ![c] = Width]
                  ELSE IF k = "link" THEN cnt ELSE [cnt EXCEPT ![c] = 0]
        /\ UNCHANGED <<next, exc, last, slot, out, ends>>
  <2>1. PICK n \in 1..MaxCalls, k \in Kinds :
          LET c == <<p, n>> IN
          /\ turn = None /\ call[c] = "new"
          /\ kind' = [kind EXCEPT ![c] = k]
          /\ call' = [call EXCEPT ![c] = "starting"]
          /\ turn' = c
          /\ frame' = [b \in Branch |-> IF CallOf(b) = c /\ b[3] <= Size(k) THEN "created" ELSE frame[b]]
          /\ IF k = "link" THEN UNCHANGED cnt
             ELSE cnt' = [cnt EXCEPT ![c] = IF k = "all" THEN InitialCnt(c) ELSE 0]
          /\ UNCHANGED <<next, exc, last, slot, out, ends>>
    BY DEF Begin
  <2>2. QED BY <2>1 DEF InitialCnt
<1> DEFINE c == <<p, n>>
<1>2. c \in Call BY DEF Call
<1>3. ControlType /\ (\A d \in Call : CallOK(d)) /\ None \notin Call /\ Width \in Nat /\ Width >= 2
  BY BranchFacts DEF Control
<1>4. kind'[c] = k /\ call'[c] = "starting" /\ turn' = c
      /\ \A d \in Call : d # c => kind'[d] = kind[d] /\ call'[d] = call[d]
  BY <1>1, <1>2, <1>3 DEF ControlType
<1>5. /\ cnt'[c] = (IF k = "all" THEN Width ELSE IF k = "link" THEN cnt[c] ELSE 0)
      /\ \A d \in Call : d # c => cnt'[d] = cnt[d]
  BY <1>1, <1>2, <1>3 DEF ControlType
<1>6. ControlType'
  <2>1. cnt' \in [Call -> 0..Width] BY <1>1, <1>2, <1>3 DEF ControlType
  <2>2. frame' \in [Branch -> {"none", "created", "suspended", "ended", "gone"}]
    BY <1>1, <1>3 DEF ControlType
  <2>3. kind' \in [Call -> Kinds \cup {None}]
        /\ call' \in [Call -> {"new", "starting", "waiting", "returned"}]
    BY <1>1, <1>3 DEF ControlType
  <2>4. UNCHANGED <<next, exc, last, slot, out, ends>> BY <1>1
  <2>5. turn' \in Call \cup {None} BY <1>2, <1>4
  <2>6. QED BY <1>3, <2>1, <2>2, <2>3, <2>4, <2>5 DEF ControlType
<1>7. ASSUME NEW d \in Call, d # c PROVE CallOK(d)'
  <2>1. \A x \in BranchesOf(d) : frame'[x] = frame[x] BY <1>1, <1>7 DEF BranchesOf
  <2>2. turn' = d <=> turn = d BY <1>1, <1>3, <1>7
  <2>3. SameCall(d) BY <1>1, <1>4, <1>5, <1>7, <2>1, <2>2 DEF SameCall
  <2>4. QED BY <1>3, <2>3, Untouched
<1>8. CallOK(c)'
  <2>1. ends'[c] = <<>> /\ ~exc'[c] /\ next'[c] = 1 BY <1>1, <1>2, <1>3 DEF CallOK
  <2>2. Count(c)' = Size(k) BY <1>4 DEF Count
  <2>3. Size(k) \in 1..Width BY <1>3 DEF Size
  <2>4. ASSUME NEW i \in 1..Size(k) PROVE frame'[Of(c, i)] = "created"
    <3>1. i \in 1..Width /\ i <= Size(k) BY <1>3, <2>3
    <3>2. Of(c, i) \in Branch /\ CallOf(Of(c, i)) = c /\ Of(c, i)[3] = i
      BY <1>2, <3>1, BranchFacts
    <3>3. QED BY <1>1, <3>1, <3>2
  <2>5. next'[c] \in 1..Count(c)' /\ \A i \in next'[c]..Count(c)' : frame'[Of(c, i)] = "created"
    BY <1>3, <2>1, <2>2, <2>3, <2>4
  <2>6. k = "all" => Unsettled(c)'
    <3>1. Len(<<>>) = 0 /\ DOMAIN <<>> = {} OBVIOUS
    <3>2. QED BY <1>3, <1>5, <2>1, <3>1 DEF Unsettled
  <2>7. QED BY <1>4, <2>1, <2>5, <2>6 DEF CallOK, Running
<1>9. QED BY <1>6, <1>7, <1>8 DEF Control

LEMMA SuspendsControl ==
  ASSUME Control, NEW c \in Call, StartSuspends(c)
  PROVE  Control' /\ next[c] \in 1..Width /\ Of(c, next[c]) \in Branch
<1> DEFINE b == Of(c, next[c])
<1>1. /\ turn = c /\ frame' = [frame EXCEPT ![b] = "suspended"] /\ Started(c)
      /\ UNCHANGED <<kind, exc, last, cnt, slot, out, ends>>
  BY DEF StartSuspends, blockVars
<1>2. ControlType /\ (\A d \in Call : CallOK(d)) /\ None \notin Call /\ Width \in Nat
  BY BranchFacts DEF Control
<1>3. call[c] = "starting" /\ kind[c] \in Kinds /\ next[c] \in 1..Count(c)
      /\ \A i \in next[c]..Count(c) : frame[Of(c, i)] = "created"
  BY <1>1, <1>2 DEF CallOK
<1>4. Count(c) \in 1..Width /\ next[c] \in 1..Width BY <1>2, <1>3, CountFacts
<1>5. b \in Branch /\ CallOf(b) = c /\ b[3] = next[c] BY <1>4, BranchFacts
<1>6. frame[b] = "created" BY <1>3, <1>4
<1>7. frame'[b] = "suspended" /\ \A x \in Branch : x # b => frame'[x] = frame[x]
  BY <1>1, <1>2, <1>5 DEF ControlType
<1>8. next' = [next EXCEPT ![c] = @ + 1]
      /\ IF next[c] = Count(c) THEN turn' = None /\ call' = [call EXCEPT ![c] = "waiting"]
         ELSE turn' = turn /\ call' = call
  BY <1>1 DEF Started
<1>9. ControlType'
  <2>1. next' \in [Call -> Nat]
    <3>1. next \in [Call -> Nat] /\ next[c] + 1 \in Nat BY <1>2 DEF ControlType
    <3>2. QED BY <1>8, <3>1
  <2>2. call' \in [Call -> {"new", "starting", "waiting", "returned"}] /\ turn' \in Call \cup {None}
    BY <1>2, <1>8 DEF ControlType
  <2>3. frame' \in [Branch -> {"none", "created", "suspended", "ended", "gone"}]
    BY <1>1, <1>2 DEF ControlType
  <2>4. QED BY <1>1, <1>2, <2>1, <2>2, <2>3 DEF ControlType
<1>10. ASSUME NEW d \in Call, d # c PROVE CallOK(d)'
  <2>1. \A x \in BranchesOf(d) : frame'[x] = frame[x] BY <1>5, <1>7, <1>10 DEF BranchesOf
  <2>2. turn' = d <=> turn = d BY <1>1, <1>2, <1>8, <1>10
  <2>3. next'[d] = next[d] /\ call'[d] = call[d] BY <1>2, <1>8, <1>10 DEF ControlType
  <2>4. SameCall(d) BY <1>1, <2>1, <2>2, <2>3 DEF SameCall
  <2>5. QED BY <1>2, <2>4, Untouched
<1>11. CallOK(c)'
  <2>1. next'[c] = next[c] + 1 /\ IF next[c] = Count(c) THEN turn' = None /\ call'[c] = "waiting"
                                  ELSE turn' = c /\ call'[c] = "starting"
    BY <1>1, <1>2, <1>3, <1>8 DEF ControlType
  <2>2. Count(c)' = Count(c) /\ kind'[c] = kind[c] BY <1>1 DEF Count
  <2>3. call'[c] = "starting" <=> turn' = c BY <1>2, <2>1
  <2>4. ASSUME call'[c] = "starting"
        PROVE  next'[c] \in 1..Count(c) /\ \A i \in next'[c]..Count(c) : frame'[Of(c, i)] = "created"
    <3>1. next[c] # Count(c) BY <2>1, <2>4
    <3>2. next'[c] \in 1..Count(c) BY <1>3, <1>4, <2>1, <3>1
    <3>3. ASSUME NEW i \in next'[c]..Count(c) PROVE frame'[Of(c, i)] = "created"
      <4>1. i \in next[c]..Count(c) /\ i \in 1..Width /\ i # next[c] BY <1>2, <1>3, <1>4, <2>1
      <4>2. Of(c, i) \in Branch /\ Of(c, i) # b BY <1>5, <4>1, BranchFacts
      <4>3. QED BY <1>3, <1>7, <4>1, <4>2
    <3>4. QED BY <3>2, <3>3
  <2>5. kind[c] = "all" => Unsettled(c)'
    <3>1. kind[c] = "all" => Unsettled(c) BY <1>2, <1>3 DEF CallOK, Running
    <3>2. \A j \in DOMAIN ends[c] : ends[c][j][1] \in 1..Width BY <1>2 DEF ControlType
    <3>3. ASSUME kind[c] = "all", NEW j \in DOMAIN ends[c]
          PROVE  frame'[Of(c, ends[c][j][1])] = "ended"
      <4>1. frame[Of(c, ends[c][j][1])] = "ended" BY <3>1, <3>3 DEF Unsettled
      <4>2. Of(c, ends[c][j][1]) \in Branch BY <3>2, <3>3, BranchFacts
      <4>3. QED BY <1>6, <1>7, <4>1, <4>2
    <3>4. QED BY <1>1, <3>1, <3>3 DEF Unsettled
  <2>6. kind[c] # "all" => ends'[c] = <<>> /\ ~exc'[c] BY <1>1, <1>2, <1>3 DEF CallOK, Running
  <2>7. call'[c] \in {"starting", "waiting"} BY <2>1
  <2>8. QED BY <1>3, <2>2, <2>3, <2>4, <2>5, <2>6, <2>7 DEF CallOK, Running
<1>12. QED BY <1>4, <1>5, <1>9, <1>10, <1>11 DEF Control

LEMMA StartEndsControl ==
  ASSUME Control, NEW c \in Call, StartEnds(c)
  PROVE  Control'
<1> DEFINE b == Of(c, next[c])
<1>1. turn = c /\ kind' = kind /\ \E how \in Hows(b) : Ends(b, how) BY DEF StartEnds
<1>2. CallOK(c) BY DEF Control
<1>3. call[c] = "starting" /\ kind[c] \in Kinds /\ next[c] \in 1..Count(c) BY <1>1, <1>2 DEF CallOK
<1>4. next[c] \in 1..Width BY <1>3, CountFacts, BranchFacts
<1>5. b \in Branch /\ CallOf(b) = c BY <1>4, BranchFacts
<1>6. MayEnd(b) BY <1>1, <1>5 DEF MayEnd
<1>7. PICK how \in How : Ends(b, how) BY <1>1 DEF Hows, How
<1>8. QED BY <1>1, <1>5, <1>6, <1>7, EndsControl

LEMMA ResumeControl ==
  ASSUME Control, NEW b \in Branch, turn = None, ResumeBranch(b), UNCHANGED kind
  PROVE  Control'
<1>1. CASE Alive(b)
  <2>1. PICK how \in How : Ends(b, how) BY <1>1 DEF ResumeBranch, Hows, How
  <2>2. MayEnd(b) BY <1>1 DEF MayEnd, Alive
  <2>3. QED BY <2>1, <2>2, EndsControl
<1>2. CASE ~Alive(b) BY <1>2, StillControl DEF ResumeBranch
<1>3. QED BY <1>1, <1>2

-----------------------------------------------------------------------------
(* What the loop holds is branches. *)

Entry == [b : Branch, res : {"ok", "canceled", "etime", "einval"}]

LoopType ==
  /\ way \in [Branch -> Ways \cup {"op", "timeout", None}]
  /\ \A b \in Branch : IsTimeout(b) => b[3] = 2
  /\ timerTree \in SUBSET Branch /\ yieldQueue \in Seq(Branch)
  /\ sq \in Seq(Branch) /\ fly \in SUBSET Branch /\ cq \in Seq(Entry) /\ batch \in Seq(Branch)

LEMMA AcceptedFacts ==
  ASSUME NEW q \in Seq(Branch)
  PROVE  Accepted(q) \in SUBSET Branch /\ Refused(q) \in Seq(Branch) /\ Invalid(q) \in Seq(Entry)
<1>1. \A k \in DOMAIN q : q[k] \in Branch OBVIOUS
<1>2. Accepted(q) \in SUBSET Branch BY <1>1 DEF Accepted
<1>3. Refused(q) \in Seq(Branch) BY KeepFacts DEF Refused
<1>4. Invalid(q) \in Seq(Entry)
  <2> DEFINE r == Refused(q)
  <2>1. Len(r) \in Nat /\ DOMAIN r = 1..Len(r) /\ \A j \in DOMAIN r : r[j] \in Branch BY <1>3
  <2> HIDE DEF r
  <2>2. \A j \in DOMAIN r : Cqe(r[j], "einval") \in Entry BY <2>1 DEF Cqe, Entry
  <2>3. [j \in DOMAIN r |-> Cqe(r[j], "einval")] \in Seq(Entry) BY <2>1, <2>2
  <2>4. QED BY <2>3 DEF Invalid, r
<1>5. QED BY <1>2, <1>3, <1>4

LEMMA LeftInQueueType ==
  ASSUME NEW q \in Seq(Branch), NEW S
  PROVE  LeftInQueue(q, S) \in Seq(Branch)
BY KeepFacts DEF LeftInQueue

LEMMA GetSqeType ==
  ASSUME LoopType, NEW b \in Branch, GetSqe(b)
  PROVE  sq' \in Seq(Branch) /\ fly' \in SUBSET Branch /\ cq' \in Seq(Entry)
<1>1. sq \in Seq(Branch) /\ fly \in SUBSET Branch /\ cq \in Seq(Entry) BY DEF LoopType
<1>2. Append(sq, b) \in Seq(Branch) /\ <<b>> \in Seq(Branch) BY <1>1
<1>3. Accepted(sq) \in SUBSET Branch /\ cq \o Invalid(sq) \in Seq(Entry) BY <1>1, AcceptedFacts
<1>4. QED BY <1>1, <1>2, <1>3 DEF GetSqe

LEMMA GetPairType ==
  ASSUME LoopType, NEW c \in Call, GetPair(c)
  PROVE  sq' \in Seq(Branch) /\ fly' \in SUBSET Branch /\ cq' \in Seq(Entry)
<1> DEFINE op == Of(c, 1)
           timeout == Of(c, 2)
           first == IF Len(sq) + 1 = SqSize THEN Append(sq, op) ELSE sq
<1>1. sq \in Seq(Branch) /\ fly \in SUBSET Branch /\ cq \in Seq(Entry) BY DEF LoopType
<1>2. op \in Branch /\ timeout \in Branch BY BranchFacts
<1>3. IF Len(sq) + 2 <= SqSize
      THEN sq' = sq \o <<op, timeout>> /\ UNCHANGED <<fly, cq>>
      ELSE /\ sq' = IF first = sq THEN <<op, timeout>> ELSE <<timeout>>
           /\ fly' = fly \cup Accepted(first) /\ cq' = cq \o Invalid(first)
  BY DEF GetPair
<1> HIDE DEF op, timeout
<1>4. first \in Seq(Branch) /\ <<op, timeout>> \in Seq(Branch) /\ <<timeout>> \in Seq(Branch)
      /\ sq \o <<op, timeout>> \in Seq(Branch)
  BY <1>1, <1>2
<1> HIDE DEF first
<1>5. Accepted(first) \in SUBSET Branch /\ cq \o Invalid(first) \in Seq(Entry)
  BY <1>1, <1>4, AcceptedFacts
<1>6. QED BY <1>1, <1>3, <1>4, <1>5

LEMMA BeginType ==
  ASSUME LoopType, NEW p \in Parent, Begin(p)
  PROVE  LoopType'
<1>1. PICK n \in 1..MaxCalls, k \in Kinds :
        LET c == <<p, n>> IN
        IF k = "link"
        THEN /\ way' = [way EXCEPT ![Of(c, 1)] = "op", ![Of(c, 2)] = "timeout"]
             /\ GetPair(c)
        ELSE /\ \E w \in [1..Width -> IF k = "any" THEN AnyWays ELSE Ways] :
                  way' = [b \in Branch |-> IF CallOf(b) = c THEN w[b[3]] ELSE way[b]]
             /\ UNCHANGED <<sq, linked, fly, cq>>
  BY DEF Begin
<1>2. timerTree' = timerTree /\ yieldQueue' = yieldQueue /\ batch' = batch BY DEF Begin, timerVars
<1> DEFINE c == <<p, n>>
<1>3. c \in Call BY DEF Call
<1>4. /\ way \in [Branch -> Ways \cup {"op", "timeout", None}]
      /\ \A b \in Branch : way[b] = "timeout" => b[3] = 2
      /\ sq \in Seq(Branch) /\ fly \in SUBSET Branch /\ cq \in Seq(Entry)
  BY DEF LoopType, IsTimeout
<1>5. CASE k = "link"
  <2>1. way' = [way EXCEPT ![Of(c, 1)] = "op", ![Of(c, 2)] = "timeout"] /\ GetPair(c)
    BY <1>1, <1>5
  <2>2. sq' \in Seq(Branch) /\ fly' \in SUBSET Branch /\ cq' \in Seq(Entry)
    BY <1>3, <2>1, GetPairType
  <2>3. Of(c, 1) \in Branch /\ Of(c, 2) \in Branch /\ Of(c, 2)[3] = 2 BY <1>3, BranchFacts
  <2>4. way' \in [Branch -> Ways \cup {"op", "timeout", None}] BY <1>4, <2>1
  <2>5. \A b \in Branch : way'[b] = "timeout" => b[3] = 2 BY <1>4, <2>1, <2>3
  <2>6. QED BY <1>2, <2>2, <2>4, <2>5 DEF LoopType, IsTimeout
<1>6. CASE k # "link"
  <2>1. PICK w \in [1..Width -> Ways] :
          way' = [b \in Branch |-> IF CallOf(b) = c THEN w[b[3]] ELSE way[b]]
    <3>1. PICK w \in [1..Width -> IF k = "any" THEN AnyWays ELSE Ways] :
            way' = [b \in Branch |-> IF CallOf(b) = c THEN w[b[3]] ELSE way[b]]
      BY <1>1, <1>6
    <3>2. w \in [1..Width -> Ways] BY CombinatorsAssumption
    <3>3. QED BY <3>1, <3>2
  <2>2. \A b \in Branch : w[b[3]] \in Ways /\ w[b[3]] # "timeout"
    BY BranchFacts, CombinatorsAssumption
  <2>3. way' \in [Branch -> Ways \cup {"op", "timeout", None}] BY <1>4, <2>1, <2>2
  <2>4. \A b \in Branch : way'[b] = "timeout" => b[3] = 2 BY <1>4, <2>1, <2>2
  <2>5. sq' = sq /\ fly' = fly /\ cq' = cq BY <1>1, <1>6
  <2>6. QED BY <1>2, <1>4, <2>3, <2>4, <2>5 DEF LoopType, IsTimeout
<1>7. QED BY <1>5, <1>6

LEMMA OpCompletesType ==
  ASSUME LoopType, NEW b \in Branch, OpCompletes(b)
  PROVE  LoopType'
<1> DEFINE t == {Partner(b)} \cap fly \cap {x \in fly : IsTimeout(x)}
           x == Cqe(b, "ok")
           y == [j \in 1..Cardinality(t) |-> Cqe(Partner(b), "canceled")]
<1>1. /\ fly' = fly \ ({b} \cup t) /\ cq' = cq \o <<x>> \o y
      /\ UNCHANGED <<way, timerTree, yieldQueue, sq, batch>>
  BY DEF OpCompletes, timerVars
<1>2. fly \in SUBSET Branch /\ cq \in Seq(Entry) BY DEF LoopType
<1>3. y \in Seq(Entry)
  <2>1. CASE t = {}
    <3>1. Cardinality(t) = 0 BY <2>1, FS_EmptySet
    <3> HIDE DEF t
    <3>2. y = <<>> BY <3>1
    <3>3. <<>> \in Seq(Entry) OBVIOUS
    <3> HIDE DEF y
    <3>4. QED BY <3>2, <3>3
  <2>2. CASE t # {}
    <3>1. t = {Partner(b)} /\ Partner(b) \in Branch BY <1>2, <2>2
    <3>2. Cardinality(t) = 1 BY <3>1, FS_Singleton
    <3>3. Cqe(Partner(b), "canceled") \in Entry BY <3>1 DEF Cqe, Entry
    <3> HIDE DEF t
    <3>4. QED BY <3>2, <3>3
  <2>3. QED BY <2>1, <2>2
<1>4. x \in Entry BY DEF Cqe, Entry
<1> HIDE DEF x, y, t
<1>5. cq' \in Seq(Entry) BY <1>1, <1>2, <1>3, <1>4
<1>6. fly' \in SUBSET Branch BY <1>1, <1>2
<1>7. QED BY <1>1, <1>5, <1>6 DEF LoopType, IsTimeout

LEMMA TimeoutFiresType ==
  ASSUME LoopType, NEW b \in Branch, TimeoutFires(b)
  PROVE  LoopType'
<1> DEFINE t == Cqe(b, "etime")
           o == Cqe(Partner(b), "canceled")
           k == Cqe(Partner(b), "ok")
<1>1. /\ IsTimeout(b) /\ fly' \in {fly \ {b, Partner(b)}, fly \ {b}}
      /\ cq' \in {cq \o <<t, o>>, cq \o <<o, t>>, Append(cq, t), Append(Append(cq, k), t)}
      /\ UNCHANGED <<way, timerTree, yieldQueue, sq, batch>>
  BY DEF TimeoutFires, timerVars
<1>2. fly \in SUBSET Branch /\ cq \in Seq(Entry) BY DEF LoopType
<1>3. b[3] = 2 BY <1>1 DEF LoopType
<1>4. Partner(b) \in Branch
  <2>1. CallOf(b) \in Call BY BranchFacts
  <2>2. Of(CallOf(b), 1) \in Branch BY <2>1, BranchFacts
  <2>3. QED BY <1>3, <2>2 DEF Partner
<1>5. t \in Entry /\ o \in Entry /\ k \in Entry BY <1>4 DEF Cqe, Entry
<1> HIDE DEF t, o, k
<1>6. <<t, o>> \in Seq(Entry) /\ <<o, t>> \in Seq(Entry) BY <1>5
<1>7. cq' \in Seq(Entry)
  <2>1. cq \o <<t, o>> \in Seq(Entry) /\ cq \o <<o, t>> \in Seq(Entry) BY <1>2, <1>6
  <2>2. Append(cq, t) \in Seq(Entry) /\ Append(cq, k) \in Seq(Entry) BY <1>2, <1>5
  <2>3. Append(Append(cq, k), t) \in Seq(Entry) BY <1>5, <2>2
  <2>4. QED BY <1>1, <2>1, <2>2, <2>3
<1>8. fly' \in SUBSET Branch BY <1>1, <1>2
<1>9. QED BY <1>1, <1>7, <1>8 DEF LoopType, IsTimeout

(* What Collect takes out of the ring.                                     *)
Got(n) == Keep(SubSeq(cq, 1, n), {e \in ToSet(cq) : ~Skipped(e)})

LEMMA GotType ==
  ASSUME LoopType, NEW n \in DOMAIN cq
  PROVE  /\ SubSeq(cq, 1, n) \in Seq(Entry) /\ Got(n) \in Seq(Entry)
         /\ [j \in DOMAIN Got(n) |-> Got(n)[j].b] \in Seq(Branch)
         /\ SubSeq(cq, n + 1, Len(cq)) \in Seq(Entry)
<1>1. cq \in Seq(Entry) BY DEF LoopType
<1>2. SubSeq(cq, 1, n) \in Seq(Entry) /\ SubSeq(cq, n + 1, Len(cq)) \in Seq(Entry) BY <1>1
<1>3. Got(n) \in Seq(Entry) BY <1>2, KeepFacts DEF Got
<1>4. [j \in DOMAIN Got(n) |-> Got(n)[j].b] \in Seq(Branch)
  <2> DEFINE g == Got(n)
  <2>1. g \in Seq(Entry) BY <1>3
  <2> HIDE DEF g
  <2>2. Len(g) \in Nat /\ DOMAIN g = 1..Len(g) /\ \A j \in DOMAIN g : g[j] \in Entry BY <2>1
  <2>3. \A j \in DOMAIN g : g[j].b \in Branch BY <2>2 DEF Entry
  <2>4. [j \in DOMAIN g |-> g[j].b] \in Seq(Branch) BY <2>2, <2>3
  <2>5. QED BY <2>4 DEF g
<1>5. QED BY <1>2, <1>3, <1>4

LEMMA LoopTypeStep ==
  ASSUME Control, LoopType, [Next]_vars
  PROVE  LoopType'
<1>1. CASE UNCHANGED vars BY <1>1 DEF vars, timerVars, ringVars, LoopType, IsTimeout
<1>2. ASSUME NEW p \in Parent, Begin(p) PROVE LoopType' BY <1>2, BeginType
<1>3. ASSUME NEW c \in Call, StartSuspends(c) PROVE LoopType'
  <2> DEFINE b == Of(c, next[c])
  <2>1. b \in Branch BY <1>3, SuspendsControl
  <2>2. /\ timerTree' = IF way[b] = "timer" THEN timerTree \cup {b} ELSE timerTree
        /\ yieldQueue' = IF way[b] = "yield" THEN Append(yieldQueue, b) ELSE yieldQueue
        /\ (IF way[b] = "aio" THEN GetSqe(b) ELSE UNCHANGED <<sq, fly, cq>>)
        /\ way' = way /\ batch' = batch
    BY <1>3 DEF StartSuspends
  <2>3. sq' \in Seq(Branch) /\ fly' \in SUBSET Branch /\ cq' \in Seq(Entry)
    BY <2>1, <2>2, GetSqeType DEF LoopType
  <2>4. timerTree' \in SUBSET Branch BY <2>1, <2>2 DEF LoopType
  <2>5. yieldQueue' \in Seq(Branch)
    <3> HIDE DEF b
    <3>1. yieldQueue \in Seq(Branch) BY DEF LoopType
    <3>2. Append(yieldQueue, b) \in Seq(Branch) BY <2>1, <3>1
    <3>3. QED BY <2>2, <3>1, <3>2
  <2>6. QED BY <2>2, <2>3, <2>4, <2>5 DEF LoopType, IsTimeout
<1>4. ASSUME NEW c \in Call, StartEnds(c) PROVE LoopType'
  <2>1. /\ timerTree' = timerTree \ Gone /\ yieldQueue' = LeftInQueue(yieldQueue, Gone)
        /\ UNCHANGED <<way, sq, fly, cq, batch>>
    BY <1>4 DEF StartEnds, LeftByFrames, ringVars
  <2>2. QED BY <2>1, LeftInQueueType DEF LoopType, IsTimeout
<1>5. ASSUME NEW b \in Branch, OpCompletes(b) PROVE LoopType' BY <1>5, OpCompletesType
<1>6. ASSUME NEW b \in Branch, TimeoutFires(b) PROVE LoopType' BY <1>6, TimeoutFiresType
<1>7. ASSUME NEW b \in Branch, TimerRuns(b) PROVE LoopType'
  <2>1. /\ timerTree' = (timerTree \ Gone) \ {b} /\ yieldQueue' = LeftInQueue(yieldQueue, Gone)
        /\ UNCHANGED <<way, sq, fly, cq, batch>>
    BY <1>7 DEF TimerRuns, LeftByFrames, ringVars
  <2>2. QED BY <2>1, LeftInQueueType DEF LoopType, IsTimeout
<1>8. CASE Submit
  <2>1. /\ fly' = fly \cup Accepted(sq) /\ cq' = cq \o Invalid(sq) /\ sq' = <<>>
        /\ UNCHANGED <<way, timerTree, yieldQueue, batch>>
    BY <1>8 DEF Submit, timerVars
  <2>2. Accepted(sq) \in SUBSET Branch /\ Invalid(sq) \in Seq(Entry) BY AcceptedFacts DEF LoopType
  <2>3. cq \o Invalid(sq) \in Seq(Entry) /\ fly' \in SUBSET Branch BY <2>1, <2>2 DEF LoopType
  <2>4. <<>> \in Seq(Branch) OBVIOUS
  <2>5. QED BY <2>1, <2>3, <2>4 DEF LoopType, IsTimeout
<1>9. CASE YieldRuns
  <2>1. /\ timerTree' = timerTree \ Gone /\ yieldQueue' = LeftInQueue(Tail(yieldQueue), Gone)
        /\ yieldQueue # <<>> /\ UNCHANGED <<way, sq, fly, cq, batch>>
    BY <1>9 DEF YieldRuns, LeftByFrames, ringVars
  <2>2. Tail(yieldQueue) \in Seq(Branch) BY <2>1 DEF LoopType
  <2>3. QED BY <2>1, <2>2, LeftInQueueType DEF LoopType, IsTimeout
<1>10. CASE Collect
  <2>1. PICK n \in DOMAIN cq : /\ batch' = [j \in DOMAIN Got(n) |-> Got(n)[j].b]
                               /\ cq' = SubSeq(cq, n + 1, Len(cq))
    BY <1>10 DEF Collect, Got
  <2>2. UNCHANGED <<way, timerTree, yieldQueue, sq, fly>> BY <1>10 DEF Collect, timerVars
  <2>3. batch' \in Seq(Branch) /\ cq' \in Seq(Entry) BY <2>1, GotType
  <2>4. QED BY <2>2, <2>3 DEF LoopType, IsTimeout
<1>11. CASE ResumeTask
  <2>1. /\ timerTree' = timerTree \ Gone /\ yieldQueue' = LeftInQueue(yieldQueue, Gone)
        /\ batch # <<>> /\ batch' = Tail(batch) /\ UNCHANGED <<way, sq, fly, cq>>
    BY <1>11 DEF ResumeTask, LeftByFrames
  <2>2. batch' \in Seq(Branch) BY <2>1 DEF LoopType
  <2>3. QED BY <2>1, <2>2, LeftInQueueType DEF LoopType, IsTimeout
<1>12. QED
  BY <1>1, <1>2, <1>3, <1>4, <1>5, <1>6, <1>7, <1>8, <1>9, <1>10, <1>11 DEF Next

LEMMA ControlStep ==
  ASSUME Control, LoopType, [Next]_vars
  PROVE  Control'
<1>1. CASE UNCHANGED vars BY <1>1, StillControl DEF vars
<1>2. ASSUME NEW p \in Parent, Begin(p) PROVE Control' BY <1>2, BeginControl
<1>3. ASSUME NEW c \in Call, StartSuspends(c) PROVE Control' BY <1>3, SuspendsControl
<1>4. ASSUME NEW c \in Call, StartEnds(c) PROVE Control' BY <1>4, StartEndsControl
<1>5. ASSUME NEW b \in Branch, OpCompletes(b) PROVE Control'
  BY <1>5, StillControl DEF OpCompletes
<1>6. ASSUME NEW b \in Branch, TimeoutFires(b) PROVE Control'
  BY <1>6, StillControl DEF TimeoutFires
<1>7. ASSUME NEW b \in Branch, TimerRuns(b) PROVE Control'
  BY <1>7, ResumeControl DEF TimerRuns, LoopIdle
<1>8. CASE Submit BY <1>8, StillControl DEF Submit
<1>9. CASE YieldRuns
  <2>1. yieldQueue # <<>> /\ yieldQueue \in Seq(Branch) BY <1>9 DEF YieldRuns, LoopType
  <2>2. Head(yieldQueue) \in Branch BY <2>1
  <2>3. QED BY <1>9, <2>2, ResumeControl DEF YieldRuns, LoopIdle
<1>10. CASE Collect BY <1>10, StillControl DEF Collect
<1>11. CASE ResumeTask
  <2>1. batch # <<>> /\ batch \in Seq(Branch) BY <1>11 DEF ResumeTask, LoopType
  <2>2. Head(batch) \in Branch BY <2>1
  <2>3. QED BY <1>11, <2>2, ResumeControl DEF ResumeTask
<1>12. QED
  BY <1>1, <1>2, <1>3, <1>4, <1>5, <1>6, <1>7, <1>8, <1>9, <1>10, <1>11 DEF Next

LEMMA InitControl == Init => Control /\ LoopType
<1> SUFFICES ASSUME Init PROVE Control /\ LoopType
  OBVIOUS
<1>1. /\ kind = [c \in Call |-> None] /\ call = [c \in Call |-> "new"]
      /\ next = [c \in Call |-> 1] /\ way = [b \in Branch |-> None]
      /\ frame = [b \in Branch |-> "none"] /\ exc = [c \in Call |-> FALSE]
      /\ last = [c \in Call |-> 0] /\ cnt = [c \in Call |-> 0] /\ slot = [b \in Branch |-> "unset"]
      /\ out = [c \in Call |-> None] /\ ends = [c \in Call |-> <<>>] /\ turn = None
      /\ timerTree = {} /\ yieldQueue = <<>> /\ sq = <<>> /\ fly = {} /\ cq = <<>> /\ batch = <<>>
  BY DEF Init
<1>2. 0 \in 0..Width /\ None \notin Call BY BranchFacts
<1>3. <<>> \in Seq((1..Width) \X How) /\ <<>> \in Seq(Branch) /\ <<>> \in Seq(Entry) OBVIOUS
<1>4. ControlType
  <2>1. exc \in [Call -> BOOLEAN] BY <1>1, Zenon
  <2>2. out = [c \in Call |-> out[c]] BY <1>1, Zenon
  <2>3. ends \in [Call -> Seq((1..Width) \X How)] BY <1>1, <1>3, Zenon
  <2>4. QED BY <1>1, <1>2, <2>1, <2>2, <2>3 DEF ControlType
<1>5. ASSUME NEW c \in Call PROVE CallOK(c)
  BY <1>1, <1>2 DEF CallOK, Running, BranchesOf
<1>6. LoopType BY <1>1, <1>3, CombinatorsAssumption DEF LoopType, IsTimeout
<1>7. QED BY <1>4, <1>5, <1>6 DEF Control

-----------------------------------------------------------------------------
(* A combinator returns when it is decided, with what decided it: whenAny  *)
(* by the branch that ends first, whose value or exception it gives, and   *)
(* whenAll when every branch has ended, with the value or the exception of *)
(* each (anyStart, allStart and the await_suspend of WhenAny and WhenAll). *)
THEOREM ResultsAreExact == Spec => []ResultsExact
<1>1. Init => Control /\ LoopType BY InitControl
<1>2. Control /\ LoopType /\ [Next]_vars => Control' /\ LoopType' BY ControlStep, LoopTypeStep
<1>3. Control => ResultsExact
  BY DEF Control, CallOK, Settled, ResultsExact, FirstDecides, AllSettled
<1>4. QED BY <1>1, <1>2, <1>3, PTL DEF Spec

-----------------------------------------------------------------------------
(* What the timers, the yield queue and the ring hold of a call. *)

(* The branches with a completion Collect does not skip, those to resume,  *)
(* and all that the ring still knows of.                                   *)
Posted(q) == {q[i].b : i \in {j \in DOMAIN q : q[j].res # "canceled"}}
PostedOnce(q) ==
  \A i, j \in DOMAIN q :
    q[i].res # "canceled" /\ q[j].res # "canceled" /\ q[i].b = q[j].b => i = j
Live == Posted(cq)
Out == ToSet(batch)
Ring == ToSet(sq) \cup fly \cup Live \cup Out

(* The branches of a call that have not ended.                             *)
Left(c) == {i \in 1..Width : frame[Of(c, i)] # "ended"}
Counted == \A c \in Call : Running(c) /\ kind[c] = "all" => cnt[c] = Cardinality(Left(c))

(* A parent awaits one combinator after the other.                         *)
InOrder ==
  \A p \in Parent, m \in 1..MaxCalls, n \in 1..MaxCalls :
    m < n /\ call[<<p, n>>] # "new" => call[<<p, m>>] = "returned"

WaysOK(c) ==
  call[c] # "new" =>
    /\ kind[c] = "link" => way[Of(c, 1)] = "op" /\ way[Of(c, 2)] = "timeout"
    /\ kind[c] # "link" => \A b \in BranchesOf(c) : way[b] \in Ways
    /\ kind[c] = "any" => \A b \in BranchesOf(c) : way[b] \in AnyWays

(* An entry of the timers, of the yield queue and of the ring belongs to a *)
(* branch that waits for it; that of a linkTimeout may wait to be started, *)
(* or be late.                                                             *)
Timed == \A b \in timerTree : Alive(b) /\ way[b] = "timer" /\ kind[CallOf(b)] # "link"
Yielded ==
  /\ NoDup(yieldQueue)
  /\ \A b \in ToSet(yieldQueue) : Alive(b) /\ way[b] = "yield" /\ kind[CallOf(b)] # "link"
(* The operation of a call whose timeout could not cancel it goes its own  *)
(* way; neither it nor the timeout is queued any more.                     *)
Late(c) == Of(c, 2) \in late
LateOK ==
  \A b \in late :
    /\ b \in Branch /\ b = Of(CallOf(b), 2) /\ call[CallOf(b)] # "new" /\ kind[CallOf(b)] = "link"
    /\ b \notin ToSet(sq) \cup fly /\ Of(CallOf(b), 1) \notin ToSet(sq)
Waited ==
  /\ \A b \in Ring : IF kind[CallOf(b)] = "link" THEN b[3] \in {1, 2} ELSE way[b] = "aio"
  /\ \A b \in fly \cup Live \cup Out : Alive(b) \/ Late(CallOf(b))
  /\ \A b \in ToSet(sq) : Alive(b) \/ /\ frame[b] = "created" /\ kind[CallOf(b)] = "link"
                                      /\ turn = CallOf(b) /\ b[3] >= next[CallOf(b)]

(* Each branch has one entry at most.                                      *)
Once ==
  /\ NoDup(sq) /\ NoDup(batch) /\ PostedOnce(cq)
  /\ ToSet(sq) \cap (fly \cup Live \cup Out) = {}
  /\ fly \cap (Live \cup Out) = {} /\ Live \cap Out = {}

(* An operation and its timeout go the same way until one of them is over. *)
Paired(c) ==
  Running(c) /\ kind[c] = "link" /\ ~Late(c) =>
    /\ Of(c, 1) \in ToSet(sq) <=> Of(c, 2) \in ToSet(sq)
    /\ Of(c, 1) \in fly <=> Of(c, 2) \in fly
    /\ Of(c, 1) \in Live \cup Out => Of(c, 2) \notin Ring
    /\ Of(c, 2) \in Live \cup Out => Of(c, 1) \notin Ring

(* A queued timeout limits the entry before it.                            *)
Adjacent == \A j \in DOMAIN sq : IsTimeout(sq[j]) => Limits(sq, j)

Over == \A b \in Live \cup Out : IsTimeout(b) => b \in elapsed

Tokens ==
  /\ \A c \in Call : WaysOK(c) /\ Paired(c)
  /\ InOrder /\ Counted
  /\ LateOK /\ Timed /\ Yielded /\ Waited /\ Once /\ Adjacent /\ Over

(* A branch that waits belongs to a call that has not returned.            *)
LEMMA AliveRuns ==
  ASSUME Control, NEW b \in Branch, frame[b] \in {"created", "suspended"}
  PROVE  Running(CallOf(b)) /\ kind[CallOf(b)] \in Kinds
<1>1. CallOf(b) \in Call /\ b \in BranchesOf(CallOf(b)) BY BranchFacts DEF BranchesOf
<1>2. CallOK(CallOf(b)) /\ call[CallOf(b)] \in {"new", "starting", "waiting", "returned"}
  BY <1>1 DEF Control, ControlType
<1>3. QED BY <1>1, <1>2 DEF CallOK, Running

LEMMA LiveFacts ==
  ASSUME LoopType
  PROVE  /\ Live \in SUBSET Branch /\ Out \in SUBSET Branch /\ ToSet(sq) \in SUBSET Branch
         /\ ToSet(yieldQueue) \in SUBSET Branch /\ Ring \in SUBSET Branch
<1>1. \A j \in DOMAIN cq : cq[j].b \in Branch
  <2>1. \A j \in DOMAIN cq : cq[j] \in Entry BY DEF LoopType
  <2>2. QED BY <2>1 DEF Entry
<1>2. Live \in SUBSET Branch BY <1>1 DEF Live, Posted
<1>3. \A s \in Seq(Branch) : ToSet(s) \in SUBSET Branch BY DEF ToSet
<1>4. QED BY <1>2, <1>3 DEF LoopType, Out, Ring

(* How the frames are after a branch has ended.                            *)
LEMMA EndsFrames ==
  ASSUME Control, Counted, NEW b \in Branch, NEW how \in Hows(b), MayEnd(b), Ends(b, how),
         UNCHANGED kind
  PROVE  /\ frame'[b] \in {"ended", "gone"}
         /\ \A x \in Branch : x # b /\ frame'[x] # frame[x] =>
              /\ CallOf(x) = CallOf(b) /\ frame'[x] = "gone"
              /\ kind[CallOf(b)] = "all" => frame[x] = "ended"
         /\ \A d \in Call : Running(d)' => Running(d)
         /\ kind[CallOf(b)] = "link" => ~Running(CallOf(b))'
         /\ \A d \in Call : /\ call'[d] = "new" <=> call[d] = "new"
                            /\ call[d] = "returned" => call'[d] = "returned"
                            /\ d # CallOf(b) => next'[d] = next[d] /\ out'[d] = out[d]
         /\ kind[CallOf(b)] = "link" /\ out'[CallOf(b)] = 2 => b[3] = 2
         /\ turn' \in {None, turn} /\ turn \in {None, CallOf(b)}
         /\ Counted'
<1> DEFINE c == CallOf(b)
<1>1. /\ c \in Call /\ b[3] \in 1..Width /\ b \in BranchesOf(c) /\ Running(c) /\ kind[c] \in Kinds
      /\ turn \in {None, c} /\ (turn = c => call[c] = "starting" /\ b[3] = next[c])
      /\ frame[b] # "ended" /\ c # None /\ b = Of(c, b[3])
  BY BranchFacts, MayEndFacts DEF BranchesOf
<1>2. ControlType /\ (\A d \in Call : CallOK(d)) /\ kind' = kind BY DEF Control
<1> DEFINE Rest == /\ \A d \in Call : d # c =>
                        call'[d] = call[d] /\ next'[d] = next[d] /\ out'[d] = out[d]
                   /\ \A x \in Branch : CallOf(x) # c => frame'[x] = frame[x]
                   /\ turn' \in {None, turn}
<1>3. ASSUME NEW x, Returns(c, x), UNCHANGED next
      PROVE  /\ Rest /\ call'[c] = "returned" /\ out'[c] = x
             /\ \A y \in Branch : CallOf(y) = c => frame'[y] = "gone"
  <2>1. \A d \in Call : d # c => call'[d] = call[d] /\ next'[d] = next[d] /\ out'[d] = out[d]
    BY <1>2, <1>3 DEF Returns, ControlType
  <2>2. call'[c] = "returned" /\ out'[c] = x BY <1>1, <1>2, <1>3 DEF Returns, ControlType
  <2>3. turn' \in {None, turn} BY <1>3 DEF Returns
  <2>4. /\ \A y \in Branch : CallOf(y) # c => frame'[y] = frame[y]
        /\ \A y \in Branch : CallOf(y) = c => frame'[y] = "gone"
    BY <1>3 DEF Returns
  <2>5. QED BY <2>1, <2>2, <2>3, <2>4
<1>4. ASSUME StaysEnded(b)
      PROVE  /\ Rest /\ frame'[b] = "ended" /\ call'[c] \in {call[c], "waiting"}
             /\ \A y \in Branch : y # b => frame'[y] = frame[y]
  <2>1. frame'[b] = "ended" /\ (\A y \in Branch : y # b => frame'[y] = frame[y]) /\ out' = out
    BY <1>2, <1>4 DEF StaysEnded, ControlType
  <2>2. \A y \in Branch : CallOf(y) # c => y # b OBVIOUS
  <2>3. CASE turn = c
    <3>1. next' = [next EXCEPT ![c] = @ + 1]
          /\ IF next[c] = Count(c) THEN turn' = None /\ call' = [call EXCEPT ![c] = "waiting"]
             ELSE turn' = turn /\ call' = call
      BY <1>4, <2>3 DEF StaysEnded, Started
    <3>2. QED BY <1>1, <1>2, <2>1, <2>2, <3>1 DEF ControlType
  <2>4. CASE turn # c
    <3>1. UNCHANGED <<next, turn, call>> BY <1>4, <2>4 DEF StaysEnded
    <3>2. QED BY <2>1, <2>2, <3>1
  <2>5. QED BY <2>3, <2>4
<1>5. ASSUME NEW d \in Call, d # c, Rest PROVE Left(d)' = Left(d)
  <2>1. \A i \in 1..Width : Of(d, i) \in Branch /\ CallOf(Of(d, i)) # c BY <1>5, BranchFacts
  <2>2. QED BY <1>5, <2>1 DEF Left
<1>6. ASSUME Rest, \A d \in Call : d # c => cnt'[d] = cnt[d],
             Running(c)' /\ kind[c] = "all" => cnt'[c] = Cardinality(Left(c)')
      PROVE  Counted'
  <2>1. \A d \in Call : d # c /\ Running(d)' => Running(d) BY <1>6 DEF Running
  <2>2. ASSUME NEW d \in Call, Running(d)', kind[d] = "all" PROVE cnt'[d] = Cardinality(Left(d)')
    <3>1. CASE d = c BY <1>6, <2>2, <3>1
    <3>2. CASE d # c
      <4>1. Left(d)' = Left(d) BY <1>5, <1>6, <3>2
      <4>2. cnt[d] = Cardinality(Left(d)) BY <2>1, <2>2, <3>2 DEF Counted
      <4>3. cnt'[d] = cnt[d] BY <1>6, <3>2
      <4>4. QED BY <4>1, <4>2, <4>3
    <3>3. QED BY <3>1, <3>2
  <2>3. QED BY <1>2, <2>2 DEF Counted
<1>7. CASE kind[c] = "all"
  <2>1. AllEnds(b, how) BY <1>7 DEF Ends
  <2>2. cnt' = [cnt EXCEPT ![c] = cnt[c] - 1] BY <2>1 DEF AllEnds, Decrements
  <2>3. cnt[c] \in 1..Width /\ cnt'[c] = cnt[c] - 1 /\ \A d \in Call : d # c => cnt'[d] = cnt[d]
    BY <1>1, <1>2, <1>7, <2>2 DEF CallOK, Unsettled, ControlType
  <2>4. cnt[c] = Cardinality(Left(c)) BY <1>1, <1>7 DEF Counted
  <2>5. IsFiniteSet(Left(c)) /\ b[3] \in Left(c)
    <3>1. IsFiniteSet(1..Width) BY FS_Interval, BranchFacts
    <3>2. IsFiniteSet(Left(c)) BY <3>1, FS_Subset DEF Left
    <3>3. QED BY <1>1, <3>2 DEF Left
  <2>6. Cardinality(Left(c) \ {b[3]}) = cnt[c] - 1 /\ IsFiniteSet(Left(c) \ {b[3]})
    BY <2>4, <2>5, FS_RemoveElement
  <2>7. CASE cnt[c] - 1 = 0
    <3>1. \E x : Returns(c, x) /\ UNCHANGED next BY <2>1, <2>7 DEF AllEnds, Decrements
    <3>2. Rest /\ call'[c] = "returned" /\ \A y \in Branch : CallOf(y) = c => frame'[y] = "gone"
      <4> HIDE DEF Rest
      <4>1. QED BY <1>3, <3>1
    <3>3. Left(c) \ {b[3]} = {} BY <2>6, <2>7, FS_EmptySet
    <3>4. ASSUME NEW x \in Branch, x # b, CallOf(x) = c PROVE frame[x] = "ended"
      <4>1. x[3] \in 1..Width /\ x = Of(c, x[3]) BY <3>4, BranchFacts
      <4>2. x[3] # b[3] BY <1>1, <3>4, <4>1
      <4>3. QED BY <3>3, <4>1, <4>2 DEF Left
    <3>5. ~Running(c)' BY <3>2 DEF Running
    <3>6. Counted'
      <4> HIDE DEF Rest
      <4>1. QED BY <1>6, <2>3, <3>2, <3>5
    <3>7. QED BY <1>1, <1>7, <3>2, <3>4, <3>5, <3>6 DEF Running
  <2>8. CASE cnt[c] - 1 # 0
    <3>1. StaysEnded(b) BY <2>1, <2>8 DEF AllEnds, Decrements
    <3>2. Rest /\ frame'[b] = "ended" /\ call'[c] \in {call[c], "waiting"}
          /\ \A y \in Branch : y # b => frame'[y] = frame[y]
      BY <1>4, <3>1
    <3>3. Left(c)' = Left(c) \ {b[3]}
      <4>1. \A i \in 1..Width : Of(c, i) \in Branch /\ (i # b[3] => Of(c, i) # b)
        BY <1>1, BranchFacts
      <4>2. QED BY <1>1, <3>2, <4>1 DEF Left
    <3>4. Counted'
      <4> HIDE DEF Rest
      <4>1. QED BY <1>6, <2>3, <2>6, <3>2, <3>3
    <3>5. QED BY <1>1, <1>7, <3>2, <3>4 DEF Running
  <2>9. QED BY <2>7, <2>8
<1>8. CASE kind[c] # "all"
  <2>1. AnyEnds(b, how) BY <1>8 DEF Ends
  <2>2. ~exc[c] BY <1>1, <1>2, <1>8 DEF CallOK
  <2>3. /\ cnt' = cnt /\ UNCHANGED next
        /\ Returns(c, IF exc[c] \/ how = "throw" THEN "throw"
                      ELSE IF how = "value" THEN b[3] ELSE last[c])
    BY <2>1 DEF AnyEnds, Decides
  <2>4. how = "throw" \/ how = "value" BY DEF Hows
  <2>5. \E x : Returns(c, x) /\ (how = "throw" => x = "throw") /\ (how = "value" => x = b[3])
    <3>1. CASE how = "throw" BY <2>3, <3>1
    <3>2. CASE how = "value" BY <2>2, <2>3, <3>2
    <3>3. QED BY <2>4, <3>1, <3>2
  <2>6. /\ Rest /\ call'[c] = "returned" /\ \A y \in Branch : CallOf(y) = c => frame'[y] = "gone"
        /\ (how = "throw" => out'[c] = "throw") /\ (how = "value" => out'[c] = b[3])
    <3> HIDE DEF Rest
    <3>1. QED BY <1>3, <2>3, <2>5
  <2>7. ~Running(c)' BY <2>6 DEF Running
  <2>8. Counted'
    <3> HIDE DEF Rest
    <3>1. QED BY <1>6, <2>3, <2>6, <2>7
  <2>9. kind[c] = "link" => out'[c] = b[3]
    <3>1. kind[c] = "link" => how = "value" BY DEF Hows
    <3>2. QED BY <2>6, <3>1
  <2>10. QED BY <1>1, <1>8, <2>6, <2>7, <2>8, <2>9 DEF Running
<1>9. QED BY <1>7, <1>8

(* A branch of the ring is not raced by whenAny, nor is it ready at once;  *)
(* it waits, unless it is late.                                            *)
LEMMA RingWays ==
  ASSUME Control, LoopType, Tokens, NEW b \in Ring
  PROVE  /\ b \in Branch /\ CallOf(b) \in Call /\ call[CallOf(b)] # "new" /\ kind[CallOf(b)] \in Kinds
         /\ ~Late(CallOf(b)) => /\ frame[b] \in {"created", "suspended"} /\ Running(CallOf(b))
                                /\ frame[b] = "created" => b \in ToSet(sq)
         /\ b \in ToSet(sq) => ~Late(CallOf(b))
         /\ Late(CallOf(b)) => kind[CallOf(b)] = "link"
         /\ way[b] \in {"op", "timeout", "aio"}
         /\ kind[CallOf(b)] = "link" => b \in {Of(CallOf(b), 1), Of(CallOf(b), 2)}
<1> DEFINE c == CallOf(b)
<1>1. b \in Branch /\ c \in Call /\ b = Of(c, b[3]) BY LiveFacts, BranchFacts
<1>2. IF kind[c] = "link" THEN b[3] \in {1, 2} ELSE way[b] = "aio" BY DEF Tokens, Waited
<1>3. kind[c] = "link" => b \in {Of(c, 1), Of(c, 2)} BY <1>1, <1>2
<1>4. Late(c) => /\ call[c] # "new" /\ kind[c] = "link"
                 /\ Of(c, 1) \notin ToSet(sq) /\ Of(c, 2) \notin ToSet(sq)
  <2>1. CallOf(Of(c, 2)) = c BY <1>1, BranchFacts
  <2>2. LateOK BY DEF Tokens
  <2>3. QED BY <2>1, <2>2 DEF LateOK, Late
<1>5. b \in ToSet(sq) => ~Late(c) BY <1>3, <1>4
<1>6. ASSUME ~Late(c)
      PROVE  /\ frame[b] \in {"created", "suspended"} /\ Running(c)
             /\ frame[b] = "created" => b \in ToSet(sq)
  <2>1. frame[b] \in {"created", "suspended"} /\ (frame[b] = "created" => b \in ToSet(sq))
    BY <1>6 DEF Tokens, Waited, Ring, Alive
  <2>2. QED BY <1>1, <2>1, AliveRuns
<1>7. call[c] # "new" BY <1>4, <1>6 DEF Running
<1>8. kind[c] \in Kinds BY <1>1, <1>7 DEF Control, CallOK
<1>9. kind[c] = "link" => way[Of(c, 1)] = "op" /\ way[Of(c, 2)] = "timeout"
  BY <1>1, <1>7 DEF Tokens, WaysOK
<1>10. QED BY <1>1, <1>2, <1>3, <1>4, <1>5, <1>6, <1>7, <1>8, <1>9

LEMMA EndsTokens ==
  ASSUME Control, LoopType, Tokens, "aio" \notin AnyWays,
         NEW b \in Branch, NEW how \in Hows(b), MayEnd(b), Ends(b, how),
         UNCHANGED <<kind, way, sq, linked, fly, cq, elapsed, late>>,
         b \notin ToSet(sq) \cup fly \cup Live, Out' = Out \ {b}, NoDup(batch'),
         kind[CallOf(b)] = "link" => b \in Out,
         timerTree' \subseteq timerTree \ (Gone \cup {b}),
         NoDup(yieldQueue'), ToSet(yieldQueue') \subseteq ToSet(yieldQueue) \ (Gone \cup {b})
  PROVE  Tokens' /\ (TimeoutMeansElapsed => TimeoutMeansElapsed')
<1> DEFINE c == CallOf(b)
<1>1. c \in Call /\ b = Of(c, b[3]) /\ b[3] \in 1..Width /\ Running(c) /\ kind[c] \in Kinds
  BY BranchFacts, MayEndFacts
<1>2. /\ \A x \in Branch : x # b /\ frame'[x] # frame[x] =>
           CallOf(x) = c /\ frame'[x] = "gone" /\ (kind[c] = "all" => frame[x] = "ended")
      /\ \A d \in Call : Running(d)' => Running(d)
      /\ kind[c] = "link" => ~Running(c)'
      /\ \A d \in Call : /\ call'[d] = "new" <=> call[d] = "new"
                         /\ call[d] = "returned" => call'[d] = "returned"
                         /\ d # c => next'[d] = next[d] /\ out'[d] = out[d]
      /\ kind[c] = "link" /\ out'[c] = 2 => b[3] = 2
      /\ turn' \in {None, turn} /\ turn \in {None, c}
      /\ Counted'
  BY EndsFrames DEF Tokens
<1>3. Live' = Live /\ ToSet(sq)' = ToSet(sq) /\ fly' = fly BY DEF Live
<1>4. Ring' = Ring \ {b} BY <1>3 DEF Ring
<1>5. ASSUME NEW x \in Ring, x # b, ~Late(CallOf(x)) PROVE frame'[x] = frame[x]
  <2>1. x \in Branch /\ frame[x] \in {"created", "suspended"} /\ Running(CallOf(x)) BY <1>5, RingWays
  <2>2. SUFFICES ASSUME frame'[x] # frame[x] PROVE FALSE
    OBVIOUS
  <2>3. CallOf(x) = c /\ kind[c] # "all" BY <1>2, <1>5, <2>1, <2>2
  <2>4. CASE kind[c] = "link"
    <3>1. b \in Out /\ b \in Ring BY <2>4 DEF Ring
    <3>2. b \in {Of(c, 1), Of(c, 2)} /\ x \in {Of(c, 1), Of(c, 2)} BY <2>3, <2>4, <3>1, RingWays
    <3>3. Paired(c) BY <1>1 DEF Tokens
    <3>4. QED BY <1>1, <1>5, <2>3, <2>4, <3>1, <3>2, <3>3 DEF Paired
  <2>5. CASE kind[c] # "link"
    <3>1. way[x] = "aio" BY <1>5, <2>3, <2>5 DEF Tokens, Waited
    <3>2. kind[c] = "any" BY <1>1, <2>3, <2>5, CombinatorsAssumption
    <3>3. x \in BranchesOf(c) BY <2>1, <2>3 DEF BranchesOf
    <3>4. way[x] \in AnyWays BY <1>1, <3>2, <3>3 DEF Tokens, WaysOK, Running
    <3>5. QED BY <3>1, <3>4
  <2>6. QED BY <2>4, <2>5
<1>6. \A x \in Branch : x \notin Gone /\ x # b => frame'[x] = frame[x] BY <1>2 DEF Gone
<1>7. ASSUME NEW d \in Call PROVE WaysOK(d)' /\ Paired(d)'
  <2>1. WaysOK(d) /\ Paired(d) BY DEF Tokens
  <2>2. WaysOK(d)' BY <1>2, <2>1 DEF WaysOK, BranchesOf
  <2>3. ASSUME Running(d)', kind[d] = "link", ~Late(d)
        PROVE  /\ Of(d, 1) \in ToSet(sq) <=> Of(d, 2) \in ToSet(sq)
               /\ Of(d, 1) \in fly <=> Of(d, 2) \in fly
               /\ Of(d, 1) \in Live \cup Out' => Of(d, 2) \notin Ring'
               /\ Of(d, 2) \in Live \cup Out' => Of(d, 1) \notin Ring'
    <3>1. Running(d) BY <1>2, <2>3
    <3>2. QED BY <1>4, <2>1, <2>3, <3>1 DEF Paired
  <2>4. Paired(d)' BY <1>3, <2>3 DEF Paired, Late
  <2>5. QED BY <2>2, <2>4
<1>8. InOrder'
  <2>1. ASSUME NEW p \in Parent, NEW m \in 1..MaxCalls, NEW n \in 1..MaxCalls,
               m < n, call'[<<p, n>>] # "new"
        PROVE  call'[<<p, m>>] = "returned"
    <3>1. <<p, m>> \in Call /\ <<p, n>> \in Call BY DEF Call
    <3>2. call[<<p, m>>] = "returned" BY <1>2, <2>1, <3>1 DEF Tokens, InOrder
    <3>3. QED BY <1>2, <3>1, <3>2
  <2>2. QED BY <2>1 DEF InOrder
<1>9. Timed'
  <2>1. \A x \in timerTree' : x \in timerTree /\ x \in Branch /\ frame'[x] = frame[x]
    BY <1>6 DEF LoopType
  <2>2. QED BY <2>1 DEF Tokens, Timed, Alive
<1>10. Yielded'
  <2>1. \A x \in ToSet(yieldQueue') : x \in ToSet(yieldQueue) /\ frame'[x] = frame[x]
    BY <1>6, LiveFacts
  <2>2. QED BY <2>1 DEF Tokens, Yielded, Alive
<1>11. Waited'
  <2>1. \A x \in Ring' : IF kind[CallOf(x)] = "link" THEN x[3] \in {1, 2} ELSE way[x] = "aio"
    BY <1>4 DEF Tokens, Waited
  <2>2. \A x \in fly \cup Live \cup Out' : Alive(x)' \/ Late(CallOf(x))'
    <3>1. ASSUME NEW x \in fly \cup Live \cup Out', ~Late(CallOf(x)) PROVE frame'[x] = "suspended"
      <4>1. x \in Ring /\ x # b /\ Alive(x) BY <3>1 DEF Ring, Tokens, Waited
      <4>2. QED BY <1>5, <3>1, <4>1 DEF Alive
    <3>2. QED BY <3>1 DEF Alive, Late
  <2>3. ASSUME NEW x \in ToSet(sq)
        PROVE  Alive(x)' \/ /\ frame'[x] = "created" /\ kind[CallOf(x)] = "link"
                            /\ turn' = CallOf(x) /\ x[3] >= next'[CallOf(x)]
    <3>1. x \in Ring /\ x # b BY DEF Ring
    <3>2. ~Late(CallOf(x)) /\ frame'[x] = frame[x] BY <1>5, <3>1, RingWays
    <3>3. CASE Alive(x) BY <3>2, <3>3 DEF Alive
    <3>4. CASE ~Alive(x)
      <4>1. frame[x] = "created" /\ kind[CallOf(x)] = "link" /\ turn = CallOf(x)
        BY <3>4 DEF Tokens, Waited
      <4>2. CallOf(x) \in Call /\ CallOf(x) # None BY <3>1, RingWays, BranchFacts
      <4>3. CallOf(x) = c BY <1>2, <4>1, <4>2
      <4>4. b \in Out /\ b \in Ring BY <4>1, <4>3 DEF Ring
      <4>5. b \in {Of(c, 1), Of(c, 2)} /\ x \in {Of(c, 1), Of(c, 2)} BY <3>1, <4>1, <4>3, <4>4, RingWays
      <4>6. Paired(c) BY <1>1 DEF Tokens
      <4>7. QED BY <1>1, <3>1, <3>2, <4>1, <4>3, <4>4, <4>5, <4>6 DEF Paired
    <3>5. QED BY <3>3, <3>4
  <2>4. QED BY <1>3, <2>1, <2>2, <2>3 DEF Waited
<1>12. Once' BY <1>3 DEF Tokens, Once
<1>13. Adjacent' BY DEF Tokens, Adjacent, Limits, IsTimeout
<1>14. Over' BY <1>3 DEF Tokens, Over, IsTimeout
<1>19. LateOK'
  <2>1. \A x \in late : x \in Branch /\ CallOf(x) \in Call BY BranchFacts DEF Tokens, LateOK
  <2>2. QED BY <1>2, <1>3, <2>1 DEF Tokens, LateOK
<1>15. Tokens'
  BY <1>2, <1>7, <1>8, <1>9, <1>10, <1>11, <1>12, <1>13, <1>14, <1>19 DEF Tokens
<1>16. ASSUME TimeoutMeansElapsed, NEW d \in Call, kind[d] = "link", out'[d] = 2
       PROVE  Of(d, 2) \in elapsed
  <2>1. CASE d # c BY <1>2, <1>16, <2>1 DEF TimeoutMeansElapsed
  <2>2. CASE d = c
    <3>1. b = Of(c, 2) /\ b \in Out BY <1>1, <1>2, <1>16, <2>2
    <3>2. way[b] = "timeout" BY <1>1, <1>16, <2>2, <3>1 DEF Tokens, WaysOK, Running
    <3>3. QED BY <2>2, <3>1, <3>2 DEF Tokens, Over, IsTimeout
  <2>3. QED BY <2>1, <2>2
<1>17. TimeoutMeansElapsed => TimeoutMeansElapsed' BY <1>16 DEF TimeoutMeansElapsed
<1>18. QED BY <1>15, <1>17

Safe == (Defined => Tokens) /\ NoDangling /\ TimeoutMeansElapsed

(* Nothing new dangles.                                                    *)
LEMMA StillNamed ==
  ASSUME NoDangling, dangling' = dangling, late \subseteq late', UNCHANGED <<kind, way>>
  PROVE  NoDangling'
BY DEF NoDangling, MayOutlive

LEMMA LeftInQueueFacts ==
  ASSUME NEW q \in Seq(Branch), NEW S
  PROVE  /\ ToSet(LeftInQueue(q, S)) \subseteq ToSet(q) \ S
         /\ NoDup(q) => NoDup(LeftInQueue(q, S))
<1> DEFINE K == Keep(q, ToSet(q) \ S)
<1>1. /\ \A j \in DOMAIN K : K[j] \in ToSet(q) \ S
      /\ NoDupIn(q, ToSet(q) \ S) => NoDup(K)
  BY KeepFacts
<1>2. LeftInQueue(q, S) = K BY DEF LeftInQueue, LeftByFrames
<1> HIDE DEF K
<1>3. ToSet(K) \subseteq ToSet(q) \ S BY <1>1 DEF ToSet
<1>4. NoDup(q) => NoDupIn(q, ToSet(q) \ S) BY DEF NoDup, NoDupIn
<1>5. QED BY <1>1, <1>2, <1>3, <1>4

LEMMA TailFacts ==
  ASSUME NEW T, NEW q \in Seq(T), q # <<>>, NoDup(q)
  PROVE  /\ Tail(q) \in Seq(T) /\ Head(q) \in ToSet(q) /\ Head(q) \in T
         /\ ToSet(Tail(q)) = ToSet(q) \ {Head(q)} /\ NoDup(Tail(q))
<1>1. /\ Len(q) \in Nat /\ Len(q) >= 1 /\ DOMAIN q = 1..Len(q) /\ Head(q) = q[1] /\ q[1] \in T
      /\ Tail(q) \in Seq(T) /\ Len(Tail(q)) = Len(q) - 1
      /\ \A j \in 1..(Len(q) - 1) : Tail(q)[j] = q[j + 1]
  OBVIOUS
<1>2. DOMAIN Tail(q) = 1..(Len(q) - 1) BY <1>1
<1>3. \A i \in DOMAIN q, j \in DOMAIN q : q[i] = q[j] => i = j BY DEF NoDup
<1>4. Head(q) \in ToSet(q) BY <1>1 DEF ToSet
<1>5. ASSUME NEW x \in ToSet(Tail(q)) PROVE x \in ToSet(q) \ {Head(q)}
  <2>1. PICK j \in 1..(Len(q) - 1) : x = Tail(q)[j] BY <1>2 DEF ToSet
  <2>2. x = q[j + 1] /\ j + 1 \in DOMAIN q /\ j + 1 # 1 /\ 1 \in DOMAIN q BY <1>1, <2>1
  <2>3. x # q[1] BY <1>3, <2>2
  <2>4. QED BY <1>1, <2>2, <2>3 DEF ToSet
<1>6. ASSUME NEW x \in ToSet(q), x # Head(q) PROVE x \in ToSet(Tail(q))
  <2>1. PICK i \in DOMAIN q : x = q[i] BY DEF ToSet
  <2>2. i # 1 BY <1>1, <1>6, <2>1
  <2>3. i - 1 \in 1..(Len(q) - 1) /\ (i - 1) + 1 = i BY <1>1, <2>2
  <2>4. x = Tail(q)[i - 1] BY <1>1, <2>1, <2>3
  <2>5. QED BY <1>2, <2>3, <2>4 DEF ToSet
<1>7. NoDup(Tail(q))
  <2>1. ASSUME NEW i \in 1..(Len(q) - 1), NEW j \in 1..(Len(q) - 1), Tail(q)[i] = Tail(q)[j]
        PROVE  i = j
    <3>1. q[i + 1] = q[j + 1] /\ i + 1 \in DOMAIN q /\ j + 1 \in DOMAIN q BY <1>1, <2>1
    <3>2. i + 1 = j + 1 BY <1>3, <3>1
    <3>3. QED BY <3>2
  <2>2. QED BY <1>2, <2>1 DEF NoDup
<1>8. QED BY <1>1, <1>4, <1>5, <1>6, <1>7

LEMMA StartEndsSafe ==
  ASSUME Control, LoopType, Safe, "aio" \notin AnyWays, NEW c \in Call, StartEnds(c)
  PROVE  Safe'
<1> DEFINE b == Of(c, next[c])
<1>1. /\ turn = c /\ way[b] = "ready" /\ (\E how \in Hows(b) : Ends(b, how))
      /\ timerTree' = timerTree \ Gone /\ yieldQueue' = LeftInQueue(yieldQueue, Gone)
      /\ UNCHANGED <<kind, way, sq, linked, fly, cq, batch, elapsed, late, dangling>>
  BY DEF StartEnds, LeftByFrames, ringVars
<1>2. CallOK(c) /\ Tokens BY DEF Control, Safe, StartEnds
<1>3. call[c] = "starting" /\ kind[c] \in Kinds /\ next[c] \in 1..Count(c)
      /\ \A i \in next[c]..Count(c) : frame[Of(c, i)] = "created"
  BY <1>1, <1>2 DEF CallOK
<1>4. Count(c) \in 1..Width /\ next[c] \in 1..Width /\ next[c] \in next[c]..Count(c)
  BY <1>3, CountFacts, BranchFacts
<1>5. b \in Branch /\ CallOf(b) = c /\ b[3] = next[c] /\ frame[b] = "created"
  BY <1>3, <1>4, BranchFacts
<1> HIDE DEF b
<1>6. MayEnd(b)
  <2>1. b = Of(CallOf(b), next[CallOf(b)]) BY <1>5 DEF b
  <2>2. QED BY <1>1, <1>5, <2>1 DEF MayEnd
<1>7. b \notin Ring BY <1>1, <1>2, RingWays
<1>8. kind[c] # "link"
  <2>1. SUFFICES ASSUME kind[c] = "link" PROVE FALSE
    OBVIOUS
  <2>2. way[Of(c, 1)] = "op" /\ way[Of(c, 2)] = "timeout" BY <1>2, <1>3, <2>1 DEF Tokens, WaysOK
  <2>3. next[c] \in 1..2 BY <1>3, <2>1 DEF Count, Size
  <2>4. QED BY <1>1, <2>2, <2>3 DEF b
<1>9. timerTree' \subseteq timerTree \ (Gone \cup {b})
  BY <1>1, <1>2, <1>5 DEF Tokens, Timed, Alive
<1>10. NoDup(yieldQueue') /\ ToSet(yieldQueue') \subseteq ToSet(yieldQueue) \ (Gone \cup {b})
  <2>1. b \notin ToSet(yieldQueue) BY <1>2, <1>5 DEF Tokens, Yielded, Alive
  <2>2. NoDup(yieldQueue) BY <1>2 DEF Tokens, Yielded
  <2>3. QED BY <1>1, <2>1, <2>2, LeftInQueueFacts DEF LoopType
<1>11. b \notin ToSet(sq) \cup fly \cup Live /\ Out' = Out \ {b} /\ NoDup(batch')
  BY <1>1, <1>2, <1>7 DEF Ring, Out, Tokens, Once
<1>12. PICK how \in Hows(b) : Ends(b, how) BY <1>1
<1>13. Tokens' /\ (TimeoutMeansElapsed => TimeoutMeansElapsed')
  BY <1>1, <1>2, <1>5, <1>6, <1>8, <1>9, <1>10, <1>11, <1>12, EndsTokens
<1>14. NoDangling' BY <1>1, StillNamed DEF Safe
<1>15. QED BY <1>13, <1>14 DEF Safe

(* The loop resumes a branch that waits: a timer, a yield ...              *)
LEMMA LoopEndsSafe ==
  ASSUME Control, LoopType, Safe, Defined, "aio" \notin AnyWays, NEW b \in Branch, turn = None,
         Alive(b), way[b] \in {"timer", "yield"}, kind[CallOf(b)] # "link", ResumeBranch(b),
         UNCHANGED <<kind, way, sq, linked, fly, cq, batch, elapsed, late>>,
         timerTree' \subseteq timerTree \ (Gone \cup {b}),
         NoDup(yieldQueue'), ToSet(yieldQueue') \subseteq ToSet(yieldQueue) \ (Gone \cup {b})
  PROVE  Safe'
<1>1. PICK how \in Hows(b) : Ends(b, how) BY DEF ResumeBranch
<1>2. dangling' = dangling BY DEF ResumeBranch
<1>3. Tokens BY DEF Safe
<1>4. MayEnd(b) BY DEF MayEnd, Alive
<1>5. b \notin Ring BY <1>3, RingWays
<1>6. b \notin ToSet(sq) \cup fly \cup Live /\ Out' = Out \ {b} /\ NoDup(batch')
  BY <1>3, <1>5 DEF Ring, Out, Tokens, Once
<1>7. Tokens' /\ (TimeoutMeansElapsed => TimeoutMeansElapsed')
  BY <1>1, <1>3, <1>4, <1>6, EndsTokens
<1>8. NoDangling' BY <1>2, StillNamed DEF Safe
<1>9. QED BY <1>7, <1>8 DEF Safe

LEMMA TimerRunsSafe ==
  ASSUME Control, LoopType, Safe, "aio" \notin AnyWays, NEW b \in Branch, TimerRuns(b)
  PROVE  Safe'
<1>1. /\ Defined /\ turn = None /\ b \in timerTree /\ ResumeBranch(b)
      /\ timerTree' = (timerTree \ Gone) \ {b} /\ yieldQueue' = LeftInQueue(yieldQueue, Gone)
      /\ UNCHANGED <<kind, way, sq, linked, fly, cq, batch, elapsed, late>>
  BY DEF TimerRuns, LoopIdle, LeftByFrames, ringVars
<1>2. Alive(b) /\ way[b] = "timer" /\ kind[CallOf(b)] # "link" BY <1>1 DEF Safe, Tokens, Timed
<1>3. timerTree' \subseteq timerTree \ (Gone \cup {b}) BY <1>1
<1>4. NoDup(yieldQueue') /\ ToSet(yieldQueue') \subseteq ToSet(yieldQueue) \ (Gone \cup {b})
  <2>1. b \notin ToSet(yieldQueue) BY <1>1, <1>2 DEF Safe, Tokens, Yielded
  <2>2. NoDup(yieldQueue) BY <1>1 DEF Safe, Tokens, Yielded
  <2>3. QED BY <1>1, <2>1, <2>2, LeftInQueueFacts DEF LoopType
<1>5. QED BY <1>1, <1>2, <1>3, <1>4, LoopEndsSafe

LEMMA YieldRunsSafe ==
  ASSUME Control, LoopType, Safe, "aio" \notin AnyWays, YieldRuns
  PROVE  Safe'
<1> DEFINE b == Head(yieldQueue)
<1>1. /\ Defined /\ turn = None /\ yieldQueue # <<>> /\ ResumeBranch(b)
      /\ timerTree' = timerTree \ Gone /\ yieldQueue' = LeftInQueue(Tail(yieldQueue), Gone)
      /\ UNCHANGED <<kind, way, sq, linked, fly, cq, batch, elapsed, late>>
  BY DEF YieldRuns, LoopIdle, LeftByFrames, ringVars
<1>2. yieldQueue \in Seq(Branch) /\ NoDup(yieldQueue) BY <1>1 DEF LoopType, Safe, Tokens, Yielded
<1>3. /\ Tail(yieldQueue) \in Seq(Branch) /\ b \in ToSet(yieldQueue) /\ b \in Branch
      /\ ToSet(Tail(yieldQueue)) = ToSet(yieldQueue) \ {b} /\ NoDup(Tail(yieldQueue))
  BY <1>1, <1>2, TailFacts
<1> HIDE DEF b
<1>4. Alive(b) /\ way[b] = "yield" /\ kind[CallOf(b)] # "link"
  BY <1>1, <1>3 DEF Safe, Tokens, Yielded
<1>5. timerTree' \subseteq timerTree \ (Gone \cup {b}) BY <1>1, <1>4 DEF Safe, Tokens, Timed
<1>6. NoDup(yieldQueue') /\ ToSet(yieldQueue') \subseteq ToSet(yieldQueue) \ (Gone \cup {b})
  BY <1>1, <1>3, LeftInQueueFacts
<1>7. QED BY <1>1, <1>3, <1>4, <1>5, <1>6, LoopEndsSafe

(* ... or a completion; if its branch is gone it was late.                 *)
LEMMA ResumeTaskSafe ==
  ASSUME Control, LoopType, Safe, "aio" \notin AnyWays, ResumeTask
  PROVE  Safe'
<1> DEFINE b == Head(batch)
<1>1. /\ Defined /\ turn = None /\ batch # <<>> /\ ResumeBranch(b) /\ batch' = Tail(batch)
      /\ timerTree' = timerTree \ Gone /\ yieldQueue' = LeftInQueue(yieldQueue, Gone)
      /\ UNCHANGED <<kind, way, sq, linked, fly, cq, elapsed, late>>
  BY DEF ResumeTask, LeftByFrames
<1>2. Tokens BY <1>1 DEF Safe
<1>3. batch \in Seq(Branch) /\ NoDup(batch) BY <1>2 DEF LoopType, Tokens, Once
<1>4. b \in Out /\ b \in Branch /\ Out' = Out \ {b} /\ NoDup(batch')
  BY <1>1, <1>3, TailFacts DEF Out
<1> HIDE DEF b
<1>5. CASE Alive(b)
  <2>1. b \in Ring BY <1>4 DEF Ring
  <2>2. way[b] \in {"op", "timeout", "aio"} BY <1>2, <2>1, RingWays
  <2>3. PICK how \in Hows(b) : Ends(b, how) BY <1>1, <1>5 DEF ResumeBranch
  <2>4. dangling' = dangling BY <1>1, <1>5 DEF ResumeBranch
  <2>5. MayEnd(b) BY <1>1, <1>5 DEF MayEnd, Alive
  <2>6. b \notin ToSet(sq) \cup fly \cup Live BY <1>2, <1>4 DEF Tokens, Once
  <2>7. timerTree' \subseteq timerTree \ (Gone \cup {b}) BY <1>1, <1>2, <2>2 DEF Tokens, Timed
  <2>8. NoDup(yieldQueue') /\ ToSet(yieldQueue') \subseteq ToSet(yieldQueue) \ (Gone \cup {b})
    <3>1. b \notin ToSet(yieldQueue) BY <1>2, <2>2 DEF Tokens, Yielded
    <3>2. NoDup(yieldQueue) BY <1>2 DEF Tokens, Yielded
    <3>3. QED BY <1>1, <3>1, <3>2, LeftInQueueFacts DEF LoopType
  <2>9. Tokens' /\ (TimeoutMeansElapsed => TimeoutMeansElapsed')
    BY <1>1, <1>2, <1>4, <2>3, <2>5, <2>6, <2>7, <2>8, EndsTokens
  <2>10. NoDangling' BY <1>1, <2>4, StillNamed DEF Safe
  <2>11. QED BY <2>9, <2>10 DEF Safe
<1>6. CASE ~Alive(b)
  <2>1. dangling' = {b} /\ out' = out BY <1>1, <1>6 DEF ResumeBranch, blockVars
  <2>2. Late(CallOf(b)) BY <1>2, <1>4, <1>6 DEF Tokens, Waited
  <2>3. NoDangling' BY <1>1, <2>1, <2>2 DEF NoDangling, MayOutlive, Late
  <2>4. ~Defined' BY <2>1 DEF Defined
  <2>5. TimeoutMeansElapsed' BY <1>1, <2>1 DEF Safe, TimeoutMeansElapsed
  <2>6. QED BY <2>3, <2>4, <2>5 DEF Safe
<1>7. QED BY <1>5, <1>6

(* The kernel and the collection of completions leave the frames alone.    *)
LEMMA StillTokens ==
  ASSUME Tokens, UNCHANGED <<kind, way, call, next, frame, cnt>>
  PROVE  (\A c \in Call : WaysOK(c)') /\ InOrder' /\ Counted'
<1>1. \A c \in Call : WaysOK(c)' BY DEF Tokens, WaysOK, BranchesOf
<1>2. InOrder' BY DEF Tokens, InOrder
<1>3. Counted'
  <2>1. \A c \in Call : Left(c)' = Left(c) BY DEF Left
  <2>2. QED BY <2>1 DEF Tokens, Counted, Running
<1>4. QED BY <1>1, <1>2, <1>3

(* No timeout of the queue is refused.                                     *)
LEMMA NoneRefused ==
  ASSUME LoopType, Adjacent
  PROVE  Accepted(sq) = ToSet(sq) /\ Invalid(sq) = <<>>
<1>1. sq \in Seq(Branch) BY DEF LoopType
<1>2. Accepted(sq) = ToSet(sq) BY DEF Accepted, Adjacent, ToSet
<1> DEFINE r == Refused(sq)
<1>3. r \in Seq(Branch) /\ DOMAIN r = {}
  <2>1. r = Keep(sq, {}) BY <1>2 DEF Refused
  <2>2. QED BY <1>1, <2>1, KeepFacts
<1>4. Invalid(sq) = [j \in DOMAIN r |-> Cqe(r[j], "einval")] BY DEF Invalid
<1> HIDE DEF r
<1>5. r = <<>> BY <1>3
<1>6. Invalid(sq) = <<>> BY <1>4, <1>5
<1>7. QED BY <1>2, <1>6

LEMMA SubmitSafe ==
  ASSUME Control, LoopType, Safe, Submit
  PROVE  Safe'
<1>1. Tokens /\ Adjacent /\ Once /\ Waited /\ LateOK
  BY DEF Safe, Tokens, Submit, LoopIdle
<1>2. /\ turn = None /\ fly' = fly \cup ToSet(sq) /\ cq' = cq /\ sq' = <<>>
      /\ UNCHANGED <<kind, way, call, next, frame, cnt, out, timerTree, yieldQueue, linked, batch,
                     elapsed, late, turn, dangling>>
  <2>1. cq \o Invalid(sq) = cq
    <3>1. cq \in Seq(Entry) BY DEF LoopType
    <3>2. QED BY <1>1, <3>1, NoneRefused
  <2>2. QED BY <1>1, <2>1, NoneRefused DEF Submit, LoopIdle, blockVars, timerVars
<1>3. (\A c \in Call : WaysOK(c)') /\ InOrder' /\ Counted' BY <1>1, <1>2, StillTokens
<1>4. Live' = Live /\ Out' = Out /\ ToSet(sq)' = {} BY <1>2 DEF Live, Posted, Out, ToSet
<1>5. Ring' = Ring BY <1>2, <1>4 DEF Ring
<1>6. Timed' /\ Yielded' BY <1>1, <1>2 DEF Tokens, Timed, Yielded, Alive
<1>7. Waited'
  <2>1. \A b \in ToSet(sq) : Alive(b)
    <3>1. \A b \in ToSet(sq) : CallOf(b) # None BY LiveFacts, BranchFacts
    <3>2. QED BY <1>1, <1>2, <3>1 DEF Waited
  <2>2. \A b \in Ring : IF kind[CallOf(b)] = "link" THEN b[3] \in {1, 2} ELSE way[b] = "aio"
    BY <1>1 DEF Waited
  <2>3. \A b \in fly' \cup Live \cup Out : Alive(b) \/ Late(CallOf(b))
    BY <1>1, <1>2, <2>1 DEF Waited
  <2>4. QED BY <1>2, <1>4, <1>5, <2>2, <2>3 DEF Waited, Alive, Late
<1>8. Once'
  <2>1. NoDup(sq') BY <1>2 DEF NoDup
  <2>2. fly' \cap (Live \cup Out) = {} BY <1>1, <1>2 DEF Once
  <2>3. QED BY <1>1, <1>2, <1>4, <2>1, <2>2 DEF Once
<1>9. ASSUME NEW c \in Call PROVE Paired(c)'
  <2>1. Paired(c) BY <1>1 DEF Tokens
  <2>2. QED BY <1>2, <1>4, <1>5, <2>1 DEF Paired, Running, Late
<1>14. LateOK' BY <1>1, <1>2, <1>4 DEF LateOK
<1>10. Adjacent' BY <1>2 DEF Adjacent
<1>11. Over' BY <1>1, <1>2, <1>4 DEF Tokens, Over, IsTimeout
<1>12. Tokens' BY <1>3, <1>6, <1>7, <1>8, <1>9, <1>10, <1>11, <1>14 DEF Tokens
<1>15. NoDangling' BY <1>2, StillNamed DEF Safe
<1>13. QED BY <1>2, <1>12, <1>15 DEF Safe, TimeoutMeansElapsed

(* Completions are posted, one of which Collect will not skip.             *)
LEMMA PostMore ==
  ASSUME NEW q \in Seq(Entry), NEW s \in Seq(Entry), NEW k \in DOMAIN s,
         s[k].res # "canceled", \A j \in DOMAIN s : j # k => s[j].res = "canceled",
         s[k].b \notin Posted(q), PostedOnce(q)
  PROVE  Posted(q \o s) = Posted(q) \cup {s[k].b} /\ PostedOnce(q \o s)
<1> DEFINE Q == q \o s
<1>0. \A i, j \in DOMAIN q :
        q[i].res # "canceled" /\ q[j].res # "canceled" /\ q[i].b = q[j].b => i = j
  BY DEF PostedOnce
<1>1. /\ Len(q) \in Nat /\ Len(s) \in Nat /\ DOMAIN q = 1..Len(q) /\ DOMAIN s = 1..Len(s)
      /\ DOMAIN Q = 1..(Len(q) + Len(s))
      /\ \A i \in 1..Len(q) : Q[i] = q[i]
      /\ \A i \in 1..Len(s) : Q[Len(q) + i] = s[i]
  OBVIOUS
<1> HIDE DEF Q
<1> DEFINE m == Len(q) + k
<1>2. m \in DOMAIN Q /\ Q[m] = s[k] /\ m \notin DOMAIN q BY <1>1
<1>3. ASSUME NEW i \in DOMAIN Q, Q[i].res # "canceled"
      PROVE  i = m \/ (i \in DOMAIN q /\ Q[i] = q[i])
  <2>1. CASE i <= Len(q) BY <1>1, <2>1
  <2>2. CASE i > Len(q)
    <3>1. i - Len(q) \in 1..Len(s) /\ i = Len(q) + (i - Len(q)) BY <1>1, <2>2
    <3>2. PICK n \in 1..Len(s) : i = Len(q) + n BY <3>1
    <3>3. Q[i] = s[n] BY <1>1, <3>2
    <3>4. n = k BY <1>1, <1>3, <3>3
    <3>5. QED BY <3>2, <3>4
  <2>3. i <= Len(q) \/ i > Len(q)
    <3>1. i \in 1..(Len(q) + Len(s)) BY <1>1
    <3>2. QED BY <1>1, <3>1
  <2>4. QED BY <2>1, <2>2, <2>3
<1>4. \A i \in DOMAIN q : i \in DOMAIN Q /\ Q[i] = q[i] BY <1>1
<1> HIDE DEF m
<1>5. Posted(Q) = Posted(q) \cup {s[k].b}
  <2>1. Posted(Q) = {Q[i].b : i \in {j \in DOMAIN Q : Q[j].res # "canceled"}} BY DEF Posted
  <2>2. ASSUME NEW x \in Posted(Q) PROVE x \in Posted(q) \cup {s[k].b}
    <3>1. PICK i \in DOMAIN Q : Q[i].res # "canceled" /\ x = Q[i].b BY <2>1
    <3>2. QED BY <1>2, <1>3, <3>1 DEF Posted
  <2>3. ASSUME NEW x \in Posted(q) PROVE x \in Posted(Q)
    <3>1. PICK i \in DOMAIN q : q[i].res # "canceled" /\ x = q[i].b BY DEF Posted
    <3>2. QED BY <1>4, <2>1, <3>1
  <2>4. s[k].b \in Posted(Q) BY <1>2, <2>1
  <2>5. QED BY <2>2, <2>3, <2>4
<1>6. ASSUME NEW i \in DOMAIN Q, NEW j \in DOMAIN Q,
             Q[i].res # "canceled", Q[j].res # "canceled", Q[i].b = Q[j].b
      PROVE  i = j
  <2>1. i = m \/ (i \in DOMAIN q /\ Q[i] = q[i]) BY <1>3, <1>6
  <2>2. j = m \/ (j \in DOMAIN q /\ Q[j] = q[j]) BY <1>3, <1>6
  <2>3. \A x \in DOMAIN q : q[x].res # "canceled" => q[x].b # s[k].b BY DEF Posted
  <2>4. QED BY <1>0, <1>2, <1>6, <2>1, <2>2, <2>3
<1>7. PostedOnce(Q) BY <1>6 DEF PostedOnce
<1>8. QED BY <1>5, <1>7 DEF Q

LEMMA PostOne ==
  ASSUME NEW q \in Seq(Entry), NEW e \in Entry, e.res # "canceled", e.b \notin Posted(q), PostedOnce(q)
  PROVE  /\ Append(q, e) \in Seq(Entry) /\ Posted(Append(q, e)) = Posted(q) \cup {e.b}
         /\ PostedOnce(Append(q, e))
<1> DEFINE s == <<e>>
<1>1. s \in Seq(Entry) /\ 1 \in DOMAIN s /\ s[1] = e /\ \A j \in DOMAIN s : j = 1 OBVIOUS
<1>2. Append(q, e) = q \o s /\ Append(q, e) \in Seq(Entry) OBVIOUS
<1> HIDE DEF s
<1>3. s[1].res # "canceled" /\ s[1].b \notin Posted(q)
      /\ \A j \in DOMAIN s : j # 1 => s[j].res = "canceled"
  BY <1>1
<1>4. Posted(q \o s) = Posted(q) \cup {s[1].b} /\ PostedOnce(q \o s) BY <1>1, <1>3, PostMore
<1>5. QED BY <1>1, <1>2, <1>4

(* Operations S of call c leave the kernel, New of them with a completion  *)
(* that is not skipped: one of the operation and its timeout, unless the   *)
(* timeout is late.                                                        *)
LEMMA FlyToLive ==
  ASSUME Control, LoopType, Safe, Defined, NEW c \in Call, NEW S, NEW New,
         \A x \in S : x \in fly /\ CallOf(x) = c, New \subseteq S,
         fly' = fly \ S, Live' = Live \cup New, PostedOnce(cq'),
         late' \in {late, late \cup {Of(c, 2)}},
         late' # late => Of(c, 2) \in S /\ kind[c] = "link",
         kind[c] = "link" /\ ~Late(c)' => S = {Of(c, 1), Of(c, 2)} /\ \E b : New = {b},
         elapsed \subseteq elapsed', \A x \in New : IsTimeout(x) => x \in elapsed',
         UNCHANGED <<kind, way, call, next, frame, cnt, out, timerTree, yieldQueue, sq, linked,
                     batch, turn, dangling>>
  PROVE  Safe'
<1>1. Tokens /\ Once /\ Waited /\ LateOK BY DEF Safe, Tokens
<1>2. late \subseteq late' /\ \A d \in Call : Late(d) => Late(d)' BY DEF Late
<1>3. S \subseteq Ring BY DEF Ring
<1>4. (\A d \in Call : WaysOK(d)') /\ InOrder' /\ Counted' BY <1>1, StillTokens
<1>5. ToSet(sq)' = ToSet(sq) /\ Out' = Out /\ Ring' \subseteq Ring BY DEF Ring, Out
<1>6. Timed' /\ Yielded' BY <1>1 DEF Tokens, Timed, Yielded, Alive
<1>7. Waited'
  <2>1. \A x \in Ring' : IF kind[CallOf(x)] = "link" THEN x[3] \in {1, 2} ELSE way[x] = "aio"
    BY <1>1, <1>5 DEF Waited
  <2>2. \A x \in fly' \cup Live' \cup Out : x \in Ring /\ (Alive(x) \/ Late(CallOf(x)))
    BY <1>1 DEF Waited, Ring
  <2>3. \A x \in fly' \cup Live' \cup Out : Alive(x) \/ Late(CallOf(x))'
    BY <1>1, <1>2, <2>2, RingWays
  <2>4. QED BY <1>1, <1>5, <2>1, <2>3 DEF Waited, Alive
<1>8. Once' BY <1>1, <1>5 DEF Once
<1>9. ASSUME NEW d \in Call PROVE Paired(d)'
  <2>1. Paired(d) BY <1>1 DEF Tokens
  <2>2. SUFFICES ASSUME Running(d), kind[d] = "link", ~Late(d)'
                 PROVE  /\ Of(d, 1) \in ToSet(sq) <=> Of(d, 2) \in ToSet(sq)
                        /\ Of(d, 1) \in fly' <=> Of(d, 2) \in fly'
                        /\ Of(d, 1) \in Live' \cup Out => Of(d, 2) \notin Ring'
                        /\ Of(d, 2) \in Live' \cup Out => Of(d, 1) \notin Ring'
    BY <1>5 DEF Paired, Running
  <2>3. CallOf(Of(d, 1)) = d /\ CallOf(Of(d, 2)) = d /\ Of(d, 1) # Of(d, 2) BY BranchFacts
  <2>4. ~Late(d) BY <1>2, <2>2
  <2>5. CASE d = c
    <3>1. PICK b : New = {b} BY <2>2, <2>5
    <3>2. S = {Of(d, 1), Of(d, 2)} /\ Of(d, 1) \in fly /\ Of(d, 2) \in fly BY <2>2, <2>5
    <3>3. \A x \in S : x \notin ToSet(sq) \cup Live \cup Out BY <1>1, <3>2 DEF Once
    <3>4. \A x \in S : x \in Ring' => x = b BY <1>5, <3>1, <3>3 DEF Ring
    <3>5. QED BY <2>1, <2>2, <2>3, <2>4, <3>1, <3>2, <3>3, <3>4 DEF Paired
  <2>6. CASE d # c
    <3>1. Of(d, 1) \notin S /\ Of(d, 2) \notin S /\ Of(d, 1) \notin New /\ Of(d, 2) \notin New
      BY <2>3, <2>6
    <3>2. QED BY <1>5, <2>1, <2>2, <2>4, <3>1 DEF Paired
  <2>7. QED BY <2>5, <2>6
<1>10. Adjacent' BY <1>1 DEF Tokens, Adjacent, IsTimeout, Limits
<1>11. Over' BY <1>1, <1>5 DEF Tokens, Over, IsTimeout
<1>12. ASSUME late' # late
       PROVE  /\ Of(c, 2) \in Branch /\ CallOf(Of(c, 2)) = c /\ call[c] # "new" /\ kind[c] = "link"
              /\ Of(c, 2) \notin ToSet(sq) \cup fly' /\ Of(c, 1) \notin ToSet(sq)
  <2>1. Of(c, 2) \in fly /\ Of(c, 2) \notin fly' /\ kind[c] = "link" /\ Of(c, 2) \in Ring
    BY <1>3, <1>12
  <2>2. Of(c, 2) \in Branch /\ CallOf(Of(c, 2)) = c BY BranchFacts
  <2>3. ~Late(c) BY <1>1, <2>1 DEF LateOK, Late
  <2>4. Running(c) BY <1>1, <2>1, <2>2, <2>3, RingWays
  <2>5. Of(c, 1) \in fly BY <1>1, <2>1, <2>3, <2>4 DEF Tokens, Paired
  <2>6. Of(c, 1) \notin ToSet(sq) /\ Of(c, 2) \notin ToSet(sq) BY <1>1, <2>1, <2>5 DEF Once
  <2>7. QED BY <2>1, <2>2, <2>4, <2>6 DEF Running
<1>13. LateOK'
  <2>1. ASSUME NEW x \in late'
        PROVE  /\ x \in Branch /\ x = Of(CallOf(x), 2) /\ call[CallOf(x)] # "new"
               /\ kind[CallOf(x)] = "link"
               /\ x \notin ToSet(sq) \cup fly' /\ Of(CallOf(x), 1) \notin ToSet(sq)
    <3>1. CASE x \in late BY <1>1, <3>1 DEF LateOK
    <3>2. CASE x \notin late
      <4>1. x = Of(c, 2) /\ late' # late BY <2>1, <3>2
      <4>2. QED BY <1>12, <4>1
    <3>3. QED BY <3>1, <3>2
  <2>2. QED BY <1>5, <2>1 DEF LateOK
<1>14. Tokens' BY <1>4, <1>6, <1>7, <1>8, <1>9, <1>10, <1>11, <1>13 DEF Tokens
<1>15. TimeoutMeansElapsed' BY DEF Safe, TimeoutMeansElapsed
<1>16. NoDangling' BY <1>2, StillNamed DEF Safe
<1>17. QED BY <1>14, <1>15, <1>16 DEF Safe

(* Once something dangled only the kernel goes on.                         *)
LEMMA Undefined ==
  ASSUME Safe, ~Defined, UNCHANGED <<kind, way, out, dangling>>,
         late \subseteq late', elapsed \subseteq elapsed'
  PROVE  Safe'
<1>1. NoDangling' BY StillNamed DEF Safe
<1>2. ~Defined' BY DEF Defined
<1>3. TimeoutMeansElapsed' BY DEF Safe, TimeoutMeansElapsed
<1>4. QED BY <1>1, <1>2, <1>3 DEF Safe

LEMMA FlyKind ==
  ASSUME Control, LoopType, Tokens, NEW b \in fly
  PROVE  /\ b \in Branch /\ CallOf(b) \in Call
         /\ kind[CallOf(b)] = "link" =>
              /\ way[Of(CallOf(b), 1)] = "op" /\ way[Of(CallOf(b), 2)] = "timeout"
              /\ IF Late(CallOf(b)) THEN Of(CallOf(b), 2) \notin fly
                 ELSE Of(CallOf(b), 1) \in fly /\ Of(CallOf(b), 2) \in fly
              /\ b \in {Of(CallOf(b), 1), Of(CallOf(b), 2)}
         /\ kind[CallOf(b)] # "link" => way[b] = "aio"
<1> DEFINE c == CallOf(b)
<1>1. b \in Ring BY DEF Ring
<1>2. /\ b \in Branch /\ c \in Call /\ call[c] # "new" /\ (~Late(c) => Running(c))
      /\ kind[c] = "link" => b \in {Of(c, 1), Of(c, 2)}
  BY <1>1, RingWays
<1>3. WaysOK(c) /\ Paired(c) /\ Waited /\ LateOK BY <1>1, <1>2 DEF Tokens
<1>4. kind[c] # "link" => way[b] = "aio" BY <1>1, <1>3 DEF Waited
<1>5. kind[c] = "link" => way[Of(c, 1)] = "op" /\ way[Of(c, 2)] = "timeout"
  BY <1>2, <1>3 DEF WaysOK
<1>6. kind[c] = "link" /\ ~Late(c) => Of(c, 1) \in fly /\ Of(c, 2) \in fly
  BY <1>2, <1>3 DEF Paired
<1>7. Late(c) => Of(c, 2) \notin fly BY <1>3 DEF LateOK, Late
<1>8. QED BY <1>2, <1>4, <1>5, <1>6, <1>7

LEMMA PartnerFacts ==
  ASSUME NEW c \in Call
  PROVE  Partner(Of(c, 1)) = Of(c, 2) /\ Partner(Of(c, 2)) = Of(c, 1)
<1>1. /\ CallOf(Of(c, 1)) = c /\ Of(c, 1)[3] = 1 /\ CallOf(Of(c, 2)) = c /\ Of(c, 2)[3] = 2
  BY BranchFacts
<1>2. 3 - 1 = 2 /\ 3 - 2 = 1 OBVIOUS
<1>3. QED BY <1>1, <1>2 DEF Partner

LEMMA OpCompletesSafe ==
  ASSUME Control, LoopType, Safe, Defined, NEW b \in Branch, OpCompletes(b)
  PROVE  Safe'
<1> DEFINE c == CallOf(b)
           t == {Partner(b)} \cap fly \cap {x \in fly : IsTimeout(x)}
           y == [j \in 1..Cardinality(t) |-> Cqe(Partner(b), "canceled")]
           s == <<Cqe(b, "ok")>> \o y
<1>1. /\ b \in fly /\ ~IsTimeout(b) /\ fly' = fly \ ({b} \cup t)
      /\ cq' = cq \o <<Cqe(b, "ok")>> \o y
      /\ UNCHANGED <<kind, way, call, next, frame, cnt, out, timerTree, yieldQueue, sq, linked,
                     batch, turn, elapsed, late, dangling>>
  BY DEF OpCompletes, timerVars, blockVars
<1>2. fly \in SUBSET Branch /\ cq \in Seq(Entry) /\ Once /\ Tokens /\ c \in Call
  BY BranchFacts DEF LoopType, Safe, Tokens
<1>3. IF kind[c] = "link" /\ ~Late(c) THEN t = {Of(c, 2)} /\ b = Of(c, 1) ELSE t = {}
  <2>1. CASE kind[c] = "link" /\ ~Late(c)
    <3>1. /\ way[Of(c, 2)] = "timeout" /\ Of(c, 2) \in fly /\ c \in Call
          /\ b \in {Of(c, 1), Of(c, 2)}
      BY <1>1, <1>2, <2>1, FlyKind
    <3>2. b = Of(c, 1) BY <1>1, <3>1 DEF IsTimeout
    <3>3. Partner(b) = Of(c, 2) BY <3>1, <3>2, PartnerFacts
    <3>4. QED BY <2>1, <3>1, <3>2, <3>3 DEF IsTimeout
  <2>2. CASE kind[c] # "link"
    <3>1. SUFFICES ASSUME NEW x \in fly, IsTimeout(x), x = Partner(b) PROVE FALSE
      BY <2>2
    <3>2. x \in Branch /\ CallOf(x) = c
      <4>1. x \in Branch BY <1>2
      <4>2. x = <<b[1], b[2], 3 - b[3]>> BY <3>1 DEF Partner, Of, CallOf
      <4>3. QED BY <4>1, <4>2 DEF CallOf
    <3>3. way[x] = "aio" BY <1>2, <2>2, <3>2, FlyKind
    <3>4. QED BY <3>1, <3>3 DEF IsTimeout
  <2>3. CASE kind[c] = "link" /\ Late(c)
    <3>1. /\ way[Of(c, 2)] = "timeout" /\ Of(c, 2) \notin fly /\ b \in {Of(c, 1), Of(c, 2)}
      BY <1>1, <1>2, <2>3, FlyKind
    <3>2. b = Of(c, 1) BY <1>1, <3>1 DEF IsTimeout
    <3>3. Partner(b) = Of(c, 2) BY <1>2, <3>2, PartnerFacts
    <3>4. t = {} BY <3>1, <3>3
    <3> HIDE DEF t
    <3>5. QED BY <2>3, <3>4
  <2>4. QED BY <2>1, <2>2, <2>3
<1>4. y \in Seq(Entry) /\ \A j \in DOMAIN y : y[j].res = "canceled"
  <2>1. CASE t = {}
    <3>1. Cardinality(t) = 0 BY <2>1, FS_EmptySet
    <3> HIDE DEF t
    <3>2. y = <<>> BY <3>1
    <3>3. <<>> \in Seq(Entry) /\ DOMAIN <<>> = {} OBVIOUS
    <3> HIDE DEF y
    <3>4. QED BY <3>2, <3>3
  <2>2. CASE t # {}
    <3>1. t = {Partner(b)} /\ Partner(b) \in Branch BY <1>2, <2>2
    <3>2. Cardinality(t) = 1 BY <3>1, FS_Singleton
    <3>3. Cqe(Partner(b), "canceled") \in Entry /\ Cqe(Partner(b), "canceled").res = "canceled"
      BY <3>1 DEF Cqe, Entry
    <3> HIDE DEF t
    <3>4. QED BY <3>2, <3>3
  <2>3. QED BY <2>1, <2>2
<1> DEFINE e == Cqe(b, "ok")
<1>5. e \in Entry /\ e.b = b /\ e.res = "ok" BY DEF Cqe, Entry
<1>6. cq' = (cq \o <<e>>) \o y /\ fly' = fly \ ({b} \cup t) BY <1>1
<1> HIDE DEF e, y, t
<1> DEFINE q == <<e>> \o y
<1>7. q \in Seq(Entry) /\ 1 \in DOMAIN q /\ q[1] = e
      /\ \A j \in DOMAIN q : j # 1 => j - 1 \in DOMAIN y /\ q[j] = y[j - 1]
  BY <1>4, <1>5
<1>8. cq' = cq \o q
  <2>1. <<e>> \in Seq(Entry) BY <1>5
  <2>2. QED BY <1>2, <1>4, <1>6, <2>1, ConcatAssociative
<1> HIDE DEF q
<1>9. \A j \in DOMAIN q : j # 1 => q[j].res = "canceled" BY <1>4, <1>7
<1>10. b \notin Live BY <1>1, <1>2 DEF Once
<1>11. Live' = Live \cup {b} /\ PostedOnce(cq')
  <2>1. PostedOnce(cq) /\ b \notin Posted(cq) BY <1>2, <1>10 DEF Once, Live
  <2>2. Posted(cq \o q) = Posted(cq) \cup {q[1].b} /\ PostedOnce(cq \o q)
    BY <1>2, <1>5, <1>7, <1>9, <2>1, PostMore
  <2>3. QED BY <1>5, <1>7, <1>8, <2>2 DEF Live
<1> DEFINE S == {b} \cup t
<1>12. /\ b \in S /\ fly' = fly \ S /\ \A x \in S : x \in fly /\ CallOf(x) = c
       /\ kind[c] = "link" /\ ~Late(c) => S = {Of(c, 1), Of(c, 2)}
  <2>1. CallOf(Of(c, 2)) = c BY <1>2, BranchFacts
  <2>2. t \subseteq fly BY DEF t
  <2>3. QED BY <1>1, <1>3, <1>6, <2>1, <2>2
<1> HIDE DEF S
<1> DEFINE New == {b}
<1>13. New \subseteq S /\ (\E x : New = {x}) /\ \A x \in New : ~IsTimeout(x) BY <1>1, <1>12
<1> HIDE DEF New
<1>14. Live' = Live \cup New BY <1>11 DEF New
<1>15. Late(c)' <=> Late(c) BY <1>1 DEF Late
<1>16. QED BY <1>1, <1>2, <1>11, <1>12, <1>13, <1>14, <1>15, FlyToLive

(* The timeout is over: the operation is cancelled, or it is late.         *)
LEMMA TimeoutFiresSafe ==
  ASSUME Control, LoopType, Safe, Defined, NEW b \in Branch, TimeoutFires(b)
  PROVE  Safe'
<1> DEFINE c == CallOf(b)
           op == Partner(b)
           t == Cqe(b, "etime")
           o == Cqe(op, "canceled")
           k == Cqe(op, "ok")
<1>1. /\ b \in fly /\ IsTimeout(b) /\ elapsed' = elapsed \cup {b}
      /\ \/ /\ fly' = fly \ {b, op} /\ cq' \in {cq \o <<t, o>>, cq \o <<o, t>>} /\ late' = late
         \/ fly' = fly \ {b} /\ cq' = Append(cq, t) /\ late' = late \cup {b}
         \/ fly' = fly \ {b, op} /\ cq' = Append(Append(cq, k), t) /\ late' = late \cup {b}
      /\ UNCHANGED <<kind, way, call, next, frame, cnt, out, timerTree, yieldQueue, sq, linked,
                     batch, turn, dangling>>
  BY DEF TimeoutFires, timerVars, blockVars
<1>2. cq \in Seq(Entry) /\ Once /\ PostedOnce(cq) /\ Tokens BY DEF LoopType, Safe, Tokens, Once
<1>3. /\ kind[c] = "link" /\ c \in Call /\ b = Of(c, 2) /\ op = Of(c, 1)
      /\ op \in Branch /\ op \in fly /\ CallOf(op) = c /\ op # b
  <2>1. kind[c] = "link" /\ c \in Call BY <1>1, <1>2, FlyKind DEF IsTimeout
  <2>2. way[Of(c, 1)] = "op" /\ b \in {Of(c, 1), Of(c, 2)} BY <1>1, <1>2, <2>1, FlyKind
  <2>3. b = Of(c, 2) BY <1>1, <2>2 DEF IsTimeout
  <2>4. Of(c, 2) \in fly BY <1>1, <2>3
  <2>5. op = Of(c, 1) /\ Of(c, 1) \in fly BY <1>1, <1>2, <2>1, <2>3, <2>4, FlyKind, PartnerFacts
  <2>6. Of(c, 1) \in Branch /\ CallOf(Of(c, 1)) = c /\ Of(c, 1) # Of(c, 2) BY <2>1, BranchFacts
  <2>7. QED BY <2>1, <2>3, <2>5, <2>6
<1>4. /\ t \in Entry /\ t.b = b /\ t.res = "etime" /\ o \in Entry /\ o.res = "canceled"
      /\ k \in Entry /\ k.b = op /\ k.res = "ok"
  BY <1>3 DEF Cqe, Entry
<1> HIDE DEF t, o, k, op
<1>5. b \notin Posted(cq) /\ op \notin Posted(cq) BY <1>1, <1>2, <1>3 DEF Once, Live
<1> DEFINE Pair2 == {b, op}
           One == {b}
<1>6. /\ Pair2 = {Of(c, 1), Of(c, 2)} /\ One \subseteq Pair2 /\ \E x : One = {x}
      /\ Of(c, 2) \in One /\ \A x \in Pair2 : x \in fly /\ CallOf(x) = c
      /\ \A x \in Pair2 : IsTimeout(x) => x \in elapsed'
  <2>1. ~IsTimeout(op)
    <3>1. way[Of(c, 1)] = "op" BY <1>1, <1>2, <1>3, FlyKind
    <3>2. QED BY <1>3, <3>1 DEF IsTimeout
  <2>2. QED BY <1>1, <1>3, <2>1
<1>7. CASE fly' = fly \ {b, op} /\ cq' \in {cq \o <<t, o>>, cq \o <<o, t>>} /\ late' = late
  <2>1. Live' = Live \cup One /\ PostedOnce(cq')
    <3>1. CASE cq' = cq \o <<t, o>>
      <4> DEFINE s == <<t, o>>
      <4>1. s \in Seq(Entry) /\ 1 \in DOMAIN s /\ s[1] = t /\ \A j \in DOMAIN s : j # 1 => s[j] = o
        BY <1>4
      <4>2. cq' = cq \o s BY <3>1
      <4> HIDE DEF s
      <4>3. Posted(cq \o s) = Posted(cq) \cup {s[1].b} /\ PostedOnce(cq \o s)
        BY <1>2, <1>4, <1>5, <4>1, PostMore
      <4>4. QED BY <1>4, <4>1, <4>2, <4>3 DEF Live
    <3>2. CASE cq' = cq \o <<o, t>>
      <4> DEFINE s == <<o, t>>
      <4>1. s \in Seq(Entry) /\ 2 \in DOMAIN s /\ s[2] = t /\ \A j \in DOMAIN s : j # 2 => s[j] = o
        BY <1>4
      <4>2. cq' = cq \o s BY <3>2
      <4> HIDE DEF s
      <4>3. Posted(cq \o s) = Posted(cq) \cup {s[2].b} /\ PostedOnce(cq \o s)
        BY <1>2, <1>4, <1>5, <4>1, PostMore
      <4>4. QED BY <1>4, <4>1, <4>2, <4>3 DEF Live
    <3>3. QED BY <1>7, <3>1, <3>2
  <2>2. fly' = fly \ Pair2 BY <1>7
  <2> HIDE DEF Pair2, One
  <2>3. elapsed \subseteq elapsed' /\ \A x \in One : IsTimeout(x) => x \in elapsed' BY <1>1, <1>6
  <2>4. QED BY <1>1, <1>3, <1>6, <1>7, <2>1, <2>2, <2>3, FlyToLive
<1>8. CASE fly' = fly \ {b} /\ cq' = Append(cq, t) /\ late' = late \cup {b}
  <2>1. Live' = Live \cup One /\ PostedOnce(cq')
    <3>1. Posted(Append(cq, t)) = Posted(cq) \cup {t.b} /\ PostedOnce(Append(cq, t))
      BY <1>2, <1>4, <1>5, PostOne
    <3>2. QED BY <1>4, <1>8, <3>1 DEF Live
  <2>2. fly' = fly \ One /\ late' = late \cup {Of(c, 2)} /\ Late(c)' BY <1>3, <1>8 DEF Late
  <2> HIDE DEF Pair2, One
  <2>3. /\ elapsed \subseteq elapsed' /\ \A x \in One : IsTimeout(x) => x \in elapsed'
        /\ \A x \in One : x \in fly /\ CallOf(x) = c
        /\ One \subseteq One /\ Of(c, 2) \in One
    BY <1>1, <1>6
  <2>4. late' \in {late, late \cup {Of(c, 2)}} /\ (late' # late => Of(c, 2) \in One /\ kind[c] = "link")
        /\ (kind[c] = "link" /\ ~Late(c)' => One = {Of(c, 1), Of(c, 2)} /\ \E x : One = {x})
    BY <1>3, <2>2, <2>3
  <2>5. QED BY <1>1, <1>3, <2>1, <2>2, <2>3, <2>4, FlyToLive
<1>9. CASE fly' = fly \ {b, op} /\ cq' = Append(Append(cq, k), t) /\ late' = late \cup {b}
  <2>1. Live' = Live \cup Pair2 /\ PostedOnce(cq')
    <3> DEFINE q == Append(cq, k)
    <3>1. q \in Seq(Entry) /\ Posted(q) = Posted(cq) \cup {op} /\ PostedOnce(q)
      BY <1>2, <1>4, <1>5, PostOne
    <3>2. cq' = Append(q, t) BY <1>9
    <3> HIDE DEF q
    <3>3. b \notin Posted(q) BY <1>3, <1>5, <3>1
    <3>4. Posted(Append(q, t)) = Posted(q) \cup {t.b} /\ PostedOnce(Append(q, t))
      BY <1>4, <3>1, <3>3, PostOne
    <3>5. QED BY <1>4, <3>1, <3>2, <3>4 DEF Live
  <2>2. fly' = fly \ Pair2 /\ late' = late \cup {Of(c, 2)} /\ Late(c)' BY <1>3, <1>9 DEF Late
  <2> HIDE DEF Pair2, One
  <2>3. /\ elapsed \subseteq elapsed' /\ \A x \in Pair2 : IsTimeout(x) => x \in elapsed'
        /\ \A x \in Pair2 : x \in fly /\ CallOf(x) = c
        /\ Pair2 \subseteq Pair2 /\ Of(c, 2) \in Pair2
    BY <1>1, <1>6
  <2>4. late' \in {late, late \cup {Of(c, 2)}} /\ (late' # late => Of(c, 2) \in Pair2 /\ kind[c] = "link")
        /\ (kind[c] = "link" /\ ~Late(c)' => Pair2 = {Of(c, 1), Of(c, 2)} /\ \E x : Pair2 = {x})
    BY <1>3, <2>2, <2>3
  <2>5. QED BY <1>1, <1>3, <2>1, <2>2, <2>3, <2>4, FlyToLive
<1>10. QED BY <1>1, <1>7, <1>8, <1>9

LEMMA CollectSafe ==
  ASSUME Control, LoopType, Safe, Collect
  PROVE  Safe'
<1>1. Tokens /\ Once /\ Waited /\ LateOK /\ cq \in Seq(Entry)
  BY DEF Safe, Tokens, LoopType, Collect, LoopIdle
<1>2. PICK n \in DOMAIN cq : /\ batch' = [j \in DOMAIN Got(n) |-> Got(n)[j].b]
                             /\ cq' = SubSeq(cq, n + 1, Len(cq))
                             /\ dangling' = {e.b : e \in {x \in ToSet(Got(n)) : ~Alive(x.b)}}
  BY DEF Collect, Got
<1>3. /\ turn = None /\ batch = <<>>
      /\ UNCHANGED <<kind, way, call, next, frame, cnt, out, timerTree, yieldQueue, sq, linked, fly,
                     elapsed, late, turn>>
  BY DEF Collect, LoopIdle, blockVars, timerVars
<1> DEFINE g == Got(n)
           sub == SubSeq(cq, 1, n)
           S == {e \in ToSet(cq) : ~Skipped(e)}
<1>4. /\ Len(cq) \in Nat /\ DOMAIN cq = 1..Len(cq) /\ n \in 1..Len(cq)
      /\ DOMAIN sub = 1..n /\ \A i \in 1..n : sub[i] = cq[i]
      /\ DOMAIN cq' = 1..(Len(cq) - n) /\ \A i \in 1..(Len(cq) - n) : cq'[i] = cq[i + n]
  BY <1>1, <1>2
<1>5. \A i, j \in DOMAIN cq :
        cq[i].res # "canceled" /\ cq[j].res # "canceled" /\ cq[i].b = cq[j].b => i = j
  BY <1>1 DEF Once, PostedOnce
<1>6. /\ g \in Seq(Entry)
      /\ NoDupIn(sub, S) => NoDup(g)
      /\ \A j \in DOMAIN g : g[j] \in S /\ \E i \in DOMAIN sub : g[j] = sub[i]
  <2>1. sub \in Seq(Entry) BY <1>1, <1>2, GotType
  <2> HIDE DEF sub, S
  <2>2. Keep(sub, S) = g BY DEF sub, S, Got
  <2> HIDE DEF g
  <2>3. QED BY <2>1, <2>2, KeepFacts
<1>7. NoDup(g)
  <2>1. ASSUME NEW i \in DOMAIN sub, NEW j \in DOMAIN sub, sub[i] \in S, sub[i] = sub[j]
        PROVE i = j
    <3>1. i \in DOMAIN cq /\ j \in DOMAIN cq /\ cq[i] = cq[j] /\ cq[i].res # "canceled"
      BY <1>4, <2>1 DEF Skipped
    <3>2. QED BY <1>5, <3>1
  <2>2. NoDupIn(sub, S)
    <3> HIDE DEF sub, S
    <3>1. QED BY <2>1, Zenon DEF NoDupIn
  <2> HIDE DEF g, sub, S
  <2>3. QED BY <1>6, <2>2
<1>8. ASSUME NEW j \in DOMAIN g
      PROVE  \E i \in 1..n : i \in DOMAIN cq /\ g[j] = cq[i] /\ cq[i].res # "canceled"
  <2>1. PICK i \in DOMAIN sub : g[j] = sub[i] BY <1>6
  <2>2. i \in 1..n /\ i \in DOMAIN cq /\ sub[i] = cq[i] BY <1>4
  <2>3. g[j] \in S BY <1>6
  <2>4. \A e \in S : e.res # "canceled" BY DEF Skipped
  <2> HIDE DEF g, sub, S
  <2>5. QED BY <2>1, <2>2, <2>3, <2>4
<1>9. Out' = {g[j].b : j \in DOMAIN g} /\ DOMAIN batch' = DOMAIN g /\ \A j \in DOMAIN g : batch'[j] = g[j].b
  BY <1>2 DEF Out, ToSet
<1> HIDE DEF g, sub, S
<1>10. NoDup(batch')
  <2>1. ASSUME NEW i \in DOMAIN g, NEW j \in DOMAIN g, g[i].b = g[j].b PROVE i = j
    <3>1. PICK k \in DOMAIN cq : g[i] = cq[k] /\ cq[k].res # "canceled" BY <1>8
    <3>2. PICK l \in DOMAIN cq : g[j] = cq[l] /\ cq[l].res # "canceled" BY <1>8
    <3>3. k = l BY <1>5, <2>1, <3>1, <3>2
    <3>4. g[i] = g[j] BY <3>1, <3>2, <3>3
    <3>5. QED BY <1>7, <3>4 DEF NoDup
  <2>2. QED BY <1>9, <2>1 DEF NoDup
<1>11. ASSUME NEW x \in Out'
       PROVE  \E i \in 1..n : i \in DOMAIN cq /\ cq[i].b = x /\ cq[i].res # "canceled"
  BY <1>8, <1>9
<1>12. ASSUME NEW x \in Live'
       PROVE  \E i \in DOMAIN cq : i > n /\ cq[i].b = x /\ cq[i].res # "canceled"
  <2>1. PICK i \in DOMAIN cq' : cq'[i].b = x /\ cq'[i].res # "canceled" BY DEF Live, Posted
  <2>2. i + n \in DOMAIN cq /\ i + n > n /\ cq'[i] = cq[i + n] BY <1>4, <2>1
  <2>3. QED BY <2>1, <2>2
<1>13. Out' \subseteq Live /\ Live' \subseteq Live /\ Live' \cap Out' = {}
  <2>1. Out' \subseteq Live BY <1>11 DEF Live, Posted
  <2>2. Live' \subseteq Live BY <1>12 DEF Live, Posted
  <2>3. ASSUME NEW x \in Out', x \in Live' PROVE FALSE
    <3>1. PICK i \in 1..n : i \in DOMAIN cq /\ cq[i].b = x /\ cq[i].res # "canceled" BY <1>11
    <3>2. PICK j \in DOMAIN cq : j > n /\ cq[j].b = x /\ cq[j].res # "canceled" BY <1>12, <2>3
    <3>3. i = j BY <1>5, <3>1, <3>2
    <3>4. QED BY <1>4, <3>2, <3>3
  <2>4. QED BY <2>1, <2>2, <2>3
<1>14. NoDangling'
  <2>1. ASSUME NEW e \in ToSet(g), ~Alive(e.b) PROVE Late(CallOf(e.b))
    <3>1. PICK j \in DOMAIN g : e = g[j] BY DEF ToSet
    <3>2. e.b \in Live BY <1>8, <3>1 DEF Live, Posted
    <3>3. QED BY <1>1, <2>1, <3>2 DEF Waited
  <2>2. \A b \in dangling' : Late(CallOf(b)) BY <1>2, <2>1 DEF g
  <2>3. QED BY <1>3, <2>2 DEF NoDangling, MayOutlive, Late
<1>15. (\A c \in Call : WaysOK(c)') /\ InOrder' /\ Counted' BY <1>1, <1>3, StillTokens
<1>16. ToSet(sq)' = ToSet(sq) /\ Out = {} BY <1>3 DEF Out, ToSet
<1>17. Ring' \subseteq Ring BY <1>3, <1>13, <1>16 DEF Ring
<1>18. Timed' /\ Yielded' BY <1>1, <1>3 DEF Tokens, Timed, Yielded, Alive
<1>19. Waited'
  <2>1. \A x \in Ring' : IF kind[CallOf(x)] = "link" THEN x[3] \in {1, 2} ELSE way[x] = "aio"
    BY <1>1, <1>17 DEF Waited
  <2>2. \A x \in fly \cup Live' \cup Out' : Alive(x) \/ Late(CallOf(x)) BY <1>1, <1>13 DEF Waited
  <2>3. QED BY <1>1, <1>3, <1>16, <2>1, <2>2 DEF Waited, Alive, Late
<1>20. Once'
  <2>1. ASSUME NEW i \in DOMAIN cq', NEW j \in DOMAIN cq',
               cq'[i].res # "canceled", cq'[j].res # "canceled", cq'[i].b = cq'[j].b
        PROVE  i = j
    <3>1. i + n \in DOMAIN cq /\ j + n \in DOMAIN cq /\ cq'[i] = cq[i + n] /\ cq'[j] = cq[j + n]
      BY <1>4
    <3>2. i + n = j + n BY <1>5, <2>1, <3>1
    <3>3. QED BY <1>4, <3>2
  <2>2. ToSet(sq) \cap (fly \cup Live' \cup Out') = {} /\ fly \cap (Live' \cup Out') = {}
    BY <1>1, <1>13 DEF Once
  <2>3. NoDup(sq) BY <1>1 DEF Once
  <2>5. PostedOnce(cq') BY <2>1 DEF PostedOnce
  <2>4. QED BY <1>3, <1>10, <1>13, <1>16, <2>2, <2>3, <2>5 DEF Once
<1>21. ASSUME NEW d \in Call PROVE Paired(d)'
  <2>1. Paired(d) BY <1>1 DEF Tokens
  <2>2. QED BY <1>3, <1>13, <1>16, <1>17, <2>1 DEF Paired, Running, Late
<1>26. LateOK' BY <1>1, <1>3, <1>16 DEF LateOK
<1>22. Adjacent' BY <1>1, <1>3 DEF Tokens, Adjacent, IsTimeout, Limits
<1>23. Over' BY <1>1, <1>3, <1>13 DEF Tokens, Over, IsTimeout
<1>24. Tokens' BY <1>15, <1>18, <1>19, <1>20, <1>21, <1>22, <1>23, <1>26 DEF Tokens
<1>25. QED BY <1>3, <1>14, <1>24 DEF Safe, TimeoutMeansElapsed

-----------------------------------------------------------------------------
(* A queue with room for one entry of every branch a parent can await at a *)
(* time never goes to the kernel before its batch is complete.             *)

RoomForAll == IsFiniteSet(Parent) /\ Cardinality(Parent) * Width <= SqSize

LEMMA Fits ==
  ASSUME RoomForAll, NEW s \in Seq(Branch), NoDup(s),
         \A i, j \in DOMAIN s : s[i][1] = s[j][1] /\ s[i][3] = s[j][3] => s[i] = s[j]
  PROVE  Len(s) <= SqSize
<1> DEFINE Places == Parent \X (1..Width)
           f == [i \in 1..Len(s) |-> <<s[i][1], s[i][3]>>]
<1>1. Width \in Nat /\ SqSize \in Nat BY BranchFacts, CombinatorsAssumption
<1>2. IsFiniteSet(1..Width) /\ Cardinality(1..Width) = Width
  <2>1. 0 <= Width BY <1>1
  <2>2. QED BY <1>1, <2>1, FS_Interval
<1>3. IsFiniteSet(Places) /\ Cardinality(Places) = Cardinality(Parent) * Width
  BY <1>2, FS_Product DEF RoomForAll
<1>4. DOMAIN s = 1..Len(s) /\ Len(s) \in Nat /\ \A i \in 1..Len(s) : s[i] \in Branch OBVIOUS
<1>5. \A b \in Branch : b[1] \in Parent /\ b[3] \in 1..Width BY DEF Branch
<1>6. f \in [1..Len(s) -> Places] BY <1>4, <1>5
<1>7. ASSUME NEW i \in 1..Len(s), NEW j \in 1..Len(s), f[i] = f[j] PROVE i = j
  <2>1. s[i][1] = s[j][1] /\ s[i][3] = s[j][3] BY <1>7
  <2>2. s[i] = s[j] BY <1>4, <2>1
  <2>3. QED BY <1>4, <2>2 DEF NoDup
<1> HIDE DEF f, Places
<1>8. f \in Injection(1..Len(s), Places) BY <1>6, <1>7 DEF Injection, IsInjective
<1>9. Cardinality(1..Len(s)) <= Cardinality(Places) BY <1>3, <1>8, FS_Injection
<1>10. Cardinality(1..Len(s)) = Len(s)
  <2>1. ASSUME NEW n \in Nat PROVE Cardinality(1..n) = n
    <3>1. n \in Int /\ 1 \in Int OBVIOUS
    <3>2. Cardinality(1..n) = IF 1 > n THEN 0 ELSE n - 1 + 1 BY <3>1, FS_Interval
    <3>3. QED BY <3>2
  <2>2. QED BY <1>4, <2>1
<1>11. Cardinality(Parent) \in Nat BY FS_CardinalityType DEF RoomForAll
<1>12. QED BY <1>1, <1>3, <1>4, <1>9, <1>10, <1>11 DEF RoomForAll

(* A parent awaits one call at a time.                                     *)
LEMMA OneRunning ==
  ASSUME Control, InOrder, NEW x \in Branch, NEW y \in Branch,
         Running(CallOf(x)), Running(CallOf(y)), x[1] = y[1], x[3] = y[3]
  PROVE  x = y
<1>1. /\ x[1] \in Parent /\ x[2] \in 1..MaxCalls /\ y[2] \in 1..MaxCalls
      /\ x = <<x[1], x[2], x[3]>> /\ y = <<y[1], y[2], y[3]>>
  BY DEF Branch
<1>2. call[<<x[1], x[2]>>] \in {"starting", "waiting"} /\ call[<<x[1], y[2]>>] \in {"starting", "waiting"}
  BY DEF Running, CallOf
<1>3. ~(x[2] < y[2]) /\ ~(y[2] < x[2]) BY <1>1, <1>2 DEF InOrder
<1>4. x[2] = y[2] BY <1>1, <1>3, CombinatorsAssumption
<1>5. QED BY <1>1, <1>4

LEMMA SqRuns ==
  ASSUME Control, LoopType, Tokens
  PROVE  \A x \in ToSet(sq) : x \in Branch /\ Running(CallOf(x))
BY RingWays DEF Ring

LEMMA AppendFacts ==
  ASSUME NEW T, NEW s \in Seq(T), NEW e \in T
  PROVE  /\ Append(s, e) \in Seq(T) /\ Len(Append(s, e)) = Len(s) + 1
         /\ ToSet(Append(s, e)) = ToSet(s) \cup {e}
         /\ \A j \in DOMAIN s : j \in DOMAIN Append(s, e) /\ Append(s, e)[j] = s[j]
         /\ \A j \in DOMAIN Append(s, e) : j \in DOMAIN s \/ j = Len(s) + 1
         /\ Append(s, e)[Len(s) + 1] = e
         /\ NoDup(s) /\ e \notin ToSet(s) => NoDup(Append(s, e))
<1> DEFINE a == Append(s, e)
<1>1. /\ a \in Seq(T) /\ Len(a) = Len(s) + 1 /\ Len(s) \in Nat /\ a[Len(s) + 1] = e
      /\ DOMAIN s = 1..Len(s) /\ DOMAIN a = 1..(Len(s) + 1) /\ \A j \in 1..Len(s) : a[j] = s[j]
  OBVIOUS
<1> HIDE DEF a
<1>2. /\ \A j \in DOMAIN s : j \in DOMAIN a /\ a[j] = s[j]
      /\ \A j \in DOMAIN a : j \in DOMAIN s \/ j = Len(s) + 1
      /\ Len(s) + 1 \in DOMAIN a
  BY <1>1
<1>3. ToSet(a) = ToSet(s) \cup {e}
  <2>1. ToSet(a) \subseteq ToSet(s) \cup {e} BY <1>1, <1>2 DEF ToSet
  <2>2. ToSet(s) \subseteq ToSet(a) BY <1>2 DEF ToSet
  <2>3. e \in ToSet(a) BY <1>1, <1>2 DEF ToSet
  <2>4. QED BY <2>1, <2>2, <2>3
<1>4. ASSUME NoDup(s), e \notin ToSet(s) PROVE NoDup(a)
  <2>1. \A j \in DOMAIN s : s[j] # e BY <1>4 DEF ToSet
  <2>2. QED BY <1>1, <1>2, <1>4, <2>1 DEF NoDup
<1>5. QED BY <1>1, <1>2, <1>3, <1>4 DEF a

LEMMA StartSuspendsSafe ==
  ASSUME Control, LoopType, Safe, RoomForAll, NEW c \in Call, StartSuspends(c)
  PROVE  Safe'
<1> DEFINE b == Of(c, next[c])
<1>1. /\ turn = c /\ way[b] # "ready" /\ frame' = [frame EXCEPT ![b] = "suspended"]
      /\ timerTree' = IF way[b] = "timer" THEN timerTree \cup {b} ELSE timerTree
      /\ yieldQueue' = IF way[b] = "yield" THEN Append(yieldQueue, b) ELSE yieldQueue
      /\ (IF way[b] = "aio" THEN GetSqe(b) ELSE UNCHANGED <<sq, fly, cq>>)
      /\ Started(c)
      /\ UNCHANGED <<kind, way, cnt, out, linked, batch, elapsed, late, dangling>>
  BY DEF StartSuspends, blockVars
<1>2. ControlType /\ CallOK(c) /\ Tokens /\ Once /\ Waited /\ WaysOK(c) /\ LateOK
  BY DEF Control, Safe, Tokens, StartSuspends
<1>3. /\ call[c] = "starting" /\ kind[c] \in Kinds /\ next[c] \in 1..Count(c)
      /\ \A i \in next[c]..Count(c) : frame[Of(c, i)] = "created"
  BY <1>1, <1>2 DEF CallOK
<1>4. Count(c) \in 1..Width /\ next[c] \in 1..Width /\ next[c] \in next[c]..Count(c)
  BY <1>3, CountFacts, BranchFacts
<1>5. b \in Branch /\ CallOf(b) = c /\ b[3] = next[c] /\ frame[b] = "created" /\ c # None
  BY <1>3, <1>4, BranchFacts
<1>6. kind[c] = "link" => way[b] \in {"op", "timeout"} /\ Count(c) = 2
  <2>1. ASSUME kind[c] = "link" PROVE way[b] \in {"op", "timeout"} /\ Count(c) = 2
    <3>1. way[Of(c, 1)] = "op" /\ way[Of(c, 2)] = "timeout" BY <1>2, <1>3, <2>1 DEF WaysOK
    <3>2. Count(c) = 2 BY <2>1 DEF Count, Size
    <3>3. next[c] \in {1, 2} BY <1>3, <3>2
    <3>4. QED BY <3>1, <3>2, <3>3
  <2>2. QED BY <2>1
<1> HIDE DEF b
<1>7. frame'[b] = "suspended" /\ \A x \in Branch : x # b => frame'[x] = frame[x]
  BY <1>1, <1>2, <1>5 DEF ControlType
<1>8. /\ next'[c] = next[c] + 1
      /\ IF next[c] = Count(c) THEN turn' = None /\ call'[c] = "waiting"
         ELSE turn' = turn /\ call'[c] = call[c]
      /\ \A d \in Call : d # c => call'[d] = call[d]
  <2>1. next' = [next EXCEPT ![c] = @ + 1]
        /\ IF next[c] = Count(c) THEN turn' = None /\ call' = [call EXCEPT ![c] = "waiting"]
           ELSE turn' = turn /\ call' = call
    BY <1>1 DEF Started
  <2>2. QED BY <1>2, <2>1 DEF ControlType
<1>9. \A d \in Call : /\ call'[d] = "new" <=> call[d] = "new"
                      /\ call'[d] = "returned" <=> call[d] = "returned"
                      /\ Running(d)' <=> Running(d)
  BY <1>3, <1>8 DEF Running
<1>10. ASSUME NEW d \in Call PROVE WaysOK(d)'
  <2>1. WaysOK(d) BY <1>2 DEF Tokens
  <2>2. QED BY <1>1, <1>9, <2>1 DEF WaysOK, BranchesOf
<1>11. InOrder'
  <2>1. \A p \in Parent, m \in 1..MaxCalls : <<p, m>> \in Call BY DEF Call
  <2>2. QED BY <1>2, <1>9, <2>1 DEF Tokens, InOrder
<1>12. Counted'
  <2>1. ASSUME NEW d \in Call PROVE Left(d)' = Left(d)
    <3>1. \A i \in 1..Width : Of(d, i) \in Branch BY BranchFacts
    <3>2. \A i \in 1..Width : frame'[Of(d, i)] # "ended" <=> frame[Of(d, i)] # "ended"
      BY <1>5, <1>7, <3>1
    <3>3. QED BY <3>2 DEF Left
  <2>2. QED BY <1>1, <1>2, <1>9, <2>1 DEF Tokens, Counted
<1>13. Timed'
  <2>1. \A x \in timerTree : Alive(x) /\ way[x] = "timer" /\ kind[CallOf(x)] # "link" /\ x \in Branch
    BY <1>2 DEF Tokens, Timed, LoopType
  <2>2. \A x \in timerTree : frame'[x] = "suspended" BY <1>5, <1>7, <2>1 DEF Alive
  <2>3. \A x \in timerTree' : x \in timerTree \/ (x = b /\ way[b] = "timer") BY <1>1
  <2>4. QED BY <1>1, <1>5, <1>6, <1>7, <2>1, <2>2, <2>3 DEF Timed, Alive
<1>14. Yielded'
  <2>1. NoDup(yieldQueue) /\ yieldQueue \in Seq(Branch) BY <1>2 DEF Tokens, Yielded, LoopType
  <2>2. \A x \in ToSet(yieldQueue) :
          Alive(x) /\ way[x] = "yield" /\ kind[CallOf(x)] # "link" /\ x \in Branch
    BY <1>2, LiveFacts DEF Tokens, Yielded
  <2>3. \A x \in ToSet(yieldQueue) : frame'[x] = "suspended" /\ x # b BY <1>5, <1>7, <2>2 DEF Alive
  <2>4. NoDup(yieldQueue')
        /\ \A x \in ToSet(yieldQueue') : x \in ToSet(yieldQueue) \/ (x = b /\ way[b] = "yield")
    BY <1>1, <1>5, <2>1, <2>3, AppendFacts
  <2>5. QED BY <1>1, <1>5, <1>6, <1>7, <2>2, <2>3, <2>4 DEF Yielded, Alive
<1>15. ASSUME way[b] = "aio" PROVE b \notin Ring
  <2>1. SUFFICES ASSUME b \in Ring PROVE FALSE
    OBVIOUS
  <2>5. ~Late(c) BY <1>2, <1>5, <1>6, <1>15, <2>1, RingWays
  <2>2. b \in ToSet(sq) BY <1>2, <1>5, <2>1, <2>5, RingWays
  <2>3. kind[c] = "link" BY <1>2, <1>5, <2>2 DEF Waited, Alive
  <2>4. QED BY <1>6, <1>15, <2>3
<1>16. fly' = fly /\ cq' = cq /\ sq' = IF way[b] = "aio" THEN Append(sq, b) ELSE sq
  <2>1. CASE way[b] # "aio" BY <1>1, <2>1
  <2>2. CASE way[b] = "aio"
    <3> DEFINE s == Append(sq, b)
    <3>1. sq \in Seq(Branch) /\ b \notin ToSet(sq) /\ NoDup(sq)
      BY <1>2, <1>15, <2>2 DEF LoopType, Ring, Once
    <3>2. s \in Seq(Branch) /\ NoDup(s) /\ Len(s) = Len(sq) + 1 /\ ToSet(s) = ToSet(sq) \cup {b}
      BY <1>5, <3>1, AppendFacts
    <3>3. \A x \in ToSet(s) : x \in Branch /\ Running(CallOf(x))
      BY <1>2, <1>3, <1>5, <3>2, SqRuns DEF Running
    <3> HIDE DEF s
    <3>4. \A i, j \in DOMAIN s : s[i][1] = s[j][1] /\ s[i][3] = s[j][3] => s[i] = s[j]
      <4>1. \A i \in DOMAIN s : s[i] \in ToSet(s) BY DEF ToSet
      <4>2. InOrder BY <1>2 DEF Tokens
      <4>3. QED BY <3>3, <4>1, <4>2, OneRunning
    <3>5. Len(s) <= SqSize BY <3>2, <3>4, Fits
    <3>6. Len(sq) < SqSize
      <4>1. Len(sq) \in Nat /\ SqSize \in Nat BY <3>1, CombinatorsAssumption
      <4>2. QED BY <3>2, <3>5, <4>1
    <3>7. GetSqe(b) BY <1>1, <2>2
    <3>8. QED BY <2>2, <3>6, <3>7 DEF GetSqe
  <2>3. QED BY <2>1, <2>2
<1>17. /\ Live' = Live /\ Out' = Out
       /\ ToSet(sq)' = ToSet(sq) \cup (IF way[b] = "aio" THEN {b} ELSE {})
       /\ Ring' = Ring \cup (IF way[b] = "aio" THEN {b} ELSE {})
  <2>1. Live' = Live /\ Out' = Out BY <1>1, <1>16 DEF Live, Posted, Out
  <2>2. ToSet(sq)' = ToSet(sq) \cup (IF way[b] = "aio" THEN {b} ELSE {})
    <3>1. sq \in Seq(Branch) BY DEF LoopType
    <3>2. QED BY <1>5, <1>16, <3>1, AppendFacts
  <2>3. QED BY <1>16, <2>1, <2>2 DEF Ring
<1>18. \A x \in Branch : frame[x] = "suspended" => frame'[x] = "suspended" BY <1>7
<1>19. Waited'
  <2>1. \A x \in Ring' : IF kind[CallOf(x)] = "link" THEN x[3] \in {1, 2} ELSE way[x] = "aio"
    BY <1>2, <1>5, <1>6, <1>17 DEF Waited
  <2>2. \A x \in fly \cup Live \cup Out : frame'[x] = "suspended" \/ Late(CallOf(x))
    BY <1>2, <1>18, LiveFacts DEF Waited, Alive, LoopType
  <2>3. ASSUME NEW x \in ToSet(sq)'
        PROVE  \/ frame'[x] = "suspended"
               \/ /\ frame'[x] = "created" /\ kind[CallOf(x)] = "link"
                  /\ turn' = CallOf(x) /\ x[3] >= next'[CallOf(x)]
    <3>1. CASE x = b BY <1>7, <3>1
    <3>2. CASE x # b
      <4>1. x \in ToSet(sq) /\ x \in Ring /\ x \in Branch BY <1>17, <3>2, LiveFacts DEF Ring
      <4>2. CASE frame[x] = "suspended" BY <1>18, <4>1, <4>2
      <4>3. CASE frame[x] # "suspended"
        <5>1. frame[x] = "created" /\ kind[CallOf(x)] = "link" /\ turn = CallOf(x)
              /\ x[3] >= next[CallOf(x)]
          BY <1>2, <4>1, <4>3 DEF Waited, Alive
        <5>2. CallOf(x) = c /\ kind[c] = "link" /\ x[3] >= next[c] BY <1>1, <5>1
        <5>3. x = Of(c, x[3]) /\ x[3] \in 1..Width BY <4>1, <5>2, BranchFacts
        <5>4. x[3] # next[c] BY <3>2, <5>3 DEF b
        <5>5. x[3] \in {1, 2} BY <1>2, <4>1, <5>2 DEF Waited
        <5>6. x[3] >= next'[c] BY <1>4, <1>8, <5>2, <5>4, <5>5
        <5>7. next[c] # Count(c) BY <1>4, <1>6, <5>2, <5>4, <5>5
        <5>8. turn' = c BY <1>1, <1>8, <5>7
        <5>9. frame'[x] = "created" BY <1>7, <3>2, <4>1, <5>1
        <5>10. QED BY <5>2, <5>6, <5>8, <5>9
      <4>4. QED BY <4>2, <4>3
    <3>3. QED BY <3>1, <3>2
  <2>4. QED BY <1>1, <1>16, <1>17, <2>1, <2>2, <2>3 DEF Waited, Alive, Late
<1>20. Once'
  <2>1. NoDup(sq')
    <3>1. way[b] = "aio" => b \notin ToSet(sq) BY <1>15 DEF Ring
    <3>2. sq \in Seq(Branch) /\ NoDup(sq) BY <1>2 DEF LoopType, Once
    <3>3. QED BY <1>5, <1>16, <3>1, <3>2, AppendFacts
  <2>2. ToSet(sq)' \cap (fly \cup Live \cup Out) = {}
    <3>1. way[b] = "aio" => b \notin fly \cup Live \cup Out BY <1>15 DEF Ring
    <3>2. QED BY <1>2, <1>17, <3>1 DEF Once
  <2>3. QED BY <1>1, <1>2, <1>16, <1>17, <2>1, <2>2 DEF Once
<1>21. ASSUME NEW d \in Call PROVE Paired(d)'
  <2>1. Paired(d) BY <1>2 DEF Tokens
  <2>2. SUFFICES ASSUME Running(d), kind[d] = "link", ~Late(d)
                 PROVE  /\ Of(d, 1) \in ToSet(sq)' <=> Of(d, 2) \in ToSet(sq)'
                        /\ Of(d, 1) \in fly <=> Of(d, 2) \in fly
                        /\ Of(d, 1) \in Live \cup Out => Of(d, 2) \notin Ring'
                        /\ Of(d, 2) \in Live \cup Out => Of(d, 1) \notin Ring'
    BY <1>1, <1>9, <1>16, <1>17 DEF Paired, Late
  <2>3. CallOf(Of(d, 1)) = d /\ CallOf(Of(d, 2)) = d BY BranchFacts
  <2>4. way[b] = "aio" => Of(d, 1) # b /\ Of(d, 2) # b BY <1>5, <1>6, <2>2, <2>3
  <2>5. QED BY <1>17, <2>1, <2>2, <2>4 DEF Paired
<1>22. Adjacent'
  <2>1. ASSUME NEW j \in DOMAIN sq', way[sq'[j]] = "timeout"
        PROVE  j > 1 /\ sq'[j - 1] \in linked
    <3>1. sq \in Seq(Branch) /\ Adjacent BY <1>2 DEF LoopType, Tokens
    <3>2. j \in DOMAIN sq /\ sq'[j] = sq[j] BY <1>5, <1>16, <2>1, <3>1, AppendFacts
    <3>3. j > 1 /\ sq[j - 1] \in linked BY <2>1, <3>1, <3>2 DEF Adjacent, IsTimeout, Limits
    <3>4. j - 1 \in DOMAIN sq BY <3>1, <3>2, <3>3
    <3>5. sq'[j - 1] = sq[j - 1] BY <1>5, <1>16, <3>1, <3>4, AppendFacts
    <3>6. QED BY <3>3, <3>5
  <2>2. QED BY <1>1, <2>1 DEF Adjacent, IsTimeout, Limits
<1>23. Over' BY <1>1, <1>2, <1>17 DEF Tokens, Over, IsTimeout
<1>26. LateOK'
  <2>1. ASSUME NEW x \in late
        PROVE  /\ CallOf(x) \in Call /\ kind[CallOf(x)] = "link"
               /\ x \notin ToSet(sq)' /\ Of(CallOf(x), 1) \notin ToSet(sq)'
    <3>1. /\ x \in Branch /\ x = Of(CallOf(x), 2) /\ kind[CallOf(x)] = "link"
          /\ x \notin ToSet(sq) /\ Of(CallOf(x), 1) \notin ToSet(sq)
      BY <1>2 DEF LateOK
    <3>2. CallOf(x) \in Call /\ CallOf(Of(CallOf(x), 1)) = CallOf(x) BY <3>1, BranchFacts
    <3>3. way[b] = "aio" => x # b /\ Of(CallOf(x), 1) # b BY <1>5, <1>6, <3>1, <3>2
    <3>4. QED BY <1>17, <3>1, <3>2, <3>3
  <2>2. QED BY <1>1, <1>2, <1>9, <1>16, <2>1 DEF LateOK
<1>24. Tokens'
  BY <1>10, <1>11, <1>12, <1>13, <1>14, <1>19, <1>20, <1>21, <1>22, <1>23, <1>26 DEF Tokens
<1>27. NoDangling' BY <1>1, StillNamed DEF Safe
<1>25. QED BY <1>1, <1>24, <1>27 DEF Safe, TimeoutMeansElapsed

LEMMA BeginSafe ==
  ASSUME Control, LoopType, Safe, RoomForAll, NEW p \in Parent, Begin(p)
  PROVE  Safe'
<1>1. PICK n \in 1..MaxCalls, k \in Kinds :
        LET c == <<p, n>> IN
        /\ turn = None
        /\ call[c] = "new" /\ (n > 1 => call[<<p, n - 1>>] = "returned")
        /\ kind' = [kind EXCEPT ![c] = k]
        /\ call' = [call EXCEPT ![c] = "starting"]
        /\ turn' = c
        /\ frame' = [b \in Branch |-> IF CallOf(b) = c /\ b[3] <= Size(k) THEN "created" ELSE frame[b]]
        /\ IF k = "link"
           THEN /\ way' = [way EXCEPT ![Of(c, 1)] = "op", ![Of(c, 2)] = "timeout"]
                /\ GetPair(c)
                /\ UNCHANGED cnt
           ELSE /\ \E w \in [1..Width -> IF k = "any" THEN AnyWays ELSE Ways] :
                     way' = [b \in Branch |-> IF CallOf(b) = c THEN w[b[3]] ELSE way[b]]
                /\ cnt' = [cnt EXCEPT ![c] = IF k = "all" THEN Width ELSE 0]
                /\ UNCHANGED <<sq, linked, fly, cq>>
  BY DEF Begin, InitialCnt
<1>2. Defined /\ UNCHANGED <<next, out, timerTree, yieldQueue, batch, elapsed, late, dangling>>
  BY DEF Begin, timerVars
<1> DEFINE c == <<p, n>>
           op == Of(c, 1)
           timeout == Of(c, 2)
<1>3. c \in Call BY DEF Call
<1>4. ControlType /\ CallOK(c) /\ Tokens /\ Once /\ Waited /\ InOrder /\ LateOK
  BY <1>2, <1>3 DEF Control, Safe, Tokens
<1>5. /\ op \in Branch /\ timeout \in Branch /\ CallOf(op) = c /\ CallOf(timeout) = c
      /\ op[3] = 1 /\ timeout[3] = 2 /\ op # timeout /\ c # None
  BY <1>3, BranchFacts
<1>6. n \in Nat /\ MaxCalls \in Nat BY CombinatorsAssumption
<1>7. /\ kind'[c] = k /\ call'[c] = "starting"
      /\ \A d \in Call : d # c => kind'[d] = kind[d] /\ call'[d] = call[d]
  BY <1>1, <1>3, <1>4 DEF ControlType
<1> HIDE DEF op, timeout
<1>8. \A x \in Branch : CallOf(x) # c => frame'[x] = frame[x] /\ way'[x] = way[x]
  <2>1. CASE k = "link"
    <3>1. way' = [way EXCEPT ![op] = "op", ![timeout] = "timeout"] BY <1>1, <2>1 DEF op, timeout
    <3>2. \A x \in Branch : CallOf(x) # c => x # op /\ x # timeout BY <1>5
    <3>3. QED BY <1>1, <3>1, <3>2 DEF LoopType
  <2>2. CASE k # "link" BY <1>1, <2>2
  <2>3. QED BY <2>1, <2>2
<1>9. ~Running(c) /\ Running(c)' /\ \A d \in Call : d # c => (Running(d)' <=> Running(d))
  BY <1>1, <1>7 DEF Running
<1>10. \A x \in Ring : x \in Branch /\ CallOf(x) # c /\ CallOf(x) \in Call
  BY <1>1, <1>4, RingWays
(* No other call of the parent is running.                                 *)
<1>11. ASSUME NEW m \in 1..MaxCalls, Running(<<p, m>>) PROVE FALSE
  <2>1. m \in Nat BY <1>6
  <2>2. call[<<p, m>>] \in {"starting", "waiting"} BY <1>11 DEF Running
  <2>3. CASE m = n BY <1>1, <2>2, <2>3
  <2>4. CASE m > n
    <3>1. n < m BY <1>6, <2>1, <2>4
    <3>2. call[<<p, n>>] = "returned" BY <1>4, <2>2, <3>1 DEF InOrder
    <3>3. QED BY <1>1, <3>2
  <2>5. CASE m < n
    <3>1. n - 1 \in 1..MaxCalls /\ n > 1 BY <1>6, <2>1, <2>5
    <3>2. call[<<p, n - 1>>] = "returned" BY <1>1, <3>1
    <3>3. m # n - 1 BY <2>2, <3>2
    <3>4. m < n - 1 BY <1>6, <2>1, <2>5, <3>3
    <3>5. call[<<p, m>>] = "returned" BY <1>4, <3>1, <3>2, <3>4 DEF InOrder
    <3>6. QED BY <2>2, <3>5
  <2>6. QED BY <1>6, <2>1, <2>3, <2>4, <2>5
<1>12. \A x \in ToSet(sq) : x[1] # p
  <2>1. ASSUME NEW x \in ToSet(sq), x[1] = p PROVE FALSE
    <3>1. x \in Branch /\ Running(CallOf(x)) BY <1>4, SqRuns
    <3>2. x[2] \in 1..MaxCalls BY <3>1 DEF Branch
    <3>3. CallOf(x) = <<p, x[2]>> BY <2>1 DEF CallOf
    <3>4. QED BY <1>11, <3>1, <3>2, <3>3
  <2>2. QED BY <2>1
<1>13. op[1] = p /\ timeout[1] = p BY DEF op, timeout, Of
<1>14. op \notin ToSet(sq) /\ timeout \notin ToSet(sq) /\ op \notin Ring /\ timeout \notin Ring
  BY <1>5, <1>10, <1>12, <1>13
<1> DEFINE s == Append(Append(sq, op), timeout)
<1>15. sq \in Seq(Branch) /\ NoDup(sq) /\ Len(sq) \in Nat BY <1>4 DEF LoopType, Once
<1>16. /\ Append(sq, op) \in Seq(Branch) /\ ToSet(Append(sq, op)) = ToSet(sq) \cup {op}
       /\ NoDup(Append(sq, op)) /\ timeout \notin ToSet(Append(sq, op))
       /\ Len(Append(sq, op)) = Len(sq) + 1
  BY <1>5, <1>14, <1>15, AppendFacts
<1>17. /\ s \in Seq(Branch) /\ ToSet(s) = ToSet(sq) \cup {op, timeout} /\ NoDup(s)
       /\ Len(s) = Len(sq) + 2
  <2> DEFINE a == Append(sq, op)
  <2>1. a \in Seq(Branch) /\ NoDup(a) /\ timeout \notin ToSet(a) /\ Len(a) = Len(sq) + 1
        /\ ToSet(a) = ToSet(sq) \cup {op}
    BY <1>16
  <2> HIDE DEF a
  <2>2. /\ Append(a, timeout) \in Seq(Branch) /\ ToSet(Append(a, timeout)) = ToSet(a) \cup {timeout}
        /\ NoDup(Append(a, timeout)) /\ Len(Append(a, timeout)) = Len(a) + 1
    BY <1>5, <2>1, AppendFacts
  <2>3. Len(a) + 1 = Len(sq) + 2 BY <1>15, <2>1
  <2>4. QED BY <2>1, <2>2, <2>3 DEF a
<1>18. /\ \A j \in DOMAIN sq : j \in DOMAIN s /\ s[j] = sq[j]
       /\ \A j \in DOMAIN s : j \in DOMAIN sq \/ j \in {Len(sq) + 1, Len(sq) + 2}
       /\ s[Len(sq) + 1] = op /\ s[Len(sq) + 2] = timeout
       /\ s = sq \o <<op, timeout>>
  <2>1. /\ \A j \in DOMAIN sq : j \in DOMAIN s /\ s[j] = sq[j]
        /\ s[Len(sq) + 1] = op /\ s[Len(sq) + 2] = timeout
    BY <1>5, <1>15
  <2>2. DOMAIN s = 1..(Len(sq) + 2) /\ DOMAIN sq = 1..Len(sq) BY <1>15
  <2> HIDE DEF s
  <2>3. \A j \in DOMAIN s : j \in DOMAIN sq \/ j \in {Len(sq) + 1, Len(sq) + 2}
    BY <1>15, <2>2
  <2>4. s = sq \o <<op, timeout>> BY <1>5, <1>15 DEF s
  <2> QED BY <2>1, <2>3, <2>4
<1> HIDE DEF s
<1>19. Len(s) <= SqSize
  <2>1. \A i \in DOMAIN s : s[i] \in ToSet(s) BY DEF ToSet
  <2>2. ASSUME NEW x \in ToSet(s), NEW y \in ToSet(s), x[1] = y[1], x[3] = y[3] PROVE x = y
    <3>1. CASE x \in ToSet(sq) /\ y \in ToSet(sq) BY <1>4, <2>2, <3>1, SqRuns, OneRunning
    <3>2. CASE x \in ToSet(sq) /\ y \notin ToSet(sq) BY <1>12, <1>13, <1>17, <2>2, <3>2
    <3>3. CASE x \notin ToSet(sq) /\ y \in ToSet(sq) BY <1>12, <1>13, <1>17, <2>2, <3>3
    <3>4. CASE x \notin ToSet(sq) /\ y \notin ToSet(sq)
      <4>1. x \in {op, timeout} /\ y \in {op, timeout} BY <1>17, <3>4
      <4>2. QED BY <1>5, <2>2, <4>1
    <3>5. QED BY <3>1, <3>2, <3>3, <3>4
  <2>3. \A i, j \in DOMAIN s : s[i][1] = s[j][1] /\ s[i][3] = s[j][3] => s[i] = s[j] BY <2>1, <2>2
  <2>4. QED BY <1>17, <2>3, Fits
<1>20. /\ fly' = fly /\ cq' = cq /\ sq' = IF k = "link" THEN s ELSE sq
       /\ linked \subseteq linked' /\ (k = "link" => op \in linked')
  <2>1. CASE k # "link" BY <1>1, <2>1
  <2>2. CASE k = "link"
    <3>1. Len(sq) + 2 <= SqSize BY <1>17, <1>19
    <3>2. GetPair(c) BY <1>1, <2>2
    <3>3. sq' = sq \o <<op, timeout>> /\ fly' = fly /\ cq' = cq
          /\ linked' = linked \cup ({op} \cap ToSet(sq'))
      BY <3>1, <3>2 DEF GetPair, LinkFlag, op, timeout
    <3>4. sq' = s /\ op \in ToSet(sq') BY <1>17, <1>18, <3>3
    <3>5. QED BY <2>2, <3>3, <3>4
  <2>3. QED BY <2>1, <2>2
<1>21. /\ Live' = Live /\ Out' = Out
       /\ ToSet(sq)' = ToSet(sq) \cup (IF k = "link" THEN {op, timeout} ELSE {})
       /\ Ring' = Ring \cup (IF k = "link" THEN {op, timeout} ELSE {})
  <2>1. Live' = Live /\ Out' = Out BY <1>2, <1>20 DEF Live, Posted, Out
  <2>2. ToSet(sq)' = ToSet(sq) \cup (IF k = "link" THEN {op, timeout} ELSE {})
    BY <1>17, <1>20
  <2>3. QED BY <1>20, <2>1, <2>2 DEF Ring
<1>22. k = "link" => way'[op] = "op" /\ way'[timeout] = "timeout"
  <2>1. ASSUME k = "link" PROVE way'[op] = "op" /\ way'[timeout] = "timeout"
    <3>1. way' = [way EXCEPT ![op] = "op", ![timeout] = "timeout"] BY <1>1, <2>1 DEF op, timeout
    <3>2. QED BY <1>5, <3>1 DEF LoopType
  <2>2. QED BY <2>1
<1>23. ASSUME k # "link", NEW x \in BranchesOf(c)
       PROVE  way'[x] \in Ways /\ (k = "any" => way'[x] \in AnyWays)
  <2>1. PICK w \in [1..Width -> IF k = "any" THEN AnyWays ELSE Ways] :
          way' = [b \in Branch |-> IF CallOf(b) = c THEN w[b[3]] ELSE way[b]]
    BY <1>1, <1>23
  <2>2. x \in Branch /\ CallOf(x) = c /\ x[3] \in 1..Width BY BranchFacts DEF BranchesOf
  <2>3. way'[x] = w[x[3]] BY <2>1, <2>2
  <2>4. w[x[3]] \in IF k = "any" THEN AnyWays ELSE Ways BY <2>2
  <2>5. QED BY <2>3, <2>4, CombinatorsAssumption
<1>24. ASSUME NEW d \in Call PROVE WaysOK(d)'
  <2>1. CASE d = c BY <1>7, <1>22, <1>23, <2>1 DEF WaysOK, BranchesOf, op, timeout
  <2>2. CASE d # c
    <3>1. WaysOK(d) BY <1>4 DEF Tokens
    <3>2. Of(d, 1) \in Branch /\ Of(d, 2) \in Branch /\ CallOf(Of(d, 1)) = d /\ CallOf(Of(d, 2)) = d
      BY BranchFacts
    <3>3. \A x \in BranchesOf(d) : x \in Branch /\ CallOf(x) # c BY <2>2 DEF BranchesOf
    <3>4. QED BY <1>7, <1>8, <2>2, <3>1, <3>2, <3>3 DEF WaysOK, BranchesOf
  <2>3. QED BY <2>1, <2>2
<1>25. InOrder'
  <2>1. ASSUME NEW q \in Parent, NEW m \in 1..MaxCalls, NEW l \in 1..MaxCalls,
               m < l, call'[<<q, l>>] # "new"
        PROVE  call'[<<q, m>>] = "returned"
    <3>1. <<q, m>> \in Call /\ <<q, l>> \in Call /\ m \in Nat /\ l \in Nat BY <1>6 DEF Call
    <3>2. CASE <<q, l>> = c
      <4>1. q = p /\ l = n BY <3>2
      <4>2. n > 1 /\ n - 1 \in 1..MaxCalls /\ m # n BY <1>6, <2>1, <3>1, <4>1
      <4>3. call[<<p, n - 1>>] = "returned" BY <1>1, <4>2
      <4>4. call[<<p, m>>] = "returned"
        <5>1. CASE m = n - 1 BY <4>3, <5>1
        <5>2. CASE m # n - 1
          <6>1. m < n - 1 BY <1>6, <2>1, <3>1, <4>1, <5>2
          <6>2. QED BY <1>4, <4>2, <4>3, <6>1 DEF InOrder
        <5>3. QED BY <5>1, <5>2
      <4>5. <<q, m>> # c BY <4>1, <4>2
      <4>6. QED BY <1>7, <3>1, <4>1, <4>4, <4>5
    <3>3. CASE <<q, l>> # c
      <4>1. call[<<q, m>>] = "returned" BY <1>4, <1>7, <2>1, <3>1, <3>3 DEF InOrder
      <4>2. <<q, m>> # c BY <1>1, <4>1
      <4>3. QED BY <1>7, <3>1, <4>1, <4>2
    <3>4. QED BY <3>2, <3>3
  <2>2. QED BY <2>1 DEF InOrder
<1>26. Counted'
  <2>1. ASSUME NEW d \in Call, Running(d)', kind'[d] = "all" PROVE cnt'[d] = Cardinality(Left(d)')
    <3>1. CASE d = c
      <4>1. k = "all" BY <1>7, <2>1, <3>1
      <4>2. cnt'[c] = Width BY <1>1, <1>3, <1>4, <4>1 DEF ControlType
      <4>3. Width \in Nat /\ Width >= 2 BY BranchFacts
      <4>4. \A i \in 1..Width : frame'[Of(c, i)] = "created"
        <5>1. \A i \in 1..Width : Of(c, i) \in Branch /\ CallOf(Of(c, i)) = c /\ Of(c, i)[3] = i
          BY <1>3, BranchFacts
        <5>2. Size(k) = Width BY <4>1 DEF Size
        <5>3. \A i \in 1..Width : i <= Width BY <4>3
        <5>4. QED BY <1>1, <5>1, <5>2, <5>3
      <4>5. Left(c)' = 1..Width BY <4>4 DEF Left
      <4>6. Cardinality(1..Width) = Width
        <5>1. 1 <= Width BY <4>3
        <5>2. Cardinality(1..Width) = IF 1 > Width THEN 0 ELSE Width - 1 + 1 BY <4>3, FS_Interval
        <5>3. QED BY <4>3, <5>1, <5>2
      <4>7. QED BY <3>1, <4>2, <4>5, <4>6
    <3>2. CASE d # c
      <4>1. Running(d) /\ kind[d] = "all" BY <1>7, <1>9, <2>1, <3>2
      <4>2. cnt[d] = Cardinality(Left(d)) BY <1>4, <4>1 DEF Tokens, Counted
      <4>3. cnt'[d] = cnt[d] BY <1>1, <1>4, <3>2 DEF ControlType
      <4>4. \A i \in 1..Width : Of(d, i) \in Branch /\ CallOf(Of(d, i)) # c BY <3>2, BranchFacts
      <4>5. Left(d)' = Left(d) BY <1>8, <4>4 DEF Left
      <4>6. QED BY <4>2, <4>3, <4>5
    <3>3. QED BY <3>1, <3>2
  <2>2. QED BY <2>1 DEF Counted
<1>27. ASSUME NEW x \in Branch, frame[x] = "suspended"
       PROVE  /\ CallOf(x) # c /\ frame'[x] = "suspended" /\ way'[x] = way[x]
              /\ kind'[CallOf(x)] = kind[CallOf(x)]
  <2>1. Running(CallOf(x)) /\ CallOf(x) \in Call BY <1>27, AliveRuns, BranchFacts
  <2>2. CallOf(x) # c BY <1>9, <2>1
  <2>3. QED BY <1>7, <1>8, <1>27, <2>1, <2>2
<1>28. Timed'
  <2>1. \A x \in timerTree : x \in Branch /\ frame[x] = "suspended" /\ way[x] = "timer"
                             /\ kind[CallOf(x)] # "link"
    BY <1>4 DEF LoopType, Tokens, Timed, Alive
  <2>2. QED BY <1>2, <1>27, <2>1 DEF Timed, Alive
<1>29. Yielded'
  <2>1. \A x \in ToSet(yieldQueue) : x \in Branch /\ frame[x] = "suspended" /\ way[x] = "yield"
                                     /\ kind[CallOf(x)] # "link"
    BY <1>4, LiveFacts DEF Tokens, Yielded, Alive
  <2>2. NoDup(yieldQueue) BY <1>4 DEF Tokens, Yielded
  <2>3. QED BY <1>2, <1>27, <2>1, <2>2 DEF Yielded, Alive
<1>30. Waited'
  <2>1. ASSUME NEW x \in Ring'
        PROVE  IF kind'[CallOf(x)] = "link" THEN x[3] \in {1, 2} ELSE way'[x] = "aio"
    <3>1. CASE x \in Ring
      <4>1. x \in Branch /\ CallOf(x) # c /\ CallOf(x) \in Call BY <1>10, <3>1
      <4>2. IF kind[CallOf(x)] = "link" THEN x[3] \in {1, 2} ELSE way[x] = "aio"
        BY <1>4, <3>1 DEF Waited
      <4>3. QED BY <1>7, <1>8, <4>1, <4>2
    <3>2. CASE x \notin Ring
      <4>1. k = "link" /\ x \in {op, timeout} BY <1>21, <2>1, <3>2
      <4>2. QED BY <1>5, <1>7, <4>1
    <3>3. QED BY <3>1, <3>2
  <2>2. \A x \in fly \cup Live \cup Out : x \in Branch /\ (frame[x] = "suspended" \/ Late(CallOf(x)))
    BY <1>4, LiveFacts DEF Waited, Alive, LoopType
  <2>3. \A x \in ToSet(sq) : x \in Branch /\ frame[x] = "suspended"
    <3>1. ASSUME NEW x \in ToSet(sq) PROVE x \in Branch /\ frame[x] = "suspended"
      <4>1. x \in Branch /\ CallOf(x) \in Call BY LiveFacts, BranchFacts
      <4>2. CallOf(x) # turn BY <1>1, <4>1, BranchFacts
      <4>3. QED BY <1>4, <4>1, <4>2 DEF Waited, Alive
    <3>2. QED BY <3>1
  <2>4. ASSUME NEW x \in ToSet(sq)', x \notin ToSet(sq)
        PROVE  /\ frame'[x] = "created" /\ kind'[CallOf(x)] = "link" /\ turn' = CallOf(x)
               /\ x[3] >= next'[CallOf(x)]
    <3>1. k = "link" /\ x \in {op, timeout} BY <1>21, <2>4
    <3>2. x \in Branch /\ CallOf(x) = c /\ x[3] \in {1, 2} BY <1>5, <3>1
    <3>3. Size(k) = 2 BY <3>1 DEF Size
    <3>4. x[3] <= Size(k) BY <3>2, <3>3
    <3>5. frame'[x] = "created" BY <1>1, <3>2, <3>4
    <3>6. next'[c] = 1 BY <1>1, <1>2, <1>4 DEF CallOK
    <3>7. QED BY <1>1, <1>7, <3>1, <3>2, <3>5, <3>6
  <2>5. QED BY <1>2, <1>20, <1>21, <1>27, <2>1, <2>2, <2>3, <2>4 DEF Waited, Alive, Late
<1>31. Once'
  <2>1. NoDup(sq') BY <1>15, <1>17, <1>20
  <2>2. ToSet(sq)' \cap (fly \cup Live \cup Out) = {}
    <3>1. op \notin fly \cup Live \cup Out /\ timeout \notin fly \cup Live \cup Out BY <1>14 DEF Ring
    <3>2. QED BY <1>4, <1>21, <3>1 DEF Once
  <2>3. QED BY <1>2, <1>4, <1>20, <1>21, <2>1, <2>2 DEF Once
<1>32. ASSUME NEW d \in Call PROVE Paired(d)'
  <2>1. SUFFICES ASSUME Running(d)', kind'[d] = "link", ~Late(d)
                 PROVE  /\ Of(d, 1) \in ToSet(sq)' <=> Of(d, 2) \in ToSet(sq)'
                        /\ Of(d, 1) \in fly <=> Of(d, 2) \in fly
                        /\ Of(d, 1) \in Live \cup Out => Of(d, 2) \notin Ring'
                        /\ Of(d, 2) \in Live \cup Out => Of(d, 1) \notin Ring'
    BY <1>2, <1>20, <1>21 DEF Paired, Late
  <2>2. CASE d = c
    <3>1. k = "link" BY <1>7, <2>1, <2>2
    <3>2. Of(d, 1) = op /\ Of(d, 2) = timeout BY <2>2 DEF op, timeout
    <3>3. op \notin fly \cup Live \cup Out /\ timeout \notin fly \cup Live \cup Out BY <1>14 DEF Ring
    <3>4. QED BY <1>21, <3>1, <3>2, <3>3
  <2>3. CASE d # c
    <3>1. Running(d) /\ kind[d] = "link" BY <1>7, <1>9, <2>1, <2>3
    <3>2. Paired(d) BY <1>4 DEF Tokens
    <3>3. Of(d, 1) \notin {op, timeout} /\ Of(d, 2) \notin {op, timeout}
      <4>1. CallOf(Of(d, 1)) = d /\ CallOf(Of(d, 2)) = d BY BranchFacts
      <4>2. QED BY <1>5, <2>3, <4>1
    <3>4. QED BY <1>21, <2>1, <3>1, <3>2, <3>3 DEF Paired
  <2>4. QED BY <2>2, <2>3
<1>33. Adjacent'
  <2>1. ASSUME NEW j \in DOMAIN sq, way'[sq[j]] = "timeout" PROVE j > 1 /\ sq[j - 1] \in linked'
    <3>1. sq[j] \in ToSet(sq) BY DEF ToSet
    <3>2. way'[sq[j]] = way[sq[j]] BY <1>8, <1>10, <3>1 DEF Ring
    <3>3. QED BY <1>4, <1>20, <2>1, <3>2 DEF Tokens, Adjacent, IsTimeout, Limits
  <2>2. ASSUME k = "link", NEW j \in DOMAIN s, way'[s[j]] = "timeout" PROVE j > 1 /\ s[j - 1] \in linked'
    <3>1. CASE j \in DOMAIN sq
      <4>1. s[j] = sq[j] BY <1>18, <3>1
      <4>2. j > 1 /\ sq[j - 1] \in linked' BY <2>1, <2>2, <3>1, <4>1
      <4>3. j - 1 \in DOMAIN sq BY <1>15, <3>1, <4>2
      <4>4. QED BY <1>18, <4>2, <4>3
    <3>2. CASE j = Len(sq) + 1 BY <1>18, <1>22, <2>2, <3>2
    <3>3. CASE j = Len(sq) + 2
      <4>1. j > 1 /\ j - 1 = Len(sq) + 1 BY <1>15, <3>3
      <4>2. QED BY <1>18, <1>20, <2>2, <4>1
    <3>4. QED BY <1>18, <3>1, <3>2, <3>3
  <2>3. QED BY <1>20, <2>1, <2>2 DEF Adjacent, IsTimeout, Limits
<1>34. Over'
  <2>1. \A x \in Live \cup Out : x \in Ring BY DEF Ring
  <2>2. \A x \in Live \cup Out : way'[x] = way[x] BY <1>8, <1>10, <2>1
  <2>3. QED BY <1>2, <1>4, <1>21, <2>2 DEF Tokens, Over, IsTimeout
<1>38. LateOK'
  <2>1. ASSUME NEW x \in late
        PROVE  /\ x \in Branch /\ x = Of(CallOf(x), 2) /\ call'[CallOf(x)] # "new"
               /\ kind'[CallOf(x)] = "link"
               /\ x \notin ToSet(sq)' \cup fly /\ Of(CallOf(x), 1) \notin ToSet(sq)'
    <3>1. /\ x \in Branch /\ x = Of(CallOf(x), 2) /\ call[CallOf(x)] # "new"
          /\ kind[CallOf(x)] = "link"
          /\ x \notin ToSet(sq) \cup fly /\ Of(CallOf(x), 1) \notin ToSet(sq)
      BY <1>4 DEF LateOK
    <3>2. CallOf(x) \in Call /\ CallOf(Of(CallOf(x), 1)) = CallOf(x) /\ CallOf(x) # c
      BY <1>1, <3>1, BranchFacts
    <3>3. x \notin {op, timeout} /\ Of(CallOf(x), 1) \notin {op, timeout} BY <1>5, <3>2
    <3>4. QED BY <1>7, <1>21, <3>1, <3>2, <3>3
  <2>2. QED BY <1>2, <1>20, <2>1 DEF LateOK
<1>35. Tokens'
  BY <1>24, <1>25, <1>26, <1>28, <1>29, <1>30, <1>31, <1>32, <1>33, <1>34, <1>38 DEF Tokens
<1>36. TimeoutMeansElapsed'
  <2>1. ASSUME NEW d \in Call, kind'[d] = "link", out'[d] = 2 PROVE Of(d, 2) \in elapsed'
    <3>1. CASE d # c BY <1>2, <1>7, <2>1, <3>1 DEF Safe, TimeoutMeansElapsed
    <3>2. CASE d = c
      <4>1. out[c] = None /\ out'[c] = 2 BY <1>1, <1>2, <1>4, <2>1, <3>2 DEF CallOK
      <4>2. None # 2 BY CombinatorsAssumption
      <4>3. QED BY <1>2, <4>1, <4>2
    <3>3. QED BY <3>1, <3>2
  <2>2. QED BY <2>1 DEF TimeoutMeansElapsed
<1>39. dangling' = {} BY <1>2 DEF Defined
<1>37. QED BY <1>35, <1>36, <1>39 DEF Safe, NoDangling

LEMMA StillSafe == Safe /\ UNCHANGED vars => Safe'
<1> SUFFICES ASSUME Safe, UNCHANGED vars PROVE Safe'
  OBVIOUS
<1>1. UNCHANGED <<kind, call, next, way, frame, cnt, out, timerTree, yieldQueue, sq, linked, fly, cq,
                  batch, elapsed, late, turn, dangling>>
  BY DEF vars, blockVars, timerVars, ringVars
<1>2. CASE ~Defined BY <1>1, <1>2, Undefined
<1>3. CASE Defined
  <2>1. Tokens BY <1>3 DEF Safe
  <2>2. (\A c \in Call : WaysOK(c)') /\ InOrder' /\ Counted' BY <1>1, <2>1, StillTokens
  <2>3. Live' = Live /\ Out' = Out /\ ToSet(sq)' = ToSet(sq) /\ Ring' = Ring
    BY <1>1 DEF Live, Posted, Out, Ring
  <2>4. \A c \in Call : Paired(c)'
    BY <1>1, <2>1, <2>3 DEF Tokens, Paired, Running, Late
  <2>5. Timed' /\ Yielded' /\ Waited'
    BY <1>1, <2>1, <2>3 DEF Tokens, Timed, Yielded, Waited, Alive, Late
  <2>6. Once' BY <1>1, <2>1, <2>3 DEF Tokens, Once
  <2>7. Adjacent' /\ Over' BY <1>1, <2>1, <2>3 DEF Tokens, Adjacent, Over, IsTimeout, Limits
  <2>8. LateOK' BY <1>1, <2>1, <2>3 DEF Tokens, LateOK
  <2>9. Tokens' BY <2>2, <2>4, <2>5, <2>6, <2>7, <2>8 DEF Tokens
  <2>10. NoDangling' BY <1>1, StillNamed DEF Safe
  <2>11. QED BY <1>1, <2>9, <2>10 DEF Safe, TimeoutMeansElapsed
<1>4. QED BY <1>2, <1>3

LEMMA SafeStep ==
  ASSUME Control, LoopType, Safe, RoomForAll, "aio" \notin AnyWays, [Next]_vars
  PROVE  Safe'
<1>1. CASE UNCHANGED vars BY <1>1, StillSafe
<1>2. ASSUME NEW p \in Parent, Begin(p) PROVE Safe' BY <1>2, BeginSafe
<1>3. ASSUME NEW c \in Call, StartSuspends(c) PROVE Safe' BY <1>3, StartSuspendsSafe
<1>4. ASSUME NEW c \in Call, StartEnds(c) PROVE Safe' BY <1>4, StartEndsSafe
<1>5. ASSUME NEW b \in Branch, OpCompletes(b) PROVE Safe'
  <2>1. ~Defined => Safe' BY <1>5, Undefined DEF OpCompletes, blockVars
  <2>2. QED BY <1>5, <2>1, OpCompletesSafe
<1>6. ASSUME NEW b \in Branch, TimeoutFires(b) PROVE Safe'
  <2>1. late \subseteq late' /\ elapsed \subseteq elapsed' BY <1>6 DEF TimeoutFires
  <2>2. ~Defined => Safe' BY <1>6, <2>1, Undefined DEF TimeoutFires, blockVars
  <2>3. QED BY <1>6, <2>2, TimeoutFiresSafe
<1>7. ASSUME NEW b \in Branch, TimerRuns(b) PROVE Safe' BY <1>7, TimerRunsSafe
<1>8. CASE Submit BY <1>8, SubmitSafe
<1>9. CASE YieldRuns BY <1>9, YieldRunsSafe
<1>10. CASE Collect BY <1>10, CollectSafe
<1>11. CASE ResumeTask BY <1>11, ResumeTaskSafe
<1>12. QED
  BY <1>1, <1>2, <1>3, <1>4, <1>5, <1>6, <1>7, <1>8, <1>9, <1>10, <1>11 DEF Next

LEMMA InitSafe == Init => Safe
<1> SUFFICES ASSUME Init PROVE Safe
  OBVIOUS
<1>1. /\ call = [c \in Call |-> "new"] /\ out = [c \in Call |-> None]
      /\ timerTree = {} /\ yieldQueue = <<>> /\ sq = <<>> /\ fly = {} /\ cq = <<>> /\ batch = <<>>
      /\ dangling = {} /\ late = {}
  BY DEF Init
<1>2. Live = {} /\ Out = {} /\ ToSet(sq) = {} /\ ToSet(yieldQueue) = {} /\ Ring = {}
  BY <1>1 DEF Live, Posted, Out, Ring, ToSet
<1>3. \A c \in Call : WaysOK(c) /\ Paired(c) /\ ~Running(c)
  BY <1>1 DEF WaysOK, Paired, Running
<1>4. InOrder
  <2>1. \A p \in Parent, n \in 1..MaxCalls : call[<<p, n>>] = "new" BY <1>1 DEF Call
  <2>2. QED BY <2>1 DEF InOrder
<1>5. Counted BY <1>3 DEF Counted
<1>6. Timed /\ Yielded /\ Waited BY <1>1, <1>2 DEF Timed, Yielded, Waited, NoDup
<1>7. Once /\ Adjacent /\ Over /\ LateOK
  BY <1>1, <1>2 DEF Once, PostedOnce, Adjacent, Over, NoDup, LateOK
<1>8. TimeoutMeansElapsed BY <1>1, CombinatorsAssumption DEF TimeoutMeansElapsed
<1>9. QED BY <1>1, <1>3, <1>4, <1>5, <1>6, <1>7, <1>8 DEF Safe, Tokens, NoDangling

LEMMA SafeAlways ==
  ASSUME RoomForAll, "aio" \notin AnyWays
  PROVE  Spec => []Safe
<1>1. Init => Control /\ LoopType /\ Safe BY InitControl, InitSafe
<1>2. Control /\ LoopType /\ Safe /\ [Next]_vars => Control' /\ LoopType' /\ Safe'
  BY ControlStep, LoopTypeStep, SafeStep
<1>3. QED BY <1>1, <1>2, PTL DEF Spec

(* The loop never resumes a coroutine, nor writes the result of an         *)
(* operation, that went with its combinator, except an operation that its  *)
(* timeout could not cancel, if whenAny races no AioTask (whose destructor *)
(* does not cancel it) and the queue never goes to the kernel between an   *)
(* operation and its timeout.                                              *)
THEOREM NothingDangles ==
  ASSUME RoomForAll, "aio" \notin AnyWays
  PROVE  Spec => []NoDangling
<1>1. Safe => NoDangling BY DEF Safe
<1>2. QED BY <1>1, SafeAlways, PTL

(* A call limited by linkTimeout reports a timeout only if its time was    *)
(* over, under the same conditions.                                        *)
THEOREM TimeoutsElapsed ==
  ASSUME RoomForAll, "aio" \notin AnyWays
  PROVE  Spec => []TimeoutMeansElapsed
<1>1. Safe => TimeoutMeansElapsed BY DEF Safe
<1>2. QED BY <1>1, SafeAlways, PTL
=============================================================================
