-------------------------- MODULE EventLoop_proofs --------------------------
(***************************************************************************)
(* Proofs about EventLoop, for any number of coroutines and workers, any   *)
(* moves and any size of the submission queue.                             *)
(***************************************************************************)
EXTENDS EventLoop, SequenceTheorems, FiniteSetTheorems, WellFoundedInduction, TLAPS

USE LoopAssumption

-----------------------------------------------------------------------------
(* How often something is in a sequence. *)

LEMMA CountType ==
  ASSUME NEW S, NEW s \in Seq(S), NEW x
  PROVE  IsFiniteSet({i \in DOMAIN s : s[i] = x}) /\ Count(s, x) \in Nat
<1>1. DOMAIN s = 1..Len(s) /\ Len(s) \in Nat BY LenProperties
<1>2. IsFiniteSet(1..Len(s)) BY <1>1, FS_Interval
<1>3. {i \in DOMAIN s : s[i] = x} \in SUBSET (1..Len(s)) BY <1>1
<1>4. QED BY <1>2, <1>3, FS_Subset, FS_CardinalityType DEF Count

LEMMA CountEmpty == ASSUME NEW x PROVE Count(<<>>, x) = 0
<1>1. {i \in DOMAIN <<>> : <<>>[i] = x} = {} OBVIOUS
<1>2. QED BY <1>1, FS_EmptySet DEF Count

LEMMA CountAppend ==
  ASSUME NEW S, NEW s \in Seq(S), NEW y \in S, NEW x
  PROVE  Count(Append(s, y), x) = Count(s, x) + (IF y = x THEN 1 ELSE 0)
<1> DEFINE n == Len(s) + 1
           A == {i \in DOMAIN s : s[i] = x}
           B == {i \in DOMAIN Append(s, y) : Append(s, y)[i] = x}
<1>1. /\ Len(s) \in Nat /\ DOMAIN s = 1..Len(s) /\ DOMAIN Append(s, y) = 1..n
      /\ Append(s, y)[n] = y /\ \A i \in 1..Len(s) : Append(s, y)[i] = s[i]
  BY AppendProperties, LenProperties
<1>2. B = IF y = x THEN A \cup {n} ELSE A BY <1>1
<1>3. n \notin A BY <1>1
<1>4. IsFiniteSet(A) BY CountType
<1>5. Cardinality(A \cup {n}) = Cardinality(A) + 1 BY <1>3, <1>4, FS_AddElement
<1>6. Cardinality(A) \in Nat BY <1>4, FS_CardinalityType
<1>7. Count(s, x) = Cardinality(A) /\ Count(Append(s, y), x) = Cardinality(B) BY DEF Count
<1> HIDE DEF A, B
<1>8. QED BY <1>2, <1>5, <1>6, <1>7

LEMMA CountPrefix ==
  ASSUME NEW S, NEW s \in Seq(S), NEW k \in 0..Len(s), NEW x
  PROVE  Count(SubSeq(s, 1, k), x) <= Count(s, x) /\ SubSeq(s, 1, k) \in Seq(S)
<1> DEFINE p == SubSeq(s, 1, k)
           A == {i \in DOMAIN s : s[i] = x}
           B == {i \in DOMAIN p : p[i] = x}
<1>1. Len(s) \in Nat /\ DOMAIN s = 1..Len(s) BY LenProperties
<1>2. p \in Seq(S) /\ Len(p) = k /\ \A i \in 1..k : p[i] = s[i] BY <1>1, SubSeqProperties
<1>3. DOMAIN p = 1..k BY <1>2, LenProperties
<1>4. B \in SUBSET A BY <1>1, <1>2, <1>3
<1>5. IsFiniteSet(A) BY CountType
<1>6. Count(s, x) = Cardinality(A) /\ Count(p, x) = Cardinality(B) BY DEF Count
<1> HIDE DEF A, B
<1>7. Cardinality(B) <= Cardinality(A) BY <1>4, <1>5, FS_Subset
<1>8. QED BY <1>2, <1>6, <1>7

LEMMA CountHead ==
  ASSUME NEW S, NEW s \in Seq(S), s # <<>>
  PROVE  Count(s, Head(s)) >= 1
<1> DEFINE A == {i \in DOMAIN s : s[i] = Head(s)}
<1>1. 1 \in A BY LenProperties, HeadTailProperties
<1>2. A # {} BY <1>1
<1>3. IsFiniteSet(A) /\ Count(s, Head(s)) \in Nat BY CountType
<1>4. Cardinality(A) # 0 BY <1>2, <1>3, FS_EmptySet
<1>5. QED BY <1>3, <1>4 DEF Count

LEMMA CountTail ==
  ASSUME NEW S, NEW s \in Seq(S), s # <<>>, NEW x
  PROVE  Count(Tail(s), x) = Count(s, x) - (IF Head(s) = x THEN 1 ELSE 0)
<1> DEFINE A == {i \in DOMAIN s : s[i] = x}
           B == {i \in DOMAIN Tail(s) : Tail(s)[i] = x}
           f == [i \in B |-> i + 1]
<1>1. /\ Len(s) \in Nat /\ Len(s) >= 1 /\ DOMAIN s = 1..Len(s)
      /\ Tail(s) \in Seq(S) /\ Len(Tail(s)) = Len(s) - 1
      /\ \A i \in 1..Len(Tail(s)) : Tail(s)[i] = s[i + 1]
      /\ Head(s) = s[1]
  BY HeadTailProperties, LenProperties
<1>2. DOMAIN Tail(s) = 1..(Len(s) - 1) BY <1>1, LenProperties
<1>3. IsFiniteSet(A) /\ IsFiniteSet(B) BY <1>1, CountType
<1>4. B \subseteq Nat /\ A \subseteq Nat BY <1>1, <1>2
<1>5. \A i \in B : i + 1 \in A \ {1} BY <1>1, <1>2
<1>6. f \in Injection(B, A \ {1}) BY <1>4, <1>5 DEF Injection, IsInjective
<1>7. \A j \in A \ {1} : j - 1 \in B /\ f[j - 1] = j
  <2> SUFFICES ASSUME NEW j \in A \ {1} PROVE j - 1 \in B /\ (j - 1) + 1 = j
    OBVIOUS
  <2>1. j \in 1..Len(s) /\ j # 1 /\ s[j] = x BY <1>1
  <2>2. j - 1 \in 1..(Len(s) - 1) /\ (j - 1) + 1 = j BY <1>1, <2>1
  <2>3. Tail(s)[j - 1] = s[j] BY <1>1, <2>2
  <2>4. QED BY <1>2, <2>1, <2>2, <2>3
<1>8. f \in Surjection(B, A \ {1}) BY <1>5, <1>7 DEF Surjection
<1>9. ExistsBijection(B, A \ {1}) BY <1>6, <1>8 DEF ExistsBijection, Bijection
<1>10. IsFiniteSet(A \ {1}) BY <1>3, FS_RemoveElement
<1>11. Cardinality(B) = Cardinality(A \ {1}) BY <1>3, <1>9, <1>10, FS_Bijection
<1>12. Head(s) = x <=> 1 \in A BY <1>1
<1>13. Count(s, x) = Cardinality(A) /\ Count(Tail(s), x) = Cardinality(B) BY DEF Count
<1>14. Cardinality(A) \in Nat BY <1>3, FS_CardinalityType
<1> HIDE DEF A, B
<1>15. Cardinality(A \ {1}) = IF 1 \in A THEN Cardinality(A) - 1 ELSE Cardinality(A)
  BY <1>3, FS_RemoveElement
<1>16. QED BY <1>11, <1>12, <1>13, <1>14, <1>15

-----------------------------------------------------------------------------
(* The invariant. *)

TimersOf(c) == {e \in timerTree : e.co = c /\ ~(lpc = "timerBack" /\ e = cur)}
YieldsOf(c) ==
  Count(yieldQueue, c) - (IF lpc = "yieldBack" /\ Head(yieldQueue) = c THEN 1 ELSE 0)
InRingOf(c) == Count(sq, c) + fly[c] + cq[c] + batch[c]

Types ==
  /\ timerTree \subseteq [at : Nat, co : Coroutine, n : Nat] /\ IsFiniteSet(timerTree)
  /\ yieldQueue \in Seq(Coroutine) /\ sq \in Seq(Op) /\ seen \in [Thread -> Seq(Op)]
  /\ fly \in [Op -> Nat] /\ cq \in [Op -> Nat] /\ batch \in [Coroutine -> Nat]
  /\ run \in [Thread -> Coroutine \cup {None}]
  /\ ring \in [Thread -> {"out", "get", "full", "write"}]
  /\ op \in [Thread -> Op \cup {None}]
  /\ co \in [Coroutine -> Suspended \cup {"new", "running", "awaiting", "done"}]
  /\ awaits \in [Coroutine -> Nat] /\ now \in Nat
  /\ futures \subseteq Coroutine
  /\ wpc \in [Worker -> {"idle", "resume", "notify", "nop", "crashed"}]
  /\ wco \in [Worker -> Coroutine \cup {None}]

TimerInv ==
  /\ lpc = "timerBack" => cur \in timerTree
  /\ \A e \in timerTree : e.n < awaits[e.co]
  /\ \A c \in Coroutine :
       IF co[c] = "timer" THEN \E e \in timerTree : TimersOf(c) = {e} ELSE TimersOf(c) = {}

YieldInv ==
  /\ lpc = "yieldBack" => yieldQueue # <<>>
  /\ \A c \in Coroutine : YieldsOf(c) = IF co[c] = "yield" THEN 1 ELSE 0

RingInv ==
  /\ lpc \notin {"sub", "batch"} => \A c \in Coroutine : batch[c] = 0
  /\ \A c \in Coroutine :
       /\ co[c] = "aio" => InRingOf(c) = 1 \/ (raced /\ InRingOf(c) = 0)
       /\ co[c] # "aio" => InRingOf(c) = 0

With(w, c) == wpc[w] = "resume" /\ wco[w] = c

FutureInv ==
  /\ \A c \in futures : co[c] \in {"awaiting", "future"} /\ ~\E w \in Worker : With(w, c)
  /\ \A w \in Worker :
       wpc[w] = "resume" => wco[w] \in Coroutine /\ co[wco[w]] \in {"awaiting", "future"}
  /\ \A v, w \in Worker : wpc[v] = "resume" /\ With(w, wco[v]) => v = w
  /\ \A c \in Coroutine :
       co[c] \in {"awaiting", "future"} =>
         c \in futures \/ (\E w \in Worker : With(w, c)) \/ (co[c] = "awaiting" /\ Crashed)

RunInv ==
  /\ \A t \in Thread : run[t] # None => co[run[t]] \in {"running", "awaiting"}
  /\ \A t, u \in Thread : run[t] = run[u] /\ run[t] # None => t = u
  /\ \A c \in Coroutine : co[c] \in {"running", "awaiting"} => \E t \in Thread : run[t] = c
  /\ \A t \in Thread :
       ring[t] # "out" =>
         \/ op[t] = Nop /\ t \in Worker /\ wpc[t] = "nop"
         \/ op[t] = run[t] /\ run[t] # None /\ co[run[t]] = "running"
  /\ \A w \in Worker : run[w] # None => wpc[w] = "notify"

EInv == Types /\ TimerInv /\ YieldInv /\ RingInv /\ FutureInv /\ RunInv

LEMMA InitEInv == Init => EInv
<1> SUFFICES ASSUME Init PROVE EInv
  OBVIOUS
<1>1. /\ timerTree \subseteq [at : Nat, co : Coroutine, n : Nat] /\ IsFiniteSet(timerTree)
      /\ \A c \in Coroutine : TimersOf(c) = {}
  BY FS_EmptySet DEF Init, TimersOf
<1>2. yieldQueue \in Seq(Coroutine) /\ sq \in Seq(Op) /\ seen \in [Thread -> Seq(Op)]
  BY EmptySeq DEF Init
<1>3. /\ fly \in [Op -> Nat] /\ cq \in [Op -> Nat] /\ batch \in [Coroutine -> Nat]
      /\ run \in [Thread -> Coroutine \cup {None}]
      /\ ring \in [Thread -> {"out", "get", "full", "write"}]
      /\ op \in [Thread -> Op \cup {None}]
  BY DEF Init
<1>4. /\ co \in [Coroutine -> Suspended \cup {"new", "running", "awaiting", "done"}]
      /\ wpc \in [Worker -> {"idle", "resume", "notify", "nop", "crashed"}]
  BY DEF Init
<1>12. /\ awaits \in [Coroutine -> Nat] /\ now \in Nat /\ futures \subseteq Coroutine
       /\ wco \in [Worker -> Coroutine \cup {None}]
  BY DEF Init
<1>5. Types BY <1>1, <1>2, <1>3, <1>4, <1>12 DEF Types
<1>6. TimerInv BY <1>1 DEF Init, TimerInv
<1>7. YieldInv
  <2>1. yieldQueue = <<>> /\ lpc = "idle" /\ \A c \in Coroutine : co[c] = "new" BY DEF Init
  <2>2. \A c \in Coroutine : YieldsOf(c) = 0 BY <2>1, CountEmpty DEF YieldsOf
  <2>3. QED BY <2>1, <2>2 DEF YieldInv
<1>8. RingInv
  <2>1. \A c \in Coroutine : co[c] = "new" /\ fly[c] = 0 /\ cq[c] = 0 /\ batch[c] = 0
    BY DEF Init, Op
  <2>2. \A c \in Coroutine : Count(sq, c) = 0 BY CountEmpty DEF Init
  <2>3. QED BY <2>1, <2>2 DEF RingInv, InRingOf
<1>9. FutureInv BY DEF Init, FutureInv
<1>10. RunInv
  <2>1. \A t \in Thread : run[t] = None /\ ring[t] = "out" BY DEF Init
  <2>2. \A c \in Coroutine : co[c] = "new" BY DEF Init
  <2>3. \A w \in Worker : w \in Thread BY DEF Thread
  <2>4. QED BY <2>1, <2>2, <2>3 DEF RunInv
<1>11. QED BY <1>5, <1>6, <1>7, <1>8, <1>9, <1>10 DEF EInv

-----------------------------------------------------------------------------
(* What keeps each part of the invariant. *)

Same(states) == \A c \in Coroutine : \A s \in states : co'[c] = s <=> co[c] = s

LEMMA TimerFrame ==
  ASSUME TimerInv, Types, UNCHANGED <<timerTree, cur>>, Same({"timer"}),
         lpc' = "timerBack" <=> lpc = "timerBack",
         \A c \in Coroutine : awaits'[c] \in Nat /\ awaits'[c] >= awaits[c]
  PROVE  TimerInv'
<1>1. \A c \in Coroutine : TimersOf(c)' = TimersOf(c) BY DEF TimersOf
<1>2. \A c \in Coroutine : co'[c] = "timer" <=> co[c] = "timer" BY DEF Same
<1>3. \A e \in timerTree : e.n < awaits'[e.co] BY DEF TimerInv, Types
<1>4. QED BY <1>1, <1>2, <1>3 DEF TimerInv

LEMMA YieldFrame ==
  ASSUME YieldInv, UNCHANGED yieldQueue, Same({"yield"}),
         lpc' = "yieldBack" <=> lpc = "yieldBack"
  PROVE  YieldInv'
<1>1. \A c \in Coroutine : YieldsOf(c)' = YieldsOf(c) BY DEF YieldsOf
<1>2. \A c \in Coroutine : co'[c] = "yield" <=> co[c] = "yield" BY DEF Same
<1>3. QED BY <1>1, <1>2 DEF YieldInv

LEMMA RingFrame ==
  ASSUME RingInv, Same({"aio"}), raced => raced',
         \A c \in Coroutine : InRingOf(c)' = InRingOf(c),
         lpc' \in {"sub", "batch"} \/ \A c \in Coroutine : batch'[c] = 0
  PROVE  RingInv'
<1>1. \A c \in Coroutine : co'[c] = "aio" <=> co[c] = "aio" BY DEF Same
<1>2. QED BY <1>1 DEF RingInv

LEMMA FutureFrame ==
  ASSUME FutureInv, Types, UNCHANGED <<futures, wpc, wco>>, Same({"awaiting", "future"})
  PROVE  FutureInv'
<1>1. \A c \in Coroutine : /\ co'[c] = "awaiting" <=> co[c] = "awaiting"
                           /\ co'[c] = "future" <=> co[c] = "future"
  BY DEF Same
<1>2. \A c \in Coroutine, w \in Worker : With(w, c)' <=> With(w, c) BY DEF With
<1>3. Crashed' <=> Crashed BY DEF Crashed
<1>4. QED BY <1>1, <1>2, <1>3 DEF FutureInv, Types

LEMMA RunFrame ==
  ASSUME RunInv, Types, UNCHANGED <<run, ring, op>>, Same({"running", "awaiting"}),
         \A w \in Worker : run[w] # None \/ ring[w] # "out" => wpc'[w] = wpc[w]
  PROVE  RunInv'
<1>1. \A c \in Coroutine : /\ co'[c] = "awaiting" <=> co[c] = "awaiting"
                           /\ co'[c] = "running" <=> co[c] = "running"
  BY DEF Same
<1>2. QED BY <1>1 DEF RunInv, Types

(* The thread goes on and touches none of it.                              *)
LEMMA Quiet0 ==
  ASSUME EInv, UNCHANGED <<timerVars, sq, fly, cq, batch, run, ring, op, seen, co, awaits,
                           poolVars>>,
         raced => raced', now' \in Nat,
         lpc' = "timerBack" <=> lpc = "timerBack", lpc' = "yieldBack" <=> lpc = "yieldBack",
         lpc' \in {"sub", "batch"} \/ \A c \in Coroutine : batch[c] = 0
  PROVE  EInv'
<1> USE DEF timerVars, poolVars
<1>1. Types' BY DEF EInv, Types
<1>2. \A s : Same(s) BY DEF Same
<1>3. TimerInv' BY <1>2, TimerFrame DEF EInv, Types
<1>4. YieldInv' BY <1>2, YieldFrame DEF EInv
<1>5. RingInv'
  <2>1. \A c \in Coroutine : InRingOf(c)' = InRingOf(c) BY DEF InRingOf
  <2>2. QED BY <1>2, <2>1, RingFrame DEF EInv
<1>6. FutureInv' BY <1>2, FutureFrame DEF EInv
<1>7. RunInv' BY <1>2, RunFrame DEF EInv
<1>8. QED BY <1>1, <1>3, <1>4, <1>5, <1>6, <1>7 DEF EInv

LEMMA SameExcept ==
  ASSUME Types, NEW c \in Coroutine, NEW to, co' = [co EXCEPT ![c] = to],
         NEW states, co[c] \notin states, to \notin states
  PROVE  Same(states)
BY DEF Same, Types

LEMMA Counts ==
  ASSUME Types, NEW c \in Coroutine
  PROVE  /\ Count(sq, c) \in Nat /\ fly[c] \in Nat /\ cq[c] \in Nat /\ batch[c] \in Nat
         /\ InRingOf(c) \in Nat /\ Count(yieldQueue, c) \in Nat
<1>1. Count(sq, c) \in Nat /\ Count(yieldQueue, c) \in Nat BY CountType DEF Types
<1>2. fly[c] \in Nat /\ cq[c] \in Nat /\ batch[c] \in Nat BY DEF Types, Op
<1>3. QED BY <1>1, <1>2 DEF InRingOf

LEMMA InRingZero ==
  ASSUME Types, NEW c \in Coroutine, InRingOf(c) = 0
  PROVE  Count(sq, c) = 0 /\ fly[c] = 0 /\ cq[c] = 0 /\ batch[c] = 0
<1>1. PICK i \in Nat : i = Count(sq, c) BY Counts
<1>2. PICK j \in Nat : j = fly[c] BY Counts
<1>3. PICK k \in Nat : k = cq[c] BY Counts
<1>4. PICK l \in Nat : l = batch[c] BY Counts
<1>5. i + j + k + l = 0 BY <1>1, <1>2, <1>3, <1>4 DEF InRingOf
<1>6. i = 0 /\ j = 0 /\ k = 0 /\ l = 0 BY <1>5
<1>7. QED BY <1>1, <1>2, <1>3, <1>4, <1>6

-----------------------------------------------------------------------------
(* The loop's thread resumes a coroutine. *)

LEMMA LoopResumes ==
  ASSUME EInv, NEW c \in Coroutine, Resume(Loop, c), run[Loop] = None,
         co[c] \in {"new", "timer", "yield", "aio"}, UNCHANGED <<ring, op, poolVars>>
  PROVE  /\ FutureInv' /\ RunInv'
         /\ run' \in [Thread -> Coroutine \cup {None}]
         /\ co' \in [Coroutine -> Suspended \cup {"new", "running", "awaiting", "done"}]
         /\ \A states : "running" \notin states /\ co[c] \notin states => Same(states)
<1> USE DEF EInv
<1>0. Loop \in Thread BY DEF Thread
<1>1. co' = [co EXCEPT ![c] = "running"] /\ run' = [run EXCEPT ![Loop] = c] BY DEF Resume
<1>2. \A states : "running" \notin states /\ co[c] \notin states => Same(states)
  BY <1>1, SameExcept
<1>3. FutureInv'
  <2>1. Same({"awaiting", "future"}) BY <1>2
  <2>2. QED BY <2>1, FutureFrame DEF poolVars
<1>4. /\ run' \in [Thread -> Coroutine \cup {None}]
      /\ co' \in [Coroutine -> Suspended \cup {"new", "running", "awaiting", "done"}]
  BY <1>0, <1>1 DEF Types
<1>5. RunInv'
  <2>1. \A t \in Thread : run[t] # c BY DEF RunInv
  <2>2. /\ run'[Loop] = c /\ co'[c] = "running"
        /\ \A t \in Thread \ {Loop} : run'[t] = run[t]
        /\ \A d \in Coroutine \ {c} : co'[d] = co[d]
    BY <1>0, <1>1 DEF Types
  <2>3. c # None BY LoopAssumption DEF LoopAssumption
  <2>4. \A t \in Thread : run[t] # None => run[t] \in Coroutine BY DEF Types
  <2>5. \A t \in Thread : run'[t] # None => co'[run'[t]] \in {"running", "awaiting"}
    BY <2>1, <2>2, <2>4 DEF RunInv
  <2>6. \A t, u \in Thread : run'[t] = run'[u] /\ run'[t] # None => t = u
    BY <2>1, <2>2 DEF RunInv
  <2>7. \A d \in Coroutine : co'[d] \in {"running", "awaiting"} => \E t \in Thread : run'[t] = d
    <3> SUFFICES ASSUME NEW d \in Coroutine, co'[d] \in {"running", "awaiting"}
                 PROVE  \E t \in Thread : run'[t] = d
      OBVIOUS
    <3>1. CASE d = c BY <1>0, <2>2, <3>1
    <3>2. CASE d # c
      <4>1. PICK t \in Thread : run[t] = d BY <2>2, <3>2 DEF RunInv
      <4>2. t # Loop BY <4>1, LoopAssumption DEF LoopAssumption
      <4>3. QED BY <2>2, <4>1, <4>2
    <3>3. QED BY <3>1, <3>2
  <2>8. \A t \in Thread : ring'[t] # "out" =>
          \/ op'[t] = Nop /\ t \in Worker /\ wpc'[t] = "nop"
          \/ op'[t] = run'[t] /\ run'[t] # None /\ co'[run'[t]] = "running"
    <3>1. ring' = ring /\ op' = op /\ wpc' = wpc BY DEF poolVars
    <3>2. QED BY <2>1, <2>2, <2>4, <3>1 DEF RunInv
  <2>9. \A w \in Worker : w \in Thread /\ w # Loop BY LoopAssumption DEF Thread, LoopAssumption
  <2>10. \A w \in Worker : run'[w] # None => wpc'[w] = "notify"
    BY <2>2, <2>9 DEF RunInv, poolVars
  <2>11. QED BY <2>5, <2>6, <2>7, <2>8, <2>10 DEF RunInv
<1>6. QED BY <1>2, <1>3, <1>4, <1>5

LEMMA StartKeeps == ASSUME EInv, NEW c \in Coroutine, Start(c) PROVE EInv'
<1>1. /\ lpc = "idle" /\ lpc' = "idle" /\ run[Loop] = None /\ co[c] = "new" /\ Resume(Loop, c)
      /\ UNCHANGED <<now, timerVars, ringVars, sqeVars, batch, awaits, poolVars>>
  BY DEF Start, LoopGoes
<1> USE DEF EInv, timerVars, ringVars, sqeVars
<1>2. /\ FutureInv' /\ RunInv'
      /\ run' \in [Thread -> Coroutine \cup {None}]
      /\ co' \in [Coroutine -> Suspended \cup {"new", "running", "awaiting", "done"}]
      /\ \A states : "running" \notin states /\ co[c] \notin states => Same(states)
  BY <1>1, LoopResumes
<1>3. Types' BY <1>1, <1>2 DEF Types, poolVars
<1>4. Same({"timer"}) /\ Same({"yield"}) /\ Same({"aio"}) BY <1>1, <1>2
<1>5. TimerInv' BY <1>1, <1>4, TimerFrame DEF Types
<1>6. YieldInv' BY <1>1, <1>4, YieldFrame
<1>7. \A d \in Coroutine : InRingOf(d)' = InRingOf(d) BY <1>1 DEF InRingOf
<1>8. \A d \in Coroutine : batch'[d] = 0 BY <1>1 DEF RingInv
<1>9. RingInv' BY <1>1, <1>4, <1>7, <1>8, RingFrame
<1>10. QED BY <1>2, <1>3, <1>5, <1>6, <1>9

LEMMA TrySyncKeeps == ASSUME EInv, NEW c \in Coroutine, TrySync(c) PROVE EInv'
<1> USE DEF EInv, timerVars, ringVars, sqeVars
<1>1. CASE lpc' = "threw"
  <2>1. lpc = "idle" /\ UNCHANGED <<co, run>> BY <1>1 DEF TrySync, LoopGoes
  <2>2. \A d \in Coroutine : batch[d] = 0 BY <2>1 DEF RingInv
  <2>3. QED BY <1>1, <2>1, <2>2, Quiet0 DEF TrySync, Types
<1>2. CASE lpc' # "threw"
  <2>1. /\ lpc = "idle" /\ lpc' = "sync" /\ run[Loop] = None /\ co[c] = "new" /\ Resume(Loop, c)
        /\ UNCHANGED <<now, timerVars, ringVars, sqeVars, batch, awaits, poolVars>>
    BY <1>2 DEF TrySync, LoopGoes
  <2>2. /\ FutureInv' /\ RunInv'
        /\ run' \in [Thread -> Coroutine \cup {None}]
        /\ co' \in [Coroutine -> Suspended \cup {"new", "running", "awaiting", "done"}]
        /\ \A states : "running" \notin states /\ co[c] \notin states => Same(states)
    BY <2>1, LoopResumes
  <2>3. Types' BY <2>1, <2>2 DEF Types, poolVars
  <2>4. Same({"timer"}) /\ Same({"yield"}) /\ Same({"aio"}) BY <2>1, <2>2
  <2>5. TimerInv' BY <2>1, <2>4, TimerFrame DEF Types
  <2>6. YieldInv' BY <2>1, <2>4, YieldFrame
  <2>7. \A d \in Coroutine : InRingOf(d)' = InRingOf(d) BY <2>1 DEF InRingOf
  <2>8. \A d \in Coroutine : batch'[d] = 0 BY <2>1 DEF RingInv
  <2>9. RingInv' BY <2>1, <2>4, <2>7, <2>8, RingFrame
  <2>10. QED BY <2>2, <2>3, <2>5, <2>6, <2>9
<1>3. QED BY <1>1, <1>2

LEMMA TimerResumeKeeps == ASSUME EInv, TimerResume PROVE EInv'
<1>1. PICK e \in Earliest :
        /\ lpc = "timers" /\ lpc' = "timerBack" /\ run[Loop] = None /\ cur' = e
        /\ Resume(Loop, e.co)
        /\ UNCHANGED <<now, timerTree, yieldQueue, ringVars, sqeVars, batch, awaits, poolVars>>
  BY DEF TimerResume, LoopGoes
<1> USE DEF EInv, ringVars, sqeVars
<1>2. e \in timerTree /\ e.co \in Coroutine /\ e \in TimersOf(e.co)
  BY <1>1 DEF Earliest, Types, TimersOf
<1>3. co[e.co] = "timer" /\ TimersOf(e.co) = {e} BY <1>2 DEF TimerInv
<1>4. /\ FutureInv' /\ RunInv'
      /\ run' \in [Thread -> Coroutine \cup {None}]
      /\ co' \in [Coroutine -> Suspended \cup {"new", "running", "awaiting", "done"}]
      /\ \A states : "running" \notin states /\ co[e.co] \notin states => Same(states)
  BY <1>1, <1>2, <1>3, LoopResumes
<1>5. Types' BY <1>1, <1>4 DEF Types, poolVars
<1>6. Same({"yield"}) /\ Same({"aio"}) BY <1>3, <1>4
<1>7. YieldInv' BY <1>1, <1>6, YieldFrame
<1>8. \A d \in Coroutine : InRingOf(d)' = InRingOf(d) BY <1>1 DEF InRingOf
<1>9. \A d \in Coroutine : batch'[d] = 0 BY <1>1 DEF RingInv
<1>10. RingInv' BY <1>1, <1>6, <1>8, <1>9, RingFrame
<1>11. TimerInv'
  <2>1. /\ co'[e.co] = "running" /\ \A d \in Coroutine \ {e.co} : co'[d] = co[d]
    BY <1>1, <1>2 DEF Resume, Types
  <2>2. \A d \in Coroutine : TimersOf(d)' = TimersOf(d) \ {e} BY <1>1 DEF TimersOf
  <2>3. TimersOf(e.co)' = {} BY <1>2, <1>3, <2>2
  <2>4. \A d \in Coroutine \ {e.co} : e \notin TimersOf(d) BY DEF TimersOf
  <2>5. \A d \in Coroutine \ {e.co} : TimersOf(d)' = TimersOf(d) BY <2>2, <2>4
  <2>6. QED BY <1>1, <1>2, <2>1, <2>3, <2>5 DEF TimerInv
<1>12. QED BY <1>4, <1>5, <1>7, <1>10, <1>11

LEMMA YieldResumeKeeps == ASSUME EInv, YieldResume PROVE EInv'
<1> DEFINE c == Head(yieldQueue)
<1>1. /\ yieldQueue # <<>> /\ lpc = "yields" /\ lpc' = "yieldBack" /\ run[Loop] = None
      /\ Resume(Loop, c)
      /\ UNCHANGED <<now, timerVars, ringVars, sqeVars, batch, awaits, poolVars>>
  BY DEF YieldResume, LoopGoes
<1> USE DEF EInv, timerVars, ringVars, sqeVars
<1>2. c \in Coroutine /\ Count(yieldQueue, c) >= 1 BY <1>1, CountHead, HeadTailProperties DEF Types
<1> HIDE DEF c
<1>3. YieldsOf(c) = Count(yieldQueue, c) BY <1>1, <1>2, Counts DEF YieldsOf
<1>4. co[c] = "yield" /\ Count(yieldQueue, c) = 1
  <2>1. YieldsOf(c) = IF co[c] = "yield" THEN 1 ELSE 0 BY <1>2 DEF YieldInv
  <2>2. QED BY <1>2, <1>3, <2>1
<1>5. /\ FutureInv' /\ RunInv'
      /\ run' \in [Thread -> Coroutine \cup {None}]
      /\ co' \in [Coroutine -> Suspended \cup {"new", "running", "awaiting", "done"}]
      /\ \A states : "running" \notin states /\ co[c] \notin states => Same(states)
  BY <1>1, <1>2, <1>4, LoopResumes
<1>6. Types' BY <1>1, <1>5 DEF Types, poolVars
<1>7. Same({"timer"}) /\ Same({"aio"}) BY <1>4, <1>5
<1>8. TimerInv' BY <1>1, <1>7, TimerFrame DEF Types
<1>9. \A d \in Coroutine : InRingOf(d)' = InRingOf(d) BY <1>1 DEF InRingOf
<1>10. \A d \in Coroutine : batch'[d] = 0 BY <1>1 DEF RingInv
<1>11. RingInv' BY <1>1, <1>7, <1>9, <1>10, RingFrame
<1>12. YieldInv'
  <2>1. /\ co'[c] = "running" /\ \A d \in Coroutine \ {c} : co'[d] = co[d]
    BY <1>1, <1>2 DEF Resume, Types
  <2>2. ASSUME NEW d \in {c} PROVE YieldsOf(d)' = 0
    <3>1. Count(yieldQueue', d) = 1 BY <1>1, <1>4
    <3>2. lpc' = "yieldBack" /\ Head(yieldQueue') = d BY <1>1 DEF c
    <3>3. QED BY <3>1, <3>2 DEF YieldsOf
  <2>3. \A d \in Coroutine \ {c} : YieldsOf(d)' = YieldsOf(d) BY <1>1 DEF YieldsOf, c
  <2>4. ASSUME NEW d \in Coroutine PROVE YieldsOf(d)' = IF co'[d] = "yield" THEN 1 ELSE 0
    <3>1. CASE d = c
      <4>1. YieldsOf(d)' = 0 BY <2>2, <3>1
      <4>2. co'[d] = "running" BY <2>1, <3>1
      <4>3. QED BY <4>1, <4>2
    <3>2. CASE d # c BY <2>1, <2>3, <3>2 DEF YieldInv
    <3>3. QED BY <3>1, <3>2
  <2>5. yieldQueue' # <<>> BY <1>1
  <2>6. QED BY <2>4, <2>5 DEF YieldInv
<1>13. QED BY <1>5, <1>6, <1>8, <1>11, <1>12

LEMMA BatchResumeKeeps == ASSUME EInv, BatchResume PROVE EInv'
<1>1. PICK c \in Coroutine :
        /\ batch[c] > 0 /\ batch' = [batch EXCEPT ![c] = @ - 1]
        /\ lpc = "batch" /\ lpc' = "batch" /\ run[Loop] = None
        /\ Resume(Loop, c)
        /\ UNCHANGED <<now, timerVars, ringVars, sqeVars, awaits, poolVars>>
  BY DEF BatchResume, LoopGoes
<1> USE DEF EInv, timerVars, ringVars, sqeVars
<1>2. co[c] = "aio" /\ InRingOf(c) = 1
  <2>1. InRingOf(c) > 0 BY <1>1, Counts DEF InRingOf
  <2>2. QED BY <2>1 DEF RingInv
<1>3. /\ FutureInv' /\ RunInv'
      /\ run' \in [Thread -> Coroutine \cup {None}]
      /\ co' \in [Coroutine -> Suspended \cup {"new", "running", "awaiting", "done"}]
      /\ \A states : "running" \notin states /\ co[c] \notin states => Same(states)
  BY <1>1, <1>2, LoopResumes
<1>4. batch' \in [Coroutine -> Nat] BY <1>1, Counts DEF Types
<1>5. Types' BY <1>1, <1>3, <1>4 DEF Types, poolVars
<1>6. Same({"timer"}) /\ Same({"yield"}) BY <1>2, <1>3
<1>7. TimerInv' BY <1>1, <1>6, TimerFrame DEF Types
<1>8. YieldInv' BY <1>1, <1>6, YieldFrame
<1>9. RingInv'
  <2>1. /\ co'[c] = "running" /\ \A d \in Coroutine \ {c} : co'[d] = co[d]
    BY <1>1 DEF Resume, Types
  <2>2. InRingOf(c)' = InRingOf(c) - 1
    <3>1. batch'[c] = batch[c] - 1 BY <1>1 DEF Types
    <3>2. UNCHANGED <<sq, fly, cq>> BY <1>1
    <3>3. QED BY <3>1, <3>2, Counts DEF InRingOf
  <2>3. \A d \in Coroutine \ {c} : InRingOf(d)' = InRingOf(d) BY <1>1 DEF InRingOf, Types
  <2>4. QED BY <1>1, <1>2, <2>1, <2>2, <2>3 DEF RingInv
<1>10. QED BY <1>3, <1>5, <1>7, <1>8, <1>9

-----------------------------------------------------------------------------
(* The loop's thread goes on. *)

(* Where no timer entry, no queue of coroutines and no coroutine changes.  *)
LEMMA StillFrame ==
  ASSUME EInv, UNCHANGED <<timerVars, lpc, now, awaits, co, poolVars>>
  PROVE  TimerInv' /\ YieldInv' /\ FutureInv' /\ \A s : Same(s)
<1> USE DEF EInv, timerVars, poolVars
<1>1. \A s : Same(s) BY DEF Same
<1>2. TimerInv' BY <1>1, TimerFrame DEF Types
<1>3. YieldInv' BY <1>1, YieldFrame
<1>4. FutureInv' BY <1>1, FutureFrame
<1>5. QED BY <1>1, <1>2, <1>3, <1>4

LEMMA TimerEraseKeeps == ASSUME EInv, TimerErase PROVE EInv'
<1>1. /\ lpc = "timerBack" /\ lpc' = "timers"
      /\ timerTree' = timerTree \ {cur} /\ cur' = None
      /\ UNCHANGED <<now, yieldQueue, sq, fly, cq, batch, raced, run, ring, op, seen, co, awaits,
                     poolVars>>
  BY DEF TimerErase, LoopGoes, ringVars, sqeVars, coVars
<1> USE DEF EInv, poolVars
<1>2. \A s : Same(s) BY <1>1 DEF Same
<1>3. IsFiniteSet(timerTree') BY <1>1, FS_RemoveElement DEF Types
<1>4. Types' BY <1>1, <1>3 DEF Types
<1>5. TimerInv'
  <2>1. \A d \in Coroutine : TimersOf(d)' = TimersOf(d) BY <1>1 DEF TimersOf
  <2>2. \A e \in timerTree' : e \in timerTree BY <1>1
  <2>3. \A d \in Coroutine : IF co[d] = "timer" THEN \E e \in timerTree' : TimersOf(d)' = {e}
                             ELSE TimersOf(d)' = {}
    <3> SUFFICES ASSUME NEW d \in Coroutine
                 PROVE  IF co[d] = "timer" THEN \E e \in timerTree' : TimersOf(d)' = {e}
                        ELSE TimersOf(d)' = {}
      OBVIOUS
    <3>1. CASE co[d] = "timer"
      <4>1. PICK e \in timerTree : TimersOf(d) = {e} BY <3>1 DEF TimerInv
      <4>2. e \in TimersOf(d) BY <4>1
      <4>3. e # cur BY <1>1, <4>2 DEF TimersOf
      <4>4. e \in timerTree' /\ TimersOf(d)' = {e} BY <1>1, <2>1, <4>1, <4>3
      <4>5. QED BY <3>1, <4>4
    <3>2. CASE co[d] # "timer" BY <2>1, <3>2 DEF TimerInv
    <3>3. QED BY <3>1, <3>2
  <2>4. QED BY <1>1, <2>2, <2>3 DEF TimerInv
<1>6. YieldInv' BY <1>1, <1>2, YieldFrame
<1>7. \A d \in Coroutine : InRingOf(d)' = InRingOf(d) BY <1>1 DEF InRingOf
<1>8. \A d \in Coroutine : batch'[d] = 0 BY <1>1 DEF RingInv
<1>9. RingInv' BY <1>1, <1>2, <1>7, <1>8, RingFrame
<1>10. FutureInv' BY <1>1, <1>2, FutureFrame
<1>11. RunInv' BY <1>1, <1>2, RunFrame
<1>12. QED BY <1>4, <1>5, <1>6, <1>9, <1>10, <1>11

LEMMA YieldPopKeeps == ASSUME EInv, YieldPop PROVE EInv'
<1>1. /\ lpc = "yieldBack" /\ lpc' = "yields" /\ yieldQueue' = Tail(yieldQueue)
      /\ UNCHANGED <<now, timerTree, cur, sq, fly, cq, batch, raced, run, ring, op, seen, co,
                     awaits, poolVars>>
  BY DEF YieldPop, LoopGoes, ringVars, sqeVars, coVars
<1> USE DEF EInv, poolVars
<1>2. \A s : Same(s) BY <1>1 DEF Same
<1>3. yieldQueue # <<>> BY <1>1 DEF YieldInv
<1>4. yieldQueue' \in Seq(Coroutine) BY <1>1, <1>3, HeadTailProperties DEF Types
<1>5. Types' BY <1>1, <1>4 DEF Types
<1>6. TimerInv' BY <1>1, <1>2, TimerFrame DEF Types
<1>7. YieldInv'
  <2>1. ASSUME NEW d \in Coroutine PROVE YieldsOf(d)' = YieldsOf(d)
    <3>1. Count(yieldQueue', d) = Count(yieldQueue, d) - (IF Head(yieldQueue) = d THEN 1 ELSE 0)
      BY <1>1, <1>3, CountTail DEF Types
    <3>2. YieldsOf(d) = Count(yieldQueue, d) - (IF Head(yieldQueue) = d THEN 1 ELSE 0)
      BY <1>1 DEF YieldsOf
    <3>3. Count(yieldQueue', d) \in Nat BY <1>4, CountType
    <3>4. YieldsOf(d)' = Count(yieldQueue', d) BY <1>1, <3>3 DEF YieldsOf
    <3>5. QED BY <3>1, <3>2, <3>4
  <2>2. QED BY <1>1, <2>1 DEF YieldInv
<1>8. \A d \in Coroutine : InRingOf(d)' = InRingOf(d) BY <1>1 DEF InRingOf
<1>9. \A d \in Coroutine : batch'[d] = 0 BY <1>1 DEF RingInv
<1>10. RingInv' BY <1>1, <1>2, <1>8, <1>9, RingFrame
<1>11. FutureInv' BY <1>1, <1>2, FutureFrame
<1>12. RunInv' BY <1>1, <1>2, RunFrame
<1>13. QED BY <1>5, <1>6, <1>7, <1>10, <1>11, <1>12

LEMMA CollectKeeps == ASSUME EInv, Collect PROVE EInv'
<1>1. /\ lpc = "ioWait" /\ lpc' = "sub"
      /\ batch' = [c \in Coroutine |-> cq[c]] /\ cq' = [o \in Op |-> 0]
      /\ UNCHANGED <<now, timerVars, sq, fly, raced, run, ring, op, seen, co, awaits, poolVars>>
  BY DEF Collect, LoopGoes, coVars
<1> USE DEF EInv, timerVars, poolVars
<1>2. \A s : Same(s) BY <1>1 DEF Same
<1>3. batch' \in [Coroutine -> Nat] /\ cq' \in [Op -> Nat] BY <1>1 DEF Types, Op
<1>4. Types' BY <1>1, <1>3 DEF Types
<1>5. TimerInv' BY <1>1, <1>2, TimerFrame DEF Types
<1>6. YieldInv' BY <1>1, <1>2, YieldFrame
<1>7. ASSUME NEW d \in Coroutine PROVE InRingOf(d)' = InRingOf(d)
  <2>1. batch[d] = 0 BY <1>1 DEF RingInv
  <2>2. batch'[d] = cq[d] /\ cq'[d] = 0 BY <1>1 DEF Op
  <2>3. Count(sq, d) \in Nat /\ fly[d] \in Nat /\ cq[d] \in Nat BY Counts
  <2>4. QED BY <1>1, <2>1, <2>2, <2>3 DEF InRingOf
<1>8. RingInv' BY <1>1, <1>2, <1>7, RingFrame
<1>9. FutureInv' BY <1>1, <1>2, FutureFrame
<1>10. RunInv' BY <1>1, <1>2, RunFrame
<1>11. QED BY <1>4, <1>5, <1>6, <1>8, <1>9, <1>10

LEMMA SubmitMoves ==
  ASSUME EInv, SubmitAll, UNCHANGED <<cq, batch>>
  PROVE  /\ \A d \in Coroutine : InRingOf(d)' = InRingOf(d)
         /\ fly' \in [Op -> Nat] /\ sq' \in Seq(Op)
<1> USE DEF EInv
<1>1. \A o \in Op : fly'[o] = fly[o] + Count(sq, o) /\ Count(sq, o) \in Nat
  BY CountType DEF SubmitAll, Types
<1>2. sq' = <<>> /\ sq' \in Seq(Op) BY EmptySeq DEF SubmitAll
<1>3. fly' \in [Op -> Nat] BY <1>1 DEF SubmitAll, Types
<1>4. ASSUME NEW d \in Coroutine PROVE InRingOf(d)' = InRingOf(d)
  <2>1. Count(sq', d) = 0 BY <1>2, CountEmpty
  <2>2. fly'[d] = fly[d] + Count(sq, d) BY <1>1 DEF Op
  <2>3. Count(sq, d) \in Nat /\ fly[d] \in Nat /\ cq[d] \in Nat /\ batch[d] \in Nat BY Counts
  <2>4. QED BY <2>1, <2>2, <2>3 DEF InRingOf
<1>5. QED BY <1>2, <1>3, <1>4

LEMMA DriveKeeps == ASSUME EInv, Drive PROVE EInv'
<1>1. /\ lpc = "drive" /\ lpc' = "ioWait" /\ SubmitAll
      /\ UNCHANGED <<now, timerVars, cq, batch, raced, run, ring, op, seen, co, awaits, poolVars>>
  BY DEF Drive, LoopGoes, sqeVars, coVars
<1> USE DEF EInv, timerVars, poolVars
<1>2. \A s : Same(s) BY <1>1 DEF Same
<1>3. /\ \A d \in Coroutine : InRingOf(d)' = InRingOf(d)
      /\ fly' \in [Op -> Nat] /\ sq' \in Seq(Op)
  BY <1>1, SubmitMoves
<1>4. Types' BY <1>1, <1>3 DEF Types
<1>5. TimerInv' BY <1>1, <1>2, TimerFrame DEF Types
<1>6. YieldInv' BY <1>1, <1>2, YieldFrame
<1>7. \A d \in Coroutine : batch'[d] = 0 BY <1>1 DEF RingInv
<1>8. RingInv' BY <1>1, <1>2, <1>3, <1>7, RingFrame
<1>9. FutureInv' BY <1>1, <1>2, FutureFrame
<1>10. RunInv' BY <1>1, <1>2, RunFrame
<1>11. QED BY <1>4, <1>5, <1>6, <1>8, <1>9, <1>10

Goes ==
  \/ BeginRun \/ TimerWait \/ TimersDone \/ YieldsDone \/ NoDrive \/ WakeUp \/ Interrupted
  \/ Subtract \/ BatchDone \/ Return \/ ThreadWait \/ ThreadWake \/ Tick \/ UNCHANGED vars

LEMMA GoesKeeps == ASSUME EInv, Goes PROVE EInv'
<1> USE DEF timerVars, ringVars, sqeVars, coVars, LoopGoes, EInv
<1>1. UNCHANGED <<timerVars, sq, fly, cq, batch, run, ring, op, seen, co, awaits, poolVars>>
  BY DEF Goes, BeginRun, TimerWait, TimersDone, YieldsDone, NoDrive, WakeUp, Interrupted,
         Subtract, BatchDone, Return, ThreadWait, ThreadWake, Tick, vars, loopVars
<1>2. raced => raced'
  BY DEF Goes, BeginRun, TimerWait, TimersDone, YieldsDone, NoDrive, WakeUp, Interrupted,
         Subtract, BatchDone, Return, ThreadWait, ThreadWake, Tick, vars, loopVars
<1>3. now' \in Nat
  <2>1. CASE Tick BY <2>1 DEF Tick, Types
  <2>2. CASE ~Tick
    <3>1. now' = now
      BY <2>2 DEF Goes, BeginRun, TimerWait, TimersDone, YieldsDone, NoDrive, WakeUp,
                  Interrupted, Subtract, BatchDone, Return, ThreadWait, ThreadWake, vars
    <3>2. QED BY <3>1 DEF Types
  <2>3. QED BY <2>1, <2>2
<1>4. /\ lpc' = "timerBack" <=> lpc = "timerBack"
      /\ lpc' = "yieldBack" <=> lpc = "yieldBack"
      /\ lpc' \in {"sub", "batch"} \/ \A c \in Coroutine : batch[c] = 0
  <2>1. CASE BeginRun \/ TimerWait \/ TimersDone \/ YieldsDone \/ NoDrive
    BY <2>1 DEF BeginRun, TimerWait, TimersDone, YieldsDone, NoDrive, RingInv
  <2>2. CASE WakeUp \/ Interrupted \/ Return \/ ThreadWait \/ ThreadWake
    BY <2>2 DEF WakeUp, Interrupted, Return, ThreadWait, ThreadWake, RingInv
  <2>3. CASE Subtract \/ BatchDone
    BY <2>3 DEF Subtract, BatchDone
  <2>4. CASE Tick \/ UNCHANGED vars
    BY <2>4 DEF Tick, vars, loopVars, RingInv
  <2>5. QED BY <2>1, <2>2, <2>3, <2>4 DEF Goes
<1>5. QED BY <1>1, <1>2, <1>3, <1>4, Quiet0

-----------------------------------------------------------------------------
(* The submission queue. *)

LEMMA SqeReadKeeps == ASSUME EInv, NEW t \in Thread, SqeRead(t) PROVE EInv'
<1>1. /\ ring[t] # "out" /\ ring' = [ring EXCEPT ![t] = "write"]
      /\ seen' = [seen EXCEPT ![t] = sq]
      /\ UNCHANGED <<timerVars, lpc, now, awaits, co, poolVars, sq, fly, cq, batch, raced, run, op>>
  BY DEF SqeRead, SqeFrame, InSqe, loopVars, ringVars, coVars
<1> USE DEF EInv
<1>2. TimerInv' /\ YieldInv' /\ FutureInv' /\ \A s : Same(s) BY <1>1, StillFrame
<1>3. seen' \in [Thread -> Seq(Op)] BY <1>1 DEF Types
<1>4. Types' BY <1>1, <1>3 DEF Types, timerVars, poolVars
<1>5. \A d \in Coroutine : InRingOf(d)' = InRingOf(d) BY <1>1 DEF InRingOf
<1>6. RingInv' BY <1>1, <1>5 DEF RingInv
<1>7. RunInv' BY <1>1 DEF RunInv, Types, poolVars
<1>8. QED BY <1>2, <1>4, <1>6, <1>7

LEMMA SqeFullKeeps == ASSUME EInv, NEW t \in Thread, SqeFull(t) PROVE EInv'
<1>1. /\ ring[t] # "out" /\ ring' = [ring EXCEPT ![t] = "full"] /\ SubmitAll
      /\ UNCHANGED <<timerVars, lpc, now, awaits, co, poolVars, cq, batch, raced, run, op, seen>>
  BY DEF SqeFull, SqeFrame, InSqe, loopVars, coVars
<1> USE DEF EInv
<1>2. TimerInv' /\ YieldInv' /\ FutureInv' /\ \A s : Same(s) BY <1>1, StillFrame
<1>3. /\ \A d \in Coroutine : InRingOf(d)' = InRingOf(d)
      /\ fly' \in [Op -> Nat] /\ sq' \in Seq(Op)
  BY <1>1, SubmitMoves
<1>4. Types' BY <1>1, <1>3 DEF Types, timerVars, poolVars
<1>5. RingInv' BY <1>1, <1>3 DEF RingInv
<1>6. RunInv' BY <1>1 DEF RunInv, Types, poolVars
<1>7. QED BY <1>2, <1>4, <1>5, <1>6

(* The exception leaves the coroutine running, and nothing in the ring.    *)
LEMMA SqeThrowsKeeps == ASSUME EInv, NEW t \in Thread, SqeThrows(t) PROVE EInv'
<1>1. /\ ring[t] = "full" /\ op[t] # Nop
      /\ ring' = [ring EXCEPT ![t] = "out"] /\ op' = [op EXCEPT ![t] = None]
      /\ UNCHANGED <<timerVars, lpc, now, awaits, co, poolVars, sq, fly, cq, batch, raced, run, seen>>
  BY DEF SqeThrows, StillFull, SqeFrame, InSqe, loopVars, ringVars, coVars
<1> USE DEF EInv
<1>2. TimerInv' /\ YieldInv' /\ FutureInv' /\ \A s : Same(s) BY <1>1, StillFrame
<1>3. ring' \in [Thread -> {"out", "get", "full", "write"}] /\ op' \in [Thread -> Op \cup {None}]
  BY <1>1 DEF Types
<1>4. Types' BY <1>1, <1>3 DEF Types, timerVars, poolVars
<1>5. \A d \in Coroutine : InRingOf(d)' = InRingOf(d) BY <1>1 DEF InRingOf
<1>6. RingInv' BY <1>1, <1>5 DEF RingInv
<1>7. RunInv' BY <1>1 DEF RunInv, Types, poolVars
<1>8. QED BY <1>2, <1>4, <1>6, <1>7

(* An entry overwritten takes others with it, never the one written.       *)
LEMMA WrittenCounts ==
  ASSUME Types, NEW t \in Thread, op[t] \in Op, NEW d
  PROVE  LET one == IF op[t] = d THEN 1 ELSE 0 IN
         /\ Written(t) \in Seq(Op)
         /\ Count(sq, d) \in Nat /\ Count(Written(t), d) \in Nat
         /\ Count(Written(t), d) <= Count(sq, d) + one
         /\ Count(Written(t), d) >= one
         /\ seen[t] = sq => Count(Written(t), d) = Count(sq, d) + one
<1> DEFINE one == IF op[t] = d THEN 1 ELSE 0
           n == Len(seen[t])
           p == SubSeq(sq, 1, n)
<1>1. sq \in Seq(Op) /\ seen[t] \in Seq(Op) /\ n \in Nat /\ Len(sq) \in Nat
  BY LenProperties DEF Types
<1>2. Count(sq, d) \in Nat BY <1>1, CountType
<1>3. one \in {0, 1} OBVIOUS
<1>4. CASE Len(sq) > n
  <2>1. n \in 0..Len(sq) BY <1>1, <1>4
  <2>2. p \in Seq(Op) /\ Count(p, d) <= Count(sq, d) BY <1>1, <2>1, CountPrefix
  <2>3. Count(p, d) \in Nat BY <2>2, CountType
  <2>4. Written(t) = Append(p, op[t]) BY <1>4 DEF Written
  <2>5. seen[t] # sq BY <1>1, <1>4
  <2> HIDE DEF one, p, n
  <2>6. Written(t) \in Seq(Op) BY <2>2, <2>4, AppendProperties
  <2>7. Count(Written(t), d) = Count(p, d) + one BY <2>2, <2>4, CountAppend DEF one
  <2>8. QED BY <1>2, <1>3, <2>2, <2>3, <2>5, <2>6, <2>7 DEF one
<1>5. CASE ~(Len(sq) > n)
  <2>1. Written(t) = Append(sq, op[t]) BY <1>5 DEF Written
  <2>2. Written(t) \in Seq(Op) BY <1>1, <2>1, AppendProperties
  <2>3. Count(Written(t), d) = Count(sq, d) + one BY <1>1, <2>1, CountAppend
  <2> HIDE DEF one, n
  <2>4. QED BY <1>2, <1>3, <2>2, <2>3 DEF one
<1>6. QED BY <1>4, <1>5

-----------------------------------------------------------------------------
(* A coroutine suspends, and whoever ran it goes on. *)

LEMMA SuspendsKeeps ==
  ASSUME EInv, NEW t \in Thread, NEW c \in Coroutine, NEW state,
         state \in Suspended \cup {"done"},
         run[t] = c, ring'[t] = "out", Suspends(t, c, state), UNCHANGED wpc,
         ring[t] # "out" \/ co[c] \in {"running", "awaiting"},
         \A u \in Thread \ {t} : ring'[u] = ring[u] /\ op'[u] = op[u]
  PROVE  /\ RunInv'
         /\ run' \in [Thread -> Coroutine \cup {None}]
         /\ co' \in [Coroutine -> Suspended \cup {"new", "running", "awaiting", "done"}]
         /\ co'[c] = state /\ \A d \in Coroutine \ {c} : co'[d] = co[d]
         /\ \A states : state \notin states /\ co[c] \notin states => Same(states)
<1> USE DEF EInv
<1>1. co' = [co EXCEPT ![c] = state] /\ run' = [run EXCEPT ![t] = None] BY DEF Suspends
<1>2. \A states : state \notin states /\ co[c] \notin states => Same(states)
  BY <1>1, SameExcept
<1>3. /\ run' \in [Thread -> Coroutine \cup {None}]
      /\ co' \in [Coroutine -> Suspended \cup {"new", "running", "awaiting", "done"}]
  BY <1>1 DEF Types
<1>4. /\ run'[t] = None /\ \A u \in Thread \ {t} : run'[u] = run[u]
      /\ co'[c] = state /\ \A d \in Coroutine \ {c} : co'[d] = co[d]
  BY <1>1 DEF Types
<1>5. c # None BY DEF LoopAssumption
<1>6. \A u \in Thread \ {t} : run[u] # c BY <1>5 DEF RunInv
<1>7. \A u \in Thread : run[u] # None => run[u] \in Coroutine BY DEF Types
<1>8. RunInv'
  <2>1. \A u \in Thread : run'[u] # None => co'[run'[u]] \in {"running", "awaiting"}
    BY <1>4, <1>6, <1>7 DEF RunInv
  <2>2. \A u, v \in Thread : run'[u] = run'[v] /\ run'[u] # None => u = v
    BY <1>4 DEF RunInv
  <2>3. ASSUME NEW d \in Coroutine, co'[d] \in {"running", "awaiting"}
        PROVE  \E u \in Thread : run'[u] = d
    <3>1. d # c BY <1>4, <2>3 DEF Suspended
    <3>2. PICK u \in Thread : run[u] = d BY <1>4, <2>3, <3>1 DEF RunInv
    <3>3. u # t BY <3>1, <3>2
    <3>4. QED BY <1>4, <3>2, <3>3
  <2>4. ASSUME NEW u \in Thread, ring'[u] # "out"
        PROVE  \/ op'[u] = Nop /\ u \in Worker /\ wpc'[u] = "nop"
               \/ op'[u] = run'[u] /\ run'[u] # None /\ co'[run'[u]] = "running"
    <3>1. u # t BY <2>4
    <3>2. ring[u] # "out" /\ op'[u] = op[u] /\ run'[u] = run[u] BY <1>4, <2>4, <3>1
    <3>3. \/ op[u] = Nop /\ u \in Worker /\ wpc[u] = "nop"
          \/ op[u] = run[u] /\ run[u] # None /\ co[run[u]] = "running"
      BY <3>2 DEF RunInv
    <3>4. QED BY <1>4, <1>6, <1>7, <3>1, <3>2, <3>3
  <2>5. \A w \in Worker : w \in Thread BY DEF Thread
  <2>6. \A w \in Worker : run'[w] # None => wpc'[w] = "notify" BY <1>4, <2>5 DEF RunInv
  <2>7. QED BY <2>1, <2>2, <2>3, <2>4, <2>6 DEF RunInv
<1>9. QED BY <1>2, <1>3, <1>4, <1>8

LEMMA SqeWriteKeeps == ASSUME EInv, NEW t \in Thread, SqeWrite(t) PROVE EInv'
<1>1. /\ ring[t] = "write" /\ sq' = Written(t)
      /\ ring' = [ring EXCEPT ![t] = "out"] /\ op' = [op EXCEPT ![t] = None]
      /\ seen' = [seen EXCEPT ![t] = <<>>]
      /\ UNCHANGED <<timerVars, lpc, now, awaits, poolVars, fly, cq, batch>>
  BY DEF SqeWrite, SqeFrame, InSqe, loopVars
<1>2. (raced => raced') /\ (seen[t] # sq => raced') BY DEF SqeWrite
<1> USE DEF EInv, timerVars, poolVars
<1>3. op[t] \in Op
  <2>1. op[t] = Nop \/ (op[t] = run[t] /\ run[t] # None) BY <1>1 DEF RunInv
  <2>2. run[t] \in Coroutine \cup {None} BY DEF Types
  <2>3. QED BY <2>1, <2>2 DEF Op
<1>4. sq' \in Seq(Op) BY <1>1, <1>3, WrittenCounts
<1>5. /\ seen' \in [Thread -> Seq(Op)]
      /\ ring' \in [Thread -> {"out", "get", "full", "write"}]
      /\ op' \in [Thread -> Op \cup {None}]
  <2>1. <<>> \in Seq(Op) BY EmptySeq
  <2>2. QED BY <1>1, <2>1 DEF Types
<1>6. ASSUME NEW d \in Coroutine, op[t] # d, InRingOf(d) = 1 \/ InRingOf(d) = 0
      PROVE  /\ InRingOf(d)' = InRingOf(d) \/ (InRingOf(d)' = 0 /\ raced')
             /\ InRingOf(d) = 0 => InRingOf(d)' = 0
  <2>1. Count(sq', d) \in Nat /\ Count(sq', d) <= Count(sq, d)
    BY <1>1, <1>3, <1>6, WrittenCounts
  <2>2. Count(sq, d) \in Nat /\ fly[d] \in Nat /\ cq[d] \in Nat /\ batch[d] \in Nat BY Counts
  <2>3. InRingOf(d)' = Count(sq', d) + fly[d] + cq[d] + batch[d] BY <1>1 DEF InRingOf
  <2>4. InRingOf(d) = Count(sq, d) + fly[d] + cq[d] + batch[d] BY DEF InRingOf
  <2>5. seen[t] = sq => Count(sq', d) = Count(sq, d) BY <1>1, <1>3, <1>6, <2>2, WrittenCounts
  <2>6. CASE seen[t] = sq BY <2>2, <2>3, <2>4, <2>5, <2>6
  <2>7. CASE seen[t] # sq
    <3>1. raced' BY <1>2, <2>7
    <3>2. InRingOf(d)' = InRingOf(d) \/ InRingOf(d)' = 0 BY <1>6, <2>1, <2>2, <2>3, <2>4
    <3>3. InRingOf(d) = 0 => InRingOf(d)' = 0
      <4> SUFFICES ASSUME InRingOf(d) = 0 PROVE InRingOf(d)' = 0
        OBVIOUS
      <4>1. Count(sq, d) = 0 /\ fly[d] = 0 /\ cq[d] = 0 /\ batch[d] = 0
        BY InRingZero
      <4>2. Count(sq', d) = 0 BY <2>1, <4>1
      <4>3. QED BY <2>3, <4>1, <4>2
    <3>4. QED BY <3>1, <3>2, <3>3
  <2>8. QED BY <2>6, <2>7
<1>7. ASSUME NEW d \in Coroutine, op[t] # d, co'[d] = co[d]
      PROVE  /\ co'[d] = "aio" => InRingOf(d)' = 1 \/ (raced' /\ InRingOf(d)' = 0)
             /\ co'[d] # "aio" => InRingOf(d)' = 0
  <2>1. /\ co[d] = "aio" => InRingOf(d) = 1 \/ (raced /\ InRingOf(d) = 0)
        /\ co[d] # "aio" => InRingOf(d) = 0
    BY DEF RingInv
  <2>2. InRingOf(d) = 1 \/ InRingOf(d) = 0 BY <2>1
  <2>3. /\ InRingOf(d)' = InRingOf(d) \/ (InRingOf(d)' = 0 /\ raced')
        /\ InRingOf(d) = 0 => InRingOf(d)' = 0
    BY <1>6, <1>7, <2>2
  <2>4. QED BY <1>2, <1>7, <2>1, <2>3
<1>8. lpc' \in {"sub", "batch"} \/ \A d \in Coroutine : batch'[d] = 0 BY <1>1 DEF RingInv
<1>9. CASE op[t] = Nop
  <2>1. UNCHANGED <<co, run>> BY <1>9 DEF SqeWrite
  <2>2. TimerInv' /\ YieldInv' /\ FutureInv' BY <1>1, <2>1, StillFrame
  <2>3. Types' BY <1>1, <1>4, <1>5, <2>1 DEF Types
  <2>4. \A d \in Coroutine : op[t] # d BY <1>9 DEF LoopAssumption
  <2>5. RingInv' BY <1>7, <1>8, <2>1, <2>4 DEF RingInv
  <2>6. RunInv' BY <1>1, <2>1 DEF RunInv, Types
  <2>7. QED BY <2>2, <2>3, <2>5, <2>6
<1>10. CASE op[t] # Nop
  <2>1. PICK c \in Coroutine : op[t] = c /\ run[t] = c /\ co[c] = "running"
    BY <1>1, <1>3, <1>10 DEF RunInv, Op
  <2>2. Suspends(t, c, "aio") BY <1>10, <2>1 DEF SqeWrite, Suspends
  <2>3. /\ RunInv'
        /\ run' \in [Thread -> Coroutine \cup {None}]
        /\ co' \in [Coroutine -> Suspended \cup {"new", "running", "awaiting", "done"}]
        /\ co'[c] = "aio" /\ \A d \in Coroutine \ {c} : co'[d] = co[d]
        /\ \A states : "aio" \notin states /\ co[c] \notin states => Same(states)
    <3>1. ring'[t] = "out" /\ \A u \in Thread \ {t} : ring'[u] = ring[u] /\ op'[u] = op[u]
      BY <1>1 DEF Types
    <3>2. "aio" \in Suspended \cup {"done"} BY DEF Suspended
    <3>3. QED BY <1>1, <2>1, <2>2, <3>1, <3>2, SuspendsKeeps
  <2>4. Same({"timer"}) /\ Same({"yield"}) /\ Same({"awaiting", "future"}) BY <2>1, <2>3
  <2>5. Types' BY <1>1, <1>4, <1>5, <2>3 DEF Types
  <2>6. TimerInv' BY <1>1, <2>4, TimerFrame DEF Types
  <2>7. YieldInv' BY <1>1, <2>4, YieldFrame
  <2>8. FutureInv' BY <1>1, <2>4, FutureFrame
  <2>9. InRingOf(c)' = 1
    <3>1. InRingOf(c) = 0 BY <2>1 DEF RingInv
    <3>2. Count(sq, c) \in Nat /\ fly[c] \in Nat /\ cq[c] \in Nat /\ batch[c] \in Nat
      BY <2>1, Counts
    <3>3. InRingOf(c) = Count(sq, c) + fly[c] + cq[c] + batch[c] BY DEF InRingOf
    <3>4. Count(sq, c) = 0 /\ fly[c] = 0 /\ cq[c] = 0 /\ batch[c] = 0 
      BY <3>1, InRingZero
    <3>5. Count(sq', c) \in Nat /\ Count(sq', c) <= 1 /\ Count(sq', c) >= 1
      BY <1>1, <1>3, <2>1, <3>4, WrittenCounts
    <3>6. InRingOf(c)' = Count(sq', c) + fly[c] + cq[c] + batch[c] BY <1>1 DEF InRingOf
    <3>7. QED BY <3>4, <3>5, <3>6
  <2>10. RingInv'
    <3>1. ASSUME NEW d \in Coroutine
          PROVE  /\ co'[d] = "aio" => InRingOf(d)' = 1 \/ (raced' /\ InRingOf(d)' = 0)
                 /\ co'[d] # "aio" => InRingOf(d)' = 0
      <4>1. CASE d = c
        <5>1. InRingOf(d)' = 1 BY <2>9, <4>1
        <5>2. co'[d] = "aio" BY <2>3, <4>1
        <5>3. QED BY <5>1, <5>2
      <4>2. CASE d # c
        <5>1. op[t] # d BY <2>1, <4>2
        <5>2. co'[d] = co[d] BY <2>3, <4>2
        <5>3. QED BY <1>7, <5>1, <5>2
      <4>3. QED BY <4>1, <4>2
    <3>2. QED BY <1>8, <3>1 DEF RingInv
  <2>11. QED BY <2>3, <2>5, <2>6, <2>7, <2>8, <2>10
<1>11. QED BY <1>9, <1>10

-----------------------------------------------------------------------------
(* The coroutine's moves. *)

LEMMA RunningFacts ==
  ASSUME EInv, NEW t \in Thread, NEW c \in Coroutine, Running(t, c)
  PROVE  /\ run[t] = c /\ co[c] = "running" /\ ring[t] = "out"
         /\ TimersOf(c) = {} /\ YieldsOf(c) = 0 /\ InRingOf(c) = 0
         /\ c \notin futures /\ ~\E w \in Worker : With(w, c)
<1> USE DEF EInv
<1>1. run[t] = c /\ co[c] = "running" /\ ring[t] = "out" BY DEF Running
<1>2. TimersOf(c) = {} BY <1>1 DEF TimerInv
<1>3. YieldsOf(c) = 0 BY <1>1 DEF YieldInv
<1>4. InRingOf(c) = 0 BY <1>1 DEF RingInv
<1>5. c \notin futures /\ ~\E w \in Worker : With(w, c) BY <1>1 DEF FutureInv, With
<1>6. QED BY <1>1, <1>2, <1>3, <1>4, <1>5

LEMMA AwaitTimerKeeps ==
  ASSUME EInv, NEW t \in Thread, NEW c \in Coroutine, AwaitTimer(t, c)
  PROVE  EInv'
<1>1. PICK at \in Nat :
        /\ timerTree' = timerTree \cup {[at |-> at, co |-> c, n |-> awaits[c]]}
        /\ Running(t, c) /\ Suspends(t, c, "timer") /\ awaits' = [awaits EXCEPT ![c] = @ + 1]
        /\ UNCHANGED <<now, cur, yieldQueue, sq, fly, cq, batch, raced, lpc, ring, op, seen,
                       poolVars>>
  <2>1. PICK d \in Durations :
          timerTree' = timerTree \cup {[at |-> now + d, co |-> c, n |-> awaits[c]]}
    BY DEF AwaitTimer
  <2>2. now + d \in Nat
    <3>1. d \in Nat BY DEF LoopAssumption
    <3>2. now \in Nat BY DEF EInv, Types
    <3>3. QED BY <3>1, <3>2
  <2>3. /\ Running(t, c) /\ Suspends(t, c, "timer") /\ awaits' = [awaits EXCEPT ![c] = @ + 1]
        /\ UNCHANGED <<now, cur, yieldQueue, sq, fly, cq, batch, raced, lpc, ring, op, seen,
                       poolVars>>
    BY DEF AwaitTimer, Awaits, ringVars, sqeVars, loopVars
  <2> WITNESS now + d \in Nat
  <2>4. QED BY <2>1, <2>3
<1> USE DEF EInv, poolVars
<1> DEFINE e == [at |-> at, co |-> c, n |-> awaits[c]]
<1>2. run[t] = c /\ co[c] = "running" /\ ring[t] = "out" /\ TimersOf(c) = {}
  BY <1>1, RunningFacts
<1>3. /\ RunInv'
      /\ run' \in [Thread -> Coroutine \cup {None}]
      /\ co' \in [Coroutine -> Suspended \cup {"new", "running", "awaiting", "done"}]
      /\ co'[c] = "timer" /\ \A d \in Coroutine \ {c} : co'[d] = co[d]
      /\ \A states : "timer" \notin states /\ co[c] \notin states => Same(states)
  BY <1>1, <1>2, SuspendsKeeps DEF Suspended
<1>4. Same({"yield"}) /\ Same({"aio"}) /\ Same({"awaiting", "future"}) BY <1>2, <1>3
<1>5. awaits[c] \in Nat /\ awaits'[c] = awaits[c] + 1 BY <1>1 DEF Types
<1>6. \A d \in Coroutine : awaits[d] \in Nat /\ awaits'[d] \in Nat /\ awaits'[d] >= awaits[d]
  BY <1>1 DEF Types
<1>7. Types'
  <2>1. e \in [at : Nat, co : Coroutine, n : Nat] BY <1>5
  <2>2. IsFiniteSet(timerTree') BY <1>1, FS_AddElement DEF Types
  <2>3. timerTree' \subseteq [at : Nat, co : Coroutine, n : Nat] BY <1>1, <2>1 DEF Types
  <2>4. awaits' \in [Coroutine -> Nat] BY <1>1, <1>5 DEF Types
  <2>5. QED BY <1>1, <1>3, <2>2, <2>3, <2>4 DEF Types
<1>8. YieldInv' BY <1>1, <1>4, YieldFrame
<1>9. \A d \in Coroutine : InRingOf(d)' = InRingOf(d) BY <1>1 DEF InRingOf
<1>10. RingInv'
  <2>1. lpc' \in {"sub", "batch"} \/ \A d \in Coroutine : batch'[d] = 0 BY <1>1 DEF RingInv
  <2>2. QED BY <1>1, <1>4, <1>9, <2>1, RingFrame
<1>11. FutureInv' BY <1>1, <1>4, FutureFrame
<1>12. TimerInv'
  <2>1. e \notin timerTree /\ e.co = c /\ e.n = awaits[c]
    <3>1. e.co = c /\ e.n = awaits[c] OBVIOUS
    <3>2. \A f \in timerTree : f.co = c => f.n < awaits[c] BY DEF TimerInv
    <3>3. QED BY <1>5, <3>1, <3>2
  <2> HIDE DEF e
  <2>2. lpc = "timerBack" => cur \in timerTree /\ e # cur BY <2>1 DEF TimerInv
  <2>3. ASSUME NEW f \in timerTree' PROVE f.n < awaits'[f.co]
    <3>1. CASE f = e BY <1>5, <2>1, <3>1
    <3>2. CASE f # e
      <4>1. f \in timerTree BY <1>1, <3>2 DEF e
      <4>2. f.co \in Coroutine /\ f.n \in Nat /\ f.n < awaits[f.co] BY <4>1 DEF TimerInv, Types
      <4>3. QED BY <1>6, <4>2
    <3>3. QED BY <3>1, <3>2
  <2>4. timerTree' = timerTree \cup {e} BY <1>1 DEF e
  <2>5. TimersOf(c)' = {e} BY <1>1, <1>2, <2>1, <2>2, <2>4 DEF TimersOf
  <2>6. \A d \in Coroutine \ {c} : TimersOf(d)' = TimersOf(d) BY <1>1, <2>1, <2>4 DEF TimersOf
  <2>7. ASSUME NEW d \in Coroutine
        PROVE  IF co'[d] = "timer" THEN \E f \in timerTree' : TimersOf(d)' = {f}
               ELSE TimersOf(d)' = {}
    <3>1. CASE d = c
      <4>1. co'[d] = "timer" /\ e \in timerTree' BY <1>3, <2>4, <3>1
      <4>2. TimersOf(d)' = {e} BY <1>1, <1>2, <2>1, <2>2, <2>4, <3>1 DEF TimersOf
      <4>3. QED BY <4>1, <4>2
    <3>2. CASE d # c
      <4>1. co'[d] = co[d] /\ TimersOf(d)' = TimersOf(d) BY <1>3, <2>6, <3>2
      <4>2. QED BY <2>4, <4>1 DEF TimerInv
    <3>3. QED BY <3>1, <3>2
  <2>8. lpc' = "timerBack" => cur' \in timerTree' BY <1>1, <2>2, <2>4
  <2>9. QED BY <2>3, <2>7, <2>8 DEF TimerInv
<1>13. QED BY <1>3, <1>7, <1>8, <1>10, <1>11, <1>12

LEMMA AwaitYieldKeeps ==
  ASSUME EInv, NEW t \in Thread, NEW c \in Coroutine, AwaitYield(t, c)
  PROVE  EInv'
<1>1. /\ yieldQueue' = Append(yieldQueue, c)
      /\ Running(t, c) /\ Suspends(t, c, "yield") /\ awaits' = [awaits EXCEPT ![c] = @ + 1]
      /\ UNCHANGED <<now, timerTree, cur, sq, fly, cq, batch, raced, lpc, ring, op, seen, poolVars>>
  BY DEF AwaitYield, Awaits, ringVars, sqeVars, loopVars
<1> USE DEF EInv, poolVars
<1>2. run[t] = c /\ co[c] = "running" /\ ring[t] = "out" /\ YieldsOf(c) = 0
  BY <1>1, RunningFacts
<1>3. /\ RunInv'
      /\ run' \in [Thread -> Coroutine \cup {None}]
      /\ co' \in [Coroutine -> Suspended \cup {"new", "running", "awaiting", "done"}]
      /\ co'[c] = "yield" /\ \A d \in Coroutine \ {c} : co'[d] = co[d]
      /\ \A states : "yield" \notin states /\ co[c] \notin states => Same(states)
  BY <1>1, <1>2, SuspendsKeeps DEF Suspended
<1>4. Same({"timer"}) /\ Same({"aio"}) /\ Same({"awaiting", "future"}) BY <1>2, <1>3
<1>5. \A d \in Coroutine : awaits'[d] \in Nat /\ awaits'[d] >= awaits[d] BY <1>1 DEF Types
<1>6. yieldQueue' \in Seq(Coroutine) /\ yieldQueue' # <<>>
  BY <1>1, AppendProperties DEF Types
<1>7. Types'
  <2>1. awaits' \in [Coroutine -> Nat] BY <1>1 DEF Types
  <2>2. QED BY <1>1, <1>3, <1>6, <2>1 DEF Types
<1>8. TimerInv' BY <1>1, <1>4, <1>5, TimerFrame
<1>9. \A d \in Coroutine : InRingOf(d)' = InRingOf(d) BY <1>1 DEF InRingOf
<1>10. RingInv'
  <2>1. lpc' \in {"sub", "batch"} \/ \A d \in Coroutine : batch'[d] = 0 BY <1>1 DEF RingInv
  <2>2. QED BY <1>1, <1>4, <1>9, <2>1, RingFrame
<1>11. FutureInv' BY <1>1, <1>4, FutureFrame
<1>12. YieldInv'
  <2>1. lpc = "yieldBack" => Head(yieldQueue') = Head(yieldQueue)
    <3>1. lpc = "yieldBack" => yieldQueue # <<>> BY DEF YieldInv
    <3>2. QED BY <1>1, <3>1, AppendProperties, HeadTailProperties, LenProperties DEF Types
  <2>2. ASSUME NEW d \in Coroutine
        PROVE  YieldsOf(d)' = YieldsOf(d) + (IF c = d THEN 1 ELSE 0)
    <3> DEFINE one == IF c = d THEN 1 ELSE 0
               back == IF lpc = "yieldBack" /\ Head(yieldQueue) = d THEN 1 ELSE 0
    <3>1. Count(yieldQueue', d) = Count(yieldQueue, d) + one BY <1>1, CountAppend DEF Types
    <3>2. Count(yieldQueue, d) \in Nat BY Counts
    <3>3. YieldsOf(d)' = Count(yieldQueue', d) - back BY <1>1, <2>1 DEF YieldsOf
    <3>4. YieldsOf(d) = Count(yieldQueue, d) - back BY DEF YieldsOf
    <3>5. one \in Int /\ back \in Int OBVIOUS
    <3> HIDE DEF one, back
    <3>6. YieldsOf(d)' = YieldsOf(d) + one BY <3>1, <3>2, <3>3, <3>4, <3>5
    <3>7. QED BY <3>6 DEF one
  <2>3. ASSUME NEW d \in Coroutine PROVE YieldsOf(d)' = IF co'[d] = "yield" THEN 1 ELSE 0
    <3>1. CASE d = c
      <4>1. YieldsOf(d) = 0 BY <1>2, <3>1
      <4>2. co'[d] = "yield" BY <1>3, <3>1
      <4>3. YieldsOf(d)' = 0 + 1 BY <2>2, <3>1, <4>1
      <4>4. QED BY <4>2, <4>3
    <3>2. CASE d # c
      <4>1. YieldsOf(d) = IF co[d] = "yield" THEN 1 ELSE 0 BY DEF YieldInv
      <4>2. YieldsOf(d)' = YieldsOf(d) + 0 BY <2>2, <3>2
      <4>3. QED BY <1>3, <3>2, <4>1, <4>2
    <3>3. QED BY <3>1, <3>2
  <2>4. QED BY <1>6, <2>3 DEF YieldInv
<1>13. QED BY <1>3, <1>7, <1>8, <1>10, <1>11, <1>12

LEMMA AwaitAioKeeps ==
  ASSUME EInv, NEW t \in Thread, NEW c \in Coroutine, AwaitAio(t, c)
  PROVE  EInv'
<1>1. /\ ring' = [ring EXCEPT ![t] = "get"] /\ op' = [op EXCEPT ![t] = c]
      /\ Running(t, c) /\ awaits' = [awaits EXCEPT ![c] = @ + 1]
      /\ UNCHANGED <<now, timerVars, sq, fly, cq, batch, raced, lpc, run, co, seen, poolVars>>
  BY DEF AwaitAio, Awaits, ringVars, sqeVars, loopVars
<1> USE DEF EInv, poolVars, timerVars
<1>2. run[t] = c /\ co[c] = "running" /\ ring[t] = "out" BY <1>1, RunningFacts
<1>3. \A s : Same(s) BY <1>1 DEF Same
<1>4. \A d \in Coroutine : awaits'[d] \in Nat /\ awaits'[d] >= awaits[d] BY <1>1 DEF Types
<1>5. Types'
  <2>1. /\ awaits' \in [Coroutine -> Nat]
        /\ ring' \in [Thread -> {"out", "get", "full", "write"}]
        /\ op' \in [Thread -> Op \cup {None}]
    BY <1>1 DEF Types, Op
  <2>2. QED BY <1>1, <2>1 DEF Types
<1>6. TimerInv' BY <1>1, <1>3, <1>4, TimerFrame
<1>7. YieldInv' BY <1>1, <1>3, YieldFrame
<1>8. \A d \in Coroutine : InRingOf(d)' = InRingOf(d) BY <1>1 DEF InRingOf
<1>9. RingInv'
  <2>1. lpc' \in {"sub", "batch"} \/ \A d \in Coroutine : batch'[d] = 0 BY <1>1 DEF RingInv
  <2>2. QED BY <1>1, <1>3, <1>8, <2>1, RingFrame
<1>10. FutureInv' BY <1>1, <1>3, FutureFrame
<1>11. RunInv'
  <2>1. c # None BY DEF LoopAssumption
  <2>2. op'[t] = c /\ \A u \in Thread \ {t} : op'[u] = op[u] /\ ring'[u] = ring[u]
    BY <1>1 DEF Types
  <2>3. QED BY <1>1, <1>2, <2>1, <2>2 DEF RunInv
<1>12. QED BY <1>5, <1>6, <1>7, <1>9, <1>10, <1>11

LEMMA FinishKeeps ==
  ASSUME EInv, NEW t \in Thread, NEW c \in Coroutine, Finish(t, c)
  PROVE  EInv'
<1>1. /\ Running(t, c) /\ Suspends(t, c, "done")
      /\ UNCHANGED <<now, timerVars, sq, fly, cq, batch, raced, lpc, ring, op, seen, awaits,
                     poolVars>>
  BY DEF Finish, ringVars, sqeVars, loopVars
<1> USE DEF EInv, poolVars, timerVars
<1>2. run[t] = c /\ co[c] = "running" /\ ring[t] = "out" BY <1>1, RunningFacts
<1>3. /\ RunInv'
      /\ run' \in [Thread -> Coroutine \cup {None}]
      /\ co' \in [Coroutine -> Suspended \cup {"new", "running", "awaiting", "done"}]
      /\ \A states : "done" \notin states /\ co[c] \notin states => Same(states)
  BY <1>1, <1>2, SuspendsKeeps
<1>4. Same({"timer"}) /\ Same({"yield"}) /\ Same({"aio"}) /\ Same({"awaiting", "future"})
  BY <1>2, <1>3
<1>5. Types' BY <1>1, <1>3 DEF Types
<1>6. TimerInv' BY <1>1, <1>4, TimerFrame DEF Types
<1>7. YieldInv' BY <1>1, <1>4, YieldFrame
<1>8. \A d \in Coroutine : InRingOf(d)' = InRingOf(d) BY <1>1 DEF InRingOf
<1>9. RingInv'
  <2>1. lpc' \in {"sub", "batch"} \/ \A d \in Coroutine : batch'[d] = 0 BY <1>1 DEF RingInv
  <2>2. QED BY <1>1, <1>4, <1>8, <2>1, RingFrame
<1>10. FutureInv' BY <1>1, <1>4, FutureFrame
<1>11. QED BY <1>3, <1>5, <1>6, <1>7, <1>9, <1>10

LEMMA StoreKeeps ==
  ASSUME EInv, NEW t \in Thread, NEW c \in Coroutine, StoreCoroutine(t, c)
  PROVE  EInv'
<1>1. /\ ~Crashed /\ run[t] = c /\ co[c] = "awaiting" /\ Suspends(t, c, "future")
      /\ UNCHANGED <<now, timerVars, sq, fly, cq, batch, raced, lpc, ring, op, seen, awaits,
                     poolVars>>
  BY DEF StoreCoroutine, ringVars, sqeVars, loopVars
<1> USE DEF EInv, poolVars, timerVars
<1>2. c # None BY DEF LoopAssumption
<1>3. t \in Worker => wpc[t] = "notify" BY <1>1, <1>2 DEF RunInv
<1>4. ring'[t] = "out" BY <1>1, <1>3 DEF RunInv
<1>5. /\ RunInv'
      /\ run' \in [Thread -> Coroutine \cup {None}]
      /\ co' \in [Coroutine -> Suspended \cup {"new", "running", "awaiting", "done"}]
      /\ co'[c] = "future" /\ \A d \in Coroutine \ {c} : co'[d] = co[d]
      /\ \A states : "future" \notin states /\ co[c] \notin states => Same(states)
  BY <1>1, <1>4, SuspendsKeeps DEF Suspended
<1>6. Same({"timer"}) /\ Same({"yield"}) /\ Same({"aio"}) BY <1>1, <1>5
<1>7. Types' BY <1>1, <1>5 DEF Types
<1>8. TimerInv' BY <1>1, <1>6, TimerFrame DEF Types
<1>9. YieldInv' BY <1>1, <1>6, YieldFrame
<1>10. \A d \in Coroutine : InRingOf(d)' = InRingOf(d) BY <1>1 DEF InRingOf
<1>11. RingInv'
  <2>1. lpc' \in {"sub", "batch"} \/ \A d \in Coroutine : batch'[d] = 0 BY <1>1 DEF RingInv
  <2>2. QED BY <1>1, <1>6, <1>10, <2>1, RingFrame
<1>12. FutureInv'
  <2>1. \A d \in Coroutine : co'[d] \in {"awaiting", "future"} <=> co[d] \in {"awaiting", "future"}
    BY <1>1, <1>5
  <2>2. \A d \in Coroutine, w \in Worker : With(w, d)' <=> With(w, d) BY <1>1 DEF With
  <2>3. ~Crashed' BY <1>1 DEF Crashed
  <2>4. QED BY <1>1, <2>1, <2>2 DEF FutureInv, Types
<1>13. QED BY <1>5, <1>7, <1>8, <1>9, <1>11, <1>12

LEMMA AwaitFutureKeeps ==
  ASSUME EInv, NEW t \in Thread, NEW c \in Coroutine, AwaitFuture(t, c)
  PROVE  EInv'
<1>1. /\ Running(t, c) /\ awaits' = [awaits EXCEPT ![c] = @ + 1]
      /\ futures' = futures \cup {c} /\ co' = [co EXCEPT ![c] = "awaiting"]
      /\ UNCHANGED <<now, timerVars, sq, fly, cq, batch, raced, lpc, run, ring, op, seen, wpc, wco>>
  BY DEF AwaitFuture, Awaits, ringVars, sqeVars, loopVars
<1> USE DEF EInv, timerVars
<1>2. /\ run[t] = c /\ co[c] = "running" /\ ring[t] = "out"
      /\ c \notin futures /\ ~\E w \in Worker : With(w, c)
  BY <1>1, RunningFacts
<1>3. co'[c] = "awaiting" /\ \A d \in Coroutine \ {c} : co'[d] = co[d] BY <1>1 DEF Types
<1>4. Same({"timer"}) /\ Same({"yield"}) /\ Same({"aio"})
  <2>1. \A states : "awaiting" \notin states /\ co[c] \notin states => Same(states)
    BY <1>1, SameExcept
  <2>2. QED BY <1>2, <2>1
<1>5. \A d \in Coroutine : awaits'[d] \in Nat /\ awaits'[d] >= awaits[d] BY <1>1 DEF Types
<1>6. Types'
  <2>1. /\ awaits' \in [Coroutine -> Nat] /\ futures' \subseteq Coroutine
        /\ co' \in [Coroutine -> Suspended \cup {"new", "running", "awaiting", "done"}]
    BY <1>1 DEF Types
  <2>2. QED BY <1>1, <2>1 DEF Types
<1>7. TimerInv' BY <1>1, <1>4, <1>5, TimerFrame
<1>8. YieldInv' BY <1>1, <1>4, YieldFrame
<1>9. \A d \in Coroutine : InRingOf(d)' = InRingOf(d) BY <1>1 DEF InRingOf
<1>10. RingInv'
  <2>1. lpc' \in {"sub", "batch"} \/ \A d \in Coroutine : batch'[d] = 0 BY <1>1 DEF RingInv
  <2>2. QED BY <1>1, <1>4, <1>9, <2>1, RingFrame
<1>11. FutureInv'
  <2>1. \A d \in Coroutine, w \in Worker : With(w, d)' <=> With(w, d) BY <1>1 DEF With
  <2>2. Crashed' <=> Crashed BY <1>1 DEF Crashed
  <2>3. \A d \in futures' : co'[d] \in {"awaiting", "future"} /\ ~\E w \in Worker : With(w, d)'
    <3>1. ASSUME NEW d \in futures, d # c
          PROVE  co'[d] \in {"awaiting", "future"} /\ ~\E w \in Worker : With(w, d)'
      BY <1>3, <2>1, <3>1 DEF FutureInv, Types
    <3>2. ~\E w \in Worker : With(w, c)' BY <1>2, <2>1
    <3>3. QED BY <1>1, <1>3, <3>1, <3>2
  <2>4. ASSUME NEW w \in Worker, wpc'[w] = "resume"
        PROVE  wco'[w] \in Coroutine /\ co'[wco'[w]] \in {"awaiting", "future"}
    <3>1. wco'[w] = wco[w] /\ wpc[w] = "resume" BY <1>1, <2>4
    <3>2. wco[w] \in Coroutine /\ co[wco[w]] \in {"awaiting", "future"} BY <3>1 DEF FutureInv
    <3>3. QED BY <1>3, <3>1, <3>2
  <2>5. \A v, w \in Worker : wpc'[v] = "resume" /\ wpc'[w] = "resume" /\ wco'[w] = wco'[v] => v = w
    BY <1>1 DEF FutureInv, With
  <2>6. ASSUME NEW d \in Coroutine, co'[d] \in {"awaiting", "future"}
        PROVE  \/ d \in futures'
               \/ \E w \in Worker : With(w, d)'
               \/ co'[d] = "awaiting" /\ Crashed'
    <3>1. CASE d = c BY <1>1, <3>1
    <3>2. CASE d # c BY <1>1, <1>3, <2>1, <2>2, <2>6, <3>2 DEF FutureInv
    <3>3. QED BY <3>1, <3>2
  <2>7. QED BY <2>3, <2>4, <2>5, <2>6 DEF FutureInv, With
<1>12. RunInv'
  <2>1. c # None BY DEF LoopAssumption
  <2>2. \A u \in Thread : run[u] # None => run[u] \in Coroutine BY DEF Types
  <2>3. \A u \in Thread \ {t} : run[u] # c BY <1>2, <2>1 DEF RunInv
  <2>4. QED BY <1>1, <1>2, <1>3, <2>1, <2>2, <2>3 DEF RunInv
<1>13. QED BY <1>6, <1>7, <1>8, <1>10, <1>11, <1>12

-----------------------------------------------------------------------------
(* The workers, and the kernel. *)

(* Where only a worker moves on: what else the steps of a worker keep.     *)
LEMMA WorkerFrame ==
  ASSUME EInv, UNCHANGED <<timerVars, lpc, awaits, sq, fly, cq, batch, raced>>,
         Same({"timer"}), Same({"yield"}), Same({"aio"})
  PROVE  TimerInv' /\ YieldInv' /\ RingInv'
<1> USE DEF EInv, timerVars
<1>1. TimerInv' BY TimerFrame DEF Types
<1>2. YieldInv' BY YieldFrame
<1>3. \A d \in Coroutine : InRingOf(d)' = InRingOf(d) BY DEF InRingOf
<1>4. lpc' \in {"sub", "batch"} \/ \A d \in Coroutine : batch'[d] = 0 BY DEF RingInv
<1>5. RingInv' BY <1>3, <1>4, RingFrame
<1>6. QED BY <1>1, <1>2, <1>5

LEMMA TakeKeeps ==
  ASSUME EInv, NEW w \in Worker, NEW c \in Coroutine, Take(w, c)
  PROVE  EInv'
<1>1. /\ ~Crashed /\ wpc[w] = "idle" /\ c \in futures /\ futures' = futures \ {c}
      /\ wpc' = [wpc EXCEPT ![w] = "resume"] /\ wco' = [wco EXCEPT ![w] = c]
      /\ UNCHANGED <<now, timerVars, sq, fly, cq, batch, raced, lpc, run, ring, op, seen, co,
                     awaits>>
  BY DEF Take, WorkerAt, ringVars, sqeVars, loopVars, coVars
<1> USE DEF EInv, timerVars
<1>2. \A s : Same(s) BY <1>1 DEF Same
<1>3. TimerInv' /\ YieldInv' /\ RingInv' BY <1>1, <1>2, WorkerFrame
<1>4. /\ futures' \subseteq Coroutine
      /\ wpc' \in [Worker -> {"idle", "resume", "notify", "nop", "crashed"}]
      /\ wco' \in [Worker -> Coroutine \cup {None}]
  BY <1>1 DEF Types
<1>5. Types' BY <1>1, <1>4 DEF Types
<1>6. /\ wpc'[w] = "resume" /\ wco'[w] = c
      /\ \A v \in Worker \ {w} : wpc'[v] = wpc[v] /\ wco'[v] = wco[v]
  BY <1>1 DEF Types
<1>7. co[c] \in {"awaiting", "future"} /\ \A v \in Worker : ~(wpc[v] = "resume" /\ wco[v] = c)
  BY <1>1 DEF FutureInv, With
<1>8. FutureInv'
  <2>1. \A d \in futures' : co'[d] \in {"awaiting", "future"} /\ ~\E v \in Worker : With(v, d)'
    BY <1>1, <1>6 DEF FutureInv, With
  <2>2. \A v \in Worker :
          wpc'[v] = "resume" => wco'[v] \in Coroutine /\ co'[wco'[v]] \in {"awaiting", "future"}
    BY <1>1, <1>6, <1>7 DEF FutureInv
  <2>3. \A u, v \in Worker : wpc'[u] = "resume" /\ wpc'[v] = "resume" /\ wco'[v] = wco'[u] => u = v
    BY <1>6, <1>7 DEF FutureInv, With
  <2>4. ASSUME NEW d \in Coroutine, co'[d] \in {"awaiting", "future"}
        PROVE  \/ d \in futures'
               \/ \E v \in Worker : With(v, d)'
               \/ co'[d] = "awaiting" /\ Crashed'
    <3>1. CASE d = c BY <1>6, <3>1 DEF With
    <3>2. CASE d # c
      <4>1. d \in futures \/ \E v \in Worker : With(v, d) BY <1>1, <2>4 DEF FutureInv
      <4>2. \A v \in Worker : With(v, d) => With(v, d)' BY <1>1, <1>6 DEF With
      <4>3. QED BY <1>1, <3>2, <4>1, <4>2
    <3>3. QED BY <3>1, <3>2
  <2>5. QED BY <2>1, <2>2, <2>3, <2>4 DEF FutureInv, With
<1>9. RunInv'
  <2>1. \A v \in Worker : v \in Thread BY DEF Thread
  <2>2. run[w] = None BY <1>1 DEF RunInv
  <2>3. ring[w] = "out" BY <1>1, <2>1, <2>2 DEF RunInv
  <2>4. \A v \in Worker : run[v] # None \/ ring[v] # "out" => wpc'[v] = wpc[v]
    BY <1>6, <2>2, <2>3
  <2>5. QED BY <1>1, <1>2, <2>4, RunFrame
<1>10. QED BY <1>3, <1>5, <1>8, <1>9

LEMMA ResumeOnWorkerKeeps ==
  ASSUME EInv, NEW w \in Worker, ResumeOnWorker(w)
  PROVE  EInv'
<1> USE DEF EInv, timerVars
<1>1. PICK c \in Coroutine : c = wco[w] /\ co[c] = "future"
  BY DEF ResumeOnWorker, WorkerAt, FutureInv
<1>2. /\ ~Crashed /\ wpc[w] = "resume" /\ wpc' = [wpc EXCEPT ![w] = "notify"]
      /\ co' = [co EXCEPT ![c] = "running"] /\ run' = [run EXCEPT ![w] = c]
      /\ UNCHANGED <<now, timerVars, sq, fly, cq, batch, raced, lpc, ring, op, seen, awaits,
                     futures, wco>>
  BY <1>1 DEF ResumeOnWorker, Resume, WorkerAt, ringVars, sqeVars, loopVars
<1>3. Same({"timer"}) /\ Same({"yield"}) /\ Same({"aio"})
  <2>1. \A states : "running" \notin states /\ co[c] \notin states => Same(states)
    BY <1>2, SameExcept
  <2>2. QED BY <1>1, <2>1
<1>4. TimerInv' /\ YieldInv' /\ RingInv' BY <1>2, <1>3, WorkerFrame
<1>5. w \in Thread /\ c # None BY DEF Thread, LoopAssumption
<1>6. /\ run' \in [Thread -> Coroutine \cup {None}]
      /\ co' \in [Coroutine -> Suspended \cup {"new", "running", "awaiting", "done"}]
      /\ wpc' \in [Worker -> {"idle", "resume", "notify", "nop", "crashed"}]
  BY <1>2, <1>5 DEF Types
<1>7. Types' BY <1>2, <1>6 DEF Types
<1>8. /\ co'[c] = "running" /\ \A d \in Coroutine \ {c} : co'[d] = co[d]
      /\ run'[w] = c /\ \A t \in Thread \ {w} : run'[t] = run[t]
      /\ wpc'[w] = "notify" /\ \A v \in Worker \ {w} : wpc'[v] = wpc[v]
  BY <1>2, <1>5 DEF Types
<1>9. run[w] = None /\ ring[w] = "out"
  <2>1. run[w] = None BY <1>2 DEF RunInv
  <2>2. QED BY <1>2, <1>5, <2>1 DEF RunInv
<1>10. \A t \in Thread : run[t] # c BY <1>1, <1>5 DEF RunInv
<1>11. FutureInv'
  <2>1. c \notin futures BY <1>1, <1>2 DEF FutureInv, With
  <2>2. \A v \in Worker \ {w} : wpc[v] = "resume" => wco[v] # c
    BY <1>1, <1>2 DEF FutureInv, With
  <2>3. \A d \in futures' : co'[d] \in {"awaiting", "future"} /\ ~\E v \in Worker : With(v, d)'
    BY <1>2, <1>8, <2>1 DEF FutureInv, With, Types
  <2>4. ASSUME NEW v \in Worker, wpc'[v] = "resume"
        PROVE  wco'[v] \in Coroutine /\ co'[wco'[v]] \in {"awaiting", "future"}
    <3>1. v # w /\ wpc[v] = "resume" /\ wco'[v] = wco[v] BY <1>2, <1>8, <2>4
    <3>2. wco[v] \in Coroutine /\ co[wco[v]] \in {"awaiting", "future"} /\ wco[v] # c
      BY <2>2, <3>1 DEF FutureInv
    <3>3. QED BY <1>8, <3>1, <3>2
  <2>5. \A u, v \in Worker : wpc'[u] = "resume" /\ wpc'[v] = "resume" /\ wco'[v] = wco'[u] => u = v
    BY <1>2, <1>8 DEF FutureInv, With
  <2>6. ASSUME NEW d \in Coroutine, co'[d] \in {"awaiting", "future"}
        PROVE  \/ d \in futures'
               \/ \E v \in Worker : With(v, d)'
               \/ co'[d] = "awaiting" /\ Crashed'
    <3>1. d # c /\ co'[d] = co[d] BY <1>8, <2>6
    <3>2. d \in futures \/ \E v \in Worker : With(v, d) BY <1>2, <2>6, <3>1 DEF FutureInv
    <3>3. \A v \in Worker : With(v, d) => With(v, d)' BY <1>1, <1>2, <1>8, <3>1 DEF With
    <3>4. QED BY <1>2, <3>2, <3>3
  <2>7. QED BY <2>3, <2>4, <2>5, <2>6 DEF FutureInv, With
<1>12. RunInv'
  <2>1. \A t \in Thread : run[t] # None => run[t] \in Coroutine BY DEF Types
  <2>2. \A t \in Thread : run'[t] # None => co'[run'[t]] \in {"running", "awaiting"}
    BY <1>8, <1>10, <2>1 DEF RunInv
  <2>3. \A t, u \in Thread : run'[t] = run'[u] /\ run'[t] # None => t = u
    BY <1>8, <1>10 DEF RunInv
  <2>4. ASSUME NEW d \in Coroutine, co'[d] \in {"running", "awaiting"}
        PROVE  \E t \in Thread : run'[t] = d
    <3>1. CASE d = c BY <1>5, <1>8, <3>1
    <3>2. CASE d # c
      <4>1. PICK t \in Thread : run[t] = d BY <1>8, <2>4, <3>2 DEF RunInv
      <4>2. t # w
        <5>1. d # None BY DEF LoopAssumption
        <5>2. QED BY <1>9, <4>1, <5>1
      <4>3. QED BY <1>8, <4>1, <4>2
    <3>3. QED BY <3>1, <3>2
  <2>5. ASSUME NEW t \in Thread, ring'[t] # "out"
        PROVE  \/ op'[t] = Nop /\ t \in Worker /\ wpc'[t] = "nop"
               \/ op'[t] = run'[t] /\ run'[t] # None /\ co'[run'[t]] = "running"
    <3>1. t # w /\ ring[t] # "out" /\ op'[t] = op[t] /\ run'[t] = run[t]
      BY <1>2, <1>8, <1>9, <2>5
    <3>2. \/ op[t] = Nop /\ t \in Worker /\ wpc[t] = "nop"
          \/ op[t] = run[t] /\ run[t] # None /\ co[run[t]] = "running"
      BY <3>1 DEF RunInv
    <3>3. QED BY <1>8, <1>10, <2>1, <3>1, <3>2
  <2>6. \A v \in Worker : v \in Thread BY DEF Thread
  <2>7. \A v \in Worker : run'[v] # None => wpc'[v] = "notify" BY <1>8, <2>6 DEF RunInv
  <2>8. QED BY <2>2, <2>3, <2>4, <2>5, <2>7 DEF RunInv
<1>13. QED BY <1>4, <1>7, <1>11, <1>12

(* The steps of a worker that neither takes nor resumes a coroutine.       *)
LEMMA OthersKeep ==
  ASSUME EInv, NEW w \in Worker, UNCHANGED <<futures, co>>, ~Crashed,
         \A v \in Worker \ {w} : wpc'[v] = wpc[v] /\ wco'[v] = wco[v],
         wpc[w] # "resume", wpc'[w] # "resume"
  PROVE  FutureInv'
<1> USE DEF EInv
<1>1. \A v \in Worker : \A d : With(v, d)' <=> With(v, d) BY DEF With
<1>2. \A v \in Worker : wpc'[v] = "resume" => wpc[v] = "resume" /\ wco'[v] = wco[v] OBVIOUS
<1>3. \A d \in futures' : co'[d] \in {"awaiting", "future"} /\ ~\E v \in Worker : With(v, d)'
  BY <1>1 DEF FutureInv
<1>4. \A v \in Worker :
        wpc'[v] = "resume" => wco'[v] \in Coroutine /\ co'[wco'[v]] \in {"awaiting", "future"}
  BY <1>2 DEF FutureInv
<1>5. \A u, v \in Worker : wpc'[u] = "resume" /\ wpc'[v] = "resume" /\ wco'[v] = wco'[u] => u = v
  BY <1>2 DEF FutureInv, With
<1>6. \A d \in Coroutine :
        co'[d] \in {"awaiting", "future"} => d \in futures' \/ \E v \in Worker : With(v, d)'
  BY <1>1 DEF FutureInv
<1>7. QED BY <1>3, <1>4, <1>5, <1>6 DEF FutureInv, With

LEMMA ResumeNullKeeps == ASSUME EInv, NEW w \in Worker, ResumeNull(w) PROVE EInv'
<1> USE DEF EInv, timerVars
<1>1. /\ ~Crashed /\ wpc[w] = "resume" /\ wpc' = [wpc EXCEPT ![w] = "crashed"]
      /\ co[wco[w]] = "awaiting"
      /\ UNCHANGED <<now, timerVars, sq, fly, cq, batch, raced, lpc, run, ring, op, seen, co,
                     awaits,
                     futures, wco>>
  BY DEF ResumeNull, WorkerAt, ringVars, sqeVars, loopVars, coVars
<1>2. \A s : Same(s) BY <1>1 DEF Same
<1>3. TimerInv' /\ YieldInv' /\ RingInv' BY <1>1, <1>2, WorkerFrame
<1>4. wpc' \in [Worker -> {"idle", "resume", "notify", "nop", "crashed"}] BY <1>1 DEF Types
<1>5. Types' BY <1>1, <1>4 DEF Types
<1>6. wpc'[w] = "crashed" /\ \A v \in Worker \ {w} : wpc'[v] = wpc[v] BY <1>1 DEF Types
<1>7. FutureInv'
  <2>1. Crashed' BY <1>6 DEF Crashed
  <2>2. \A v \in Worker : \A d : With(v, d)' <=> With(v, d) /\ v # w BY <1>1, <1>6 DEF With
  <2>3. \A d \in futures' : co'[d] \in {"awaiting", "future"} /\ ~\E v \in Worker : With(v, d)'
    BY <1>1, <2>2 DEF FutureInv
  <2>4. \A v \in Worker :
          wpc'[v] = "resume" => wco'[v] \in Coroutine /\ co'[wco'[v]] \in {"awaiting", "future"}
    BY <1>1, <1>6 DEF FutureInv
  <2>5. \A u, v \in Worker : wpc'[u] = "resume" /\ wpc'[v] = "resume" /\ wco'[v] = wco'[u] => u = v
    BY <1>1, <1>6 DEF FutureInv, With
  <2>6. ASSUME NEW d \in Coroutine, co'[d] \in {"awaiting", "future"}
        PROVE  \/ d \in futures'
               \/ \E v \in Worker : With(v, d)'
               \/ co'[d] = "awaiting" /\ Crashed'
    <3>1. d \in futures \/ \E v \in Worker : With(v, d) BY <1>1, <2>6 DEF FutureInv
    <3>2. CASE With(w, d)
      <4>1. co'[d] = "awaiting" BY <1>1, <3>2 DEF With
      <4>2. QED BY <2>1, <4>1
    <3>3. CASE ~With(w, d) BY <1>1, <2>2, <3>1, <3>3
    <3>4. QED BY <3>2, <3>3
  <2>7. QED BY <2>3, <2>4, <2>5, <2>6 DEF FutureInv, With
<1>8. RunInv'
  <2>1. \A v \in Worker : v \in Thread BY DEF Thread
  <2>2. run[w] = None BY <1>1 DEF RunInv
  <2>3. ring[w] = "out" BY <1>1, <2>1, <2>2 DEF RunInv
  <2>4. \A v \in Worker : run[v] # None \/ ring[v] # "out" => wpc'[v] = wpc[v]
    BY <1>6, <2>2, <2>3
  <2>5. QED BY <1>1, <1>2, <2>4, RunFrame
<1>9. QED BY <1>3, <1>5, <1>7, <1>8

LEMMA NotifyKeeps == ASSUME EInv, NEW w \in Worker, NotifyLoop(w) PROVE EInv'
<1> USE DEF EInv, timerVars
<1>1. /\ ~Crashed /\ wpc[w] = "notify" /\ wpc' = [wpc EXCEPT ![w] = "nop"] /\ run[w] = None
      /\ ring' = [ring EXCEPT ![w] = "get"] /\ op' = [op EXCEPT ![w] = Nop]
      /\ UNCHANGED <<now, timerVars, sq, fly, cq, batch, raced, lpc, run, seen, co, awaits,
                     futures, wco>>
  BY DEF NotifyLoop, WorkerAt, ringVars, loopVars, coVars
<1>2. \A s : Same(s) BY <1>1 DEF Same
<1>3. TimerInv' /\ YieldInv' /\ RingInv' BY <1>1, <1>2, WorkerFrame
<1>4. /\ wpc' \in [Worker -> {"idle", "resume", "notify", "nop", "crashed"}]
      /\ ring' \in [Thread -> {"out", "get", "full", "write"}] /\ op' \in [Thread -> Op \cup {None}]
  BY <1>1 DEF Types, Op
<1>5. Types' BY <1>1, <1>4 DEF Types
<1>6. wpc'[w] = "nop" /\ \A v \in Worker \ {w} : wpc'[v] = wpc[v] BY <1>1 DEF Types
<1>7. FutureInv' BY <1>1, <1>6, OthersKeep
<1>8. RunInv'
  <2>1. w \in Thread BY DEF Thread
  <2>2. /\ op'[w] = Nop
        /\ \A t \in Thread \ {w} : op'[t] = op[t] /\ ring'[t] = ring[t]
    BY <1>1, <2>1 DEF Types
  <2>3. \A t \in Thread : ring'[t] # "out" =>
          \/ op'[t] = Nop /\ t \in Worker /\ wpc'[t] = "nop"
          \/ op'[t] = run'[t] /\ run'[t] # None /\ co'[run'[t]] = "running"
    BY <1>1, <1>6, <2>2 DEF RunInv
  <2>4. \A v \in Worker : run'[v] # None => wpc'[v] = "notify" BY <1>1, <1>6 DEF RunInv
  <2>5. QED BY <1>1, <2>3, <2>4 DEF RunInv
<1>9. QED BY <1>3, <1>5, <1>7, <1>8

LEMMA PostKeeps == ASSUME EInv, NEW w \in Worker, PostNop(w) PROVE EInv'
<1> USE DEF EInv, timerVars
<1>1. /\ ~Crashed /\ wpc[w] = "nop" /\ ring[w] = "out" /\ wpc' = [wpc EXCEPT ![w] = "idle"]
      /\ wco' = [wco EXCEPT ![w] = None] /\ SubmitAll
      /\ UNCHANGED <<now, timerVars, cq, batch, raced, lpc, run, ring, op, seen, co, awaits,
                     futures>>
  BY DEF PostNop, WorkerAt, sqeVars, loopVars, coVars
<1>2. \A s : Same(s) BY <1>1 DEF Same
<1>3. /\ \A d \in Coroutine : InRingOf(d)' = InRingOf(d)
      /\ fly' \in [Op -> Nat] /\ sq' \in Seq(Op)
  BY <1>1, SubmitMoves
<1>4. TimerInv' BY <1>1, <1>2, TimerFrame DEF Types
<1>5. YieldInv' BY <1>1, <1>2, YieldFrame
<1>6. RingInv'
  <2>1. lpc' \in {"sub", "batch"} \/ \A d \in Coroutine : batch'[d] = 0 BY <1>1 DEF RingInv
  <2>2. QED BY <1>1, <1>2, <1>3, <2>1, RingFrame
<1>7. /\ wpc' \in [Worker -> {"idle", "resume", "notify", "nop", "crashed"}]
      /\ wco' \in [Worker -> Coroutine \cup {None}]
  BY <1>1 DEF Types
<1>8. Types' BY <1>1, <1>3, <1>7 DEF Types
<1>9. /\ wpc'[w] = "idle" /\ \A v \in Worker \ {w} : wpc'[v] = wpc[v] /\ wco'[v] = wco[v]
  BY <1>1 DEF Types
<1>10. FutureInv' BY <1>1, <1>9, OthersKeep
<1>11. RunInv'
  <2>1. run[w] = None BY <1>1 DEF RunInv
  <2>2. \A v \in Worker : run[v] # None \/ ring[v] # "out" => wpc'[v] = wpc[v]
    BY <1>1, <1>9, <2>1
  <2>3. QED BY <1>1, <1>2, <2>2, RunFrame
<1>12. QED BY <1>4, <1>5, <1>6, <1>8, <1>10, <1>11

LEMMA PostThrowsKeeps == ASSUME EInv, NEW w \in Worker, PostNopThrows(w) PROVE EInv'
<1> USE DEF EInv, timerVars
<1>1. /\ ~Crashed /\ wpc[w] = "nop" /\ wpc' = [wpc EXCEPT ![w] = "idle"]
      /\ wco' = [wco EXCEPT ![w] = None]
      /\ ring' = [ring EXCEPT ![w] = "out"] /\ op' = [op EXCEPT ![w] = None]
      /\ UNCHANGED <<now, timerVars, sq, fly, cq, batch, raced, lpc, run, seen, co, awaits,
                     futures>>
  BY DEF PostNopThrows, WorkerAt, ringVars, loopVars, coVars
<1>2. \A s : Same(s) BY <1>1 DEF Same
<1>3. TimerInv' /\ YieldInv' /\ RingInv' BY <1>1, <1>2, WorkerFrame
<1>4. /\ wpc' \in [Worker -> {"idle", "resume", "notify", "nop", "crashed"}]
      /\ wco' \in [Worker -> Coroutine \cup {None}]
      /\ ring' \in [Thread -> {"out", "get", "full", "write"}] /\ op' \in [Thread -> Op \cup {None}]
  BY <1>1 DEF Types
<1>5. Types' BY <1>1, <1>4 DEF Types
<1>6. wpc'[w] = "idle" /\ \A v \in Worker \ {w} : wpc'[v] = wpc[v] /\ wco'[v] = wco[v]
  BY <1>1 DEF Types
<1>7. FutureInv' BY <1>1, <1>6, OthersKeep
<1>8. RunInv'
  <2>1. w \in Thread /\ ring'[w] = "out" BY <1>1 DEF Thread, Types
  <2>2. \A t \in Thread \ {w} : op'[t] = op[t] /\ ring'[t] = ring[t] BY <1>1 DEF Types
  <2>3. \A t \in Thread : ring'[t] # "out" =>
          \/ op'[t] = Nop /\ t \in Worker /\ wpc'[t] = "nop"
          \/ op'[t] = run'[t] /\ run'[t] # None /\ co'[run'[t]] = "running"
    BY <1>1, <1>6, <2>1, <2>2 DEF RunInv
  <2>4. \A v \in Worker : run'[v] # None => wpc'[v] = "notify" BY <1>1, <1>6 DEF RunInv
  <2>5. QED BY <1>1, <2>3, <2>4 DEF RunInv
<1>9. QED BY <1>3, <1>5, <1>7, <1>8

LEMMA CompleteKeeps == ASSUME EInv, NEW o \in Op, Complete(o) PROVE EInv'
<1> USE DEF EInv, timerVars, poolVars
<1>1. /\ fly[o] > 0 /\ fly' = [fly EXCEPT ![o] = @ - 1] /\ cq' = [cq EXCEPT ![o] = @ + 1]
      /\ UNCHANGED <<now, timerVars, sq, batch, raced, lpc, run, ring, op, seen, co, awaits,
                     poolVars>>
  BY DEF Complete, sqeVars, loopVars, coVars
<1>2. TimerInv' /\ YieldInv' /\ FutureInv' /\ \A s : Same(s) BY <1>1, StillFrame
<1>3. fly' \in [Op -> Nat] /\ cq' \in [Op -> Nat] BY <1>1 DEF Types
<1>4. Types' BY <1>1, <1>3 DEF Types
<1>5. ASSUME NEW d \in Coroutine PROVE InRingOf(d)' = InRingOf(d)
  <2>1. fly'[d] + cq'[d] = fly[d] + cq[d]
    <3>1. fly[d] \in Nat /\ cq[d] \in Nat /\ d \in Op BY Counts DEF Op
    <3>2. CASE d = o BY <1>1, <3>1, <3>2 DEF Types
    <3>3. CASE d # o BY <1>1, <3>1, <3>3 DEF Types
    <3>4. QED BY <3>2, <3>3
  <2>2. /\ Count(sq, d) \in Nat /\ batch[d] \in Nat /\ fly[d] \in Nat /\ cq[d] \in Nat
    BY Counts
  <2>3. fly'[d] \in Nat /\ cq'[d] \in Nat BY <1>3 DEF Op
  <2>4. InRingOf(d)' = Count(sq, d) + fly'[d] + cq'[d] + batch[d] BY <1>1 DEF InRingOf
  <2>5. InRingOf(d) = Count(sq, d) + fly[d] + cq[d] + batch[d] BY DEF InRingOf
  <2>6. QED BY <2>1, <2>2, <2>3, <2>4, <2>5
<1>6. RingInv'
  <2>1. lpc' \in {"sub", "batch"} \/ \A d \in Coroutine : batch'[d] = 0 BY <1>1 DEF RingInv
  <2>2. QED BY <1>1, <1>2, <1>5, <2>1, RingFrame
<1>7. RunInv' BY <1>1, <1>2, RunFrame
<1>8. QED BY <1>2, <1>4, <1>6, <1>7

-----------------------------------------------------------------------------

LEMMA NextKeepsEInv == EInv /\ [Next]_vars => EInv'
<1> SUFFICES ASSUME EInv, [Next]_vars PROVE EInv'
  OBVIOUS
<1>1. CASE \E c \in Coroutine : Start(c) \/ TrySync(c)
  BY <1>1, StartKeeps, TrySyncKeeps
<1>2. CASE BeginRun \/ Interrupted \/ Tick \/ UNCHANGED vars BY <1>2, GoesKeeps DEF Goes
<1>3. CASE LoopStep
  <2>1. CASE TimerResume BY <2>1, TimerResumeKeeps
  <2>2. CASE TimerErase BY <2>2, TimerEraseKeeps
  <2>3. CASE YieldResume BY <2>3, YieldResumeKeeps
  <2>4. CASE YieldPop BY <2>4, YieldPopKeeps
  <2>5. CASE Drive BY <2>5, DriveKeeps
  <2>6. CASE Collect BY <2>6, CollectKeeps
  <2>7. CASE BatchResume BY <2>7, BatchResumeKeeps
  <2>8. CASE Goes BY <2>8, GoesKeeps
  <2>9. QED BY <1>3, <2>1, <2>2, <2>3, <2>4, <2>5, <2>6, <2>7, <2>8 DEF LoopStep, Goes
<1>4. CASE \E t \in Thread : CoroutineStep(t)
  <2>1. PICK t \in Thread : CoroutineStep(t) BY <1>4
  <2>2. CASE SqeStep(t)
    BY <2>2, SqeReadKeeps, SqeFullKeeps, SqeThrowsKeeps, SqeWriteKeeps DEF SqeStep
  <2>3. ASSUME NEW c \in Coroutine,
               \/ AwaitTimer(t, c) \/ AwaitYield(t, c) \/ AwaitAio(t, c)
               \/ AwaitFuture(t, c) \/ StoreCoroutine(t, c) \/ Finish(t, c)
        PROVE  EInv'
    BY <2>3, AwaitTimerKeeps, AwaitYieldKeeps, AwaitAioKeeps, AwaitFutureKeeps, StoreKeeps,
       FinishKeeps
  <2>4. QED BY <2>1, <2>2, <2>3 DEF CoroutineStep
<1>5. CASE \E w \in Worker : WorkerStep(w)
  BY <1>5, TakeKeeps, ResumeOnWorkerKeeps, ResumeNullKeeps, NotifyKeeps, PostKeeps,
     PostThrowsKeeps DEF WorkerStep
<1>6. CASE \E o \in Op : Complete(o) BY <1>6, CompleteKeeps
<1>7. QED BY <1>1, <1>2, <1>3, <1>4, <1>5, <1>6 DEF Next

(* Whatever the coroutines do, each is where its state says, in one place. *)
THEOREM SourcesInvariant == Spec => []EInv
<1>1. EInv /\ [Next]_vars => EInv' BY NextKeepsEInv
<1>2. QED BY <1>1, InitEInv, PTL DEF Spec

-----------------------------------------------------------------------------
(* One source. *)

LEMMA WithCard ==
  ASSUME EInv, NEW c \in Coroutine
  PROVE  LET ws == Cardinality({w \in Worker : wco[w] = c /\ wpc[w] = "resume"})
             q == IF c \in futures THEN 1 ELSE 0
         IN /\ co[c] \notin {"awaiting", "future"} => ws + q = 0
            /\ co[c] = "future" => ws + q = 1
<1> USE DEF EInv
<1> DEFINE W == {w \in Worker : wco[w] = c /\ wpc[w] = "resume"}
           q == IF c \in futures THEN 1 ELSE 0
           Goal == /\ co[c] \notin {"awaiting", "future"} => Cardinality(W) + q = 0
                   /\ co[c] = "future" => Cardinality(W) + q = 1
<1> SUFFICES Goal
  OBVIOUS
<1>1. CASE co[c] \notin {"awaiting", "future"}
  <2>1. W = {} /\ c \notin futures BY <1>1 DEF FutureInv
  <2>2. Cardinality(W) = 0 BY <2>1, FS_EmptySet
  <2> HIDE DEF W
  <2>3. QED BY <1>1, <2>1, <2>2
<1>2. CASE co[c] = "future"
  <2>1. CASE c \in futures
    <3>1. W = {} BY <2>1 DEF FutureInv, With
    <3>2. Cardinality(W) = 0 BY <3>1, FS_EmptySet
    <3> HIDE DEF W
    <3>3. QED BY <1>2, <2>1, <3>2
  <2>2. CASE c \notin futures
    <3>1. PICK w \in Worker : With(w, c) BY <1>2, <2>2 DEF FutureInv
    <3>2. \A v \in W : v = w BY <3>1 DEF FutureInv, With
    <3>3. W = {w} BY <3>1, <3>2 DEF With
    <3>4. Cardinality(W) = 1 BY <3>3, FS_Singleton
    <3> HIDE DEF W
    <3>5. QED BY <1>2, <2>2, <3>4
  <2>3. QED BY <2>1, <2>2
<1>3. CASE co[c] = "awaiting" BY <1>3
<1>4. QED BY <1>1, <1>2, <1>3

LEMMA EInvOneSource == EInv => OneSource
<1> SUFFICES ASSUME EInv, NEW c \in Coroutine
             PROVE  /\ co[c] \in Suspended =>
                         Sources(c) = 1 \/ (raced /\ co[c] = "aio" /\ Sources(c) = 0)
                    /\ co[c] \in {"new", "running", "done"} => Sources(c) = 0
                    /\ Cardinality({t \in Thread : run[t] = c}) =
                         IF co[c] \in {"running", "awaiting"} THEN 1 ELSE 0
  BY DEF OneSource
<1> USE DEF EInv
<1> DEFINE tm == Cardinality(TimersOf(c))
           ws == Cardinality({w \in Worker : wco[w] = c /\ wpc[w] = "resume"})
           q == IF c \in futures THEN 1 ELSE 0
<1>1. tm = IF co[c] = "timer" THEN 1 ELSE 0
  <2>1. CASE co[c] = "timer"
    <3>1. \E e \in timerTree : TimersOf(c) = {e} BY <2>1 DEF TimerInv
    <3>2. QED BY <2>1, <3>1, FS_Singleton
  <2>2. CASE co[c] # "timer"
    <3>1. TimersOf(c) = {} BY <2>2 DEF TimerInv
    <3>2. QED BY <2>2, <3>1, FS_EmptySet
  <2>3. QED BY <2>1, <2>2
<1>2. YieldsOf(c) = IF co[c] = "yield" THEN 1 ELSE 0 BY DEF YieldInv
<1>3. /\ co[c] = "aio" => InRingOf(c) = 1 \/ (raced /\ InRingOf(c) = 0)
      /\ co[c] # "aio" => InRingOf(c) = 0
  BY DEF RingInv
<1>4. /\ co[c] \notin {"awaiting", "future"} => ws + q = 0
      /\ co[c] = "future" => ws + q = 1
  BY WithCard
<1>5. ws \in Nat /\ q \in Nat
  <2>1. {w \in Worker : wco[w] = c /\ wpc[w] = "resume"} \in SUBSET Worker OBVIOUS
  <2>2. ws \in Nat BY <2>1, FS_Subset, FS_CardinalityType DEF LoopAssumption
  <2>3. QED BY <2>2
<1>6. Sources(c) = tm + YieldsOf(c) + InRingOf(c) + (ws + q)
  <2>1. tm \in Nat BY <1>1
  <2>2. /\ Count(sq, c) \in Nat /\ fly[c] \in Nat /\ cq[c] \in Nat /\ batch[c] \in Nat
        /\ Count(yieldQueue, c) \in Nat
    BY Counts
  <2> DEFINE back == IF lpc = "yieldBack" /\ Head(yieldQueue) = c THEN 1 ELSE 0
             yq == Count(yieldQueue, c)
             sn == Count(sq, c)
  <2>3. Sources(c) = tm + yq - back + sn + fly[c] + cq[c] + batch[c] + ws + q
    BY DEF Sources, TimersOf
  <2>4. YieldsOf(c) = yq - back BY DEF YieldsOf
  <2>5. InRingOf(c) = sn + fly[c] + cq[c] + batch[c] BY DEF InRingOf
  <2>6. back \in Int OBVIOUS
  <2>7. PICK i \in Nat : i = fly[c] BY <2>2
  <2>8. PICK j \in Nat : j = cq[c] BY <2>2
  <2>9. PICK k \in Nat : k = batch[c] BY <2>2
  <2>10. yq \in Nat /\ sn \in Nat BY <2>2
  <2> HIDE DEF tm, ws, q, back, yq, sn
  <2>11. QED BY <1>5, <2>1, <2>3, <2>4, <2>5, <2>6, <2>7, <2>8, <2>9, <2>10
<1> HIDE DEF tm, ws, q
<1>7. co[c] \in Suspended =>
        Sources(c) = 1 \/ (raced /\ co[c] = "aio" /\ Sources(c) = 0)
  <2>1. CASE co[c] = "timer" BY <1>1, <1>2, <1>3, <1>4, <1>6, <2>1
  <2>2. CASE co[c] = "yield" BY <1>1, <1>2, <1>3, <1>4, <1>6, <2>2
  <2>3. CASE co[c] = "aio"
    <3>1. CASE InRingOf(c) = 1 BY <1>1, <1>2, <1>4, <1>6, <2>3, <3>1
    <3>2. CASE InRingOf(c) # 1
      <4>1. raced /\ InRingOf(c) = 0 BY <1>3, <2>3, <3>2
      <4>2. Sources(c) = 0 BY <1>1, <1>2, <1>4, <1>6, <2>3, <4>1
      <4>3. QED BY <2>3, <4>1, <4>2
    <3>3. QED BY <3>1, <3>2
  <2>4. CASE co[c] = "future" BY <1>1, <1>2, <1>3, <1>4, <1>6, <2>4
  <2>5. QED BY <2>1, <2>2, <2>3, <2>4 DEF Suspended
<1>8. co[c] \in {"new", "running", "done"} => Sources(c) = 0
  BY <1>1, <1>2, <1>3, <1>4, <1>6
<1>9. Cardinality({t \in Thread : run[t] = c}) = IF co[c] \in {"running", "awaiting"} THEN 1 ELSE 0
  <2> DEFINE R == {t \in Thread : run[t] = c}
  <2>1. c # None BY DEF LoopAssumption
  <2>2. CASE co[c] \in {"running", "awaiting"}
    <3>1. PICK t \in Thread : run[t] = c BY <2>2 DEF RunInv
    <3>2. \A u \in R : u = t BY <2>1, <3>1 DEF RunInv
    <3>3. R = {t} BY <3>1, <3>2
    <3>4. QED BY <2>2, <3>3, FS_Singleton
  <2>3. CASE co[c] \notin {"running", "awaiting"}
    <3>1. R = {} BY <2>1, <2>3 DEF RunInv
    <3>2. QED BY <2>3, <3>1, FS_EmptySet
  <2>4. QED BY <2>2, <2>3
<1>10. QED BY <1>7, <1>8, <1>9

(* A suspended coroutine is due to be resumed by exactly one source: by    *)
(* its entry in the tree, its place in the yield queue, its operation or   *)
(* its continuation; a running one by none, and it runs on one thread.     *)
THEOREM ResumedByOne == Spec => []OneSource
BY SourcesInvariant, EInvOneSource, PTL

-----------------------------------------------------------------------------
(* The thread controller. *)

Holding == {w \in Worker : wpc[w] \in {"resume", "notify", "crashed"}}

LEMMA HoldingFinite ==
  ASSUME EInv
  PROVE  /\ IsFiniteSet(futures) /\ IsFiniteSet(Holding)
         /\ Cardinality(futures) \in Nat /\ Cardinality(Holding) \in Nat
<1>1. futures \in SUBSET Coroutine BY DEF EInv, Types
<1>2. Holding \in SUBSET Worker BY DEF Holding
<1>3. IsFiniteSet(Coroutine) /\ IsFiniteSet(Worker) BY DEF LoopAssumption
<1>4. IsFiniteSet(futures) /\ IsFiniteSet(Holding) BY <1>1, <1>2, <1>3, FS_Subset
<1>5. QED BY <1>4, FS_CardinalityType

LEMMA KeepsThreadTasks == EInv /\ ThreadTasksExact /\ [Next]_vars => ThreadTasksExact'
<1> SUFFICES ASSUME EInv, ThreadTasksExact, [Next]_vars PROVE ThreadTasksExact'
  OBVIOUS
<1>1. cnt = Cardinality(futures) + Cardinality(Holding) BY DEF ThreadTasksExact, Holding
<1>2. /\ IsFiniteSet(futures) /\ IsFiniteSet(Holding)
      /\ Cardinality(futures) \in Nat /\ Cardinality(Holding) \in Nat
  BY HoldingFinite
<1>3. SUFFICES cnt' = Cardinality(futures') + Cardinality(Holding')
  BY DEF ThreadTasksExact, Holding
<1>4. wpc \in [Worker -> {"idle", "resume", "notify", "nop", "crashed"}] BY DEF EInv, Types
<1> DEFINE F == Cardinality(futures)
           H == Cardinality(Holding)
<1>5. CASE UNCHANGED <<cnt, futures, wpc>> BY <1>1, <1>5 DEF Holding
<1>6. ASSUME NEW t \in Thread, NEW c \in Coroutine, AwaitFuture(t, c)
      PROVE  cnt' = Cardinality(futures') + Cardinality(Holding')
  <2>1. cnt' = cnt + 1 /\ futures' = futures \cup {c} /\ wpc' = wpc /\ Running(t, c)
    BY <1>6 DEF AwaitFuture, Awaits
  <2>2. c \notin futures BY <2>1, RunningFacts
  <2>3. Cardinality(futures') = F + 1 BY <1>2, <2>1, <2>2, FS_AddElement
  <2>4. Holding' = Holding BY <2>1 DEF Holding
  <2> HIDE DEF F, H
  <2>5. QED BY <1>1, <1>2, <2>1, <2>3, <2>4 DEF F
<1>7. ASSUME NEW w \in Worker, NEW c \in Coroutine, Take(w, c)
      PROVE  cnt' = Cardinality(futures') + Cardinality(Holding')
  <2>1. /\ cnt' = cnt /\ c \in futures /\ futures' = futures \ {c}
        /\ wpc[w] = "idle" /\ wpc' = [wpc EXCEPT ![w] = "resume"]
    BY <1>7 DEF Take, WorkerAt
  <2>2. Cardinality(futures') = F - 1 BY <1>2, <2>1, FS_RemoveElement
  <2>3. w \notin Holding /\ Holding' = Holding \cup {w} BY <1>4, <2>1 DEF Holding
  <2>4. Cardinality(Holding') = H + 1 BY <1>2, <2>3, FS_AddElement
  <2>5. F \in Nat /\ H \in Nat /\ cnt = F + H BY <1>1, <1>2
  <2> HIDE DEF F, H
  <2>6. QED BY <2>1, <2>2, <2>4, <2>5
<1>8. ASSUME NEW w \in Worker, NotifyLoop(w)
      PROVE  cnt' = Cardinality(futures') + Cardinality(Holding')
  <2>1. /\ cnt' = cnt - 1 /\ futures' = futures
        /\ wpc[w] = "notify" /\ wpc' = [wpc EXCEPT ![w] = "nop"]
    BY <1>8 DEF NotifyLoop, WorkerAt
  <2>2. w \in Holding /\ Holding' = Holding \ {w} BY <1>4, <2>1 DEF Holding
  <2>3. Cardinality(Holding') = H - 1 BY <1>2, <2>2, FS_RemoveElement
  <2>4. F \in Nat /\ H \in Nat /\ cnt = F + H /\ Cardinality(futures') = F BY <1>1, <1>2, <2>1
  <2> HIDE DEF F, H
  <2>5. QED BY <2>1, <2>3, <2>4
<1>9. ASSUME NEW w \in Worker, ResumeOnWorker(w) \/ ResumeNull(w) \/ PostNop(w) \/ PostNopThrows(w)
      PROVE  cnt' = Cardinality(futures') + Cardinality(Holding')
  <2>1. /\ cnt' = cnt /\ futures' = futures
        /\ \/ wpc[w] = "resume" /\ wpc' = [wpc EXCEPT ![w] = "notify"]
           \/ wpc[w] = "resume" /\ wpc' = [wpc EXCEPT ![w] = "crashed"]
           \/ wpc[w] = "nop" /\ wpc' = [wpc EXCEPT ![w] = "idle"]
    BY <1>9 DEF ResumeOnWorker, ResumeNull, PostNop, PostNopThrows, WorkerAt
  <2>2. Holding' = Holding BY <1>4, <2>1 DEF Holding
  <2>3. QED BY <1>1, <2>1, <2>2
<1>10. CASE UNCHANGED vars BY <1>5, <1>10 DEF vars, poolVars
<1>11. CASE \E c \in Coroutine : Start(c) \/ TrySync(c)
  BY <1>5, <1>11 DEF Start, TrySync, poolVars
<1>12. CASE BeginRun \/ LoopStep \/ Interrupted
  BY <1>5, <1>12 DEF BeginRun, LoopStep, Interrupted, TimerResume, TimerErase, TimerWait, TimersDone,
     YieldResume, YieldPop, YieldsDone, Drive, NoDrive, WakeUp, Collect, Subtract, BatchResume,
     BatchDone, Return, ThreadWait, ThreadWake, poolVars
<1>13. CASE \E t \in Thread : CoroutineStep(t)
  <2>1. PICK t \in Thread : CoroutineStep(t) BY <1>13
  <2>2. CASE SqeStep(t)
    BY <1>5, <2>2 DEF SqeStep, SqeRead, SqeFull, SqeThrows, SqeWrite, SqeFrame, poolVars
  <2>3. ASSUME NEW c \in Coroutine,
               \/ AwaitTimer(t, c) \/ AwaitYield(t, c) \/ AwaitAio(t, c)
               \/ StoreCoroutine(t, c) \/ Finish(t, c)
        PROVE  UNCHANGED <<cnt, futures, wpc>>
    BY <2>3 DEF AwaitTimer, AwaitYield, AwaitAio, StoreCoroutine, Finish, poolVars
  <2>4. QED BY <1>5, <1>6, <2>1, <2>2, <2>3 DEF CoroutineStep
<1>14. CASE \E w \in Worker : WorkerStep(w) BY <1>7, <1>8, <1>9, <1>14 DEF WorkerStep
<1>15. CASE (\E o \in Op : Complete(o)) \/ Tick BY <1>5, <1>15 DEF Complete, Tick, poolVars
<1>16. QED BY <1>10, <1>11, <1>12, <1>13, <1>14, <1>15 DEF Next

(* _threadTaskCnt is the number of controllers that have not notified:     *)
(* run() neither returns while one is outstanding nor waits for one that   *)
(* is gone.                                                                *)
THEOREM ControllersCounted == Spec => []ThreadTasksExact
<1>1. Init => ThreadTasksExact
  <2> SUFFICES ASSUME Init PROVE ThreadTasksExact
    OBVIOUS
  <2>1. cnt = 0 /\ futures = {} BY DEF Init
  <2>2. {w \in Worker : wpc[w] \in {"resume", "notify", "crashed"}} = {} BY DEF Init
  <2>3. QED BY <2>1, <2>2, FS_EmptySet DEF ThreadTasksExact
<1>2. EInv /\ ThreadTasksExact /\ [Next]_vars => ThreadTasksExact' BY KeepsThreadTasks
<1>3. QED BY <1>1, <1>2, SourcesInvariant, PTL DEF Spec

-----------------------------------------------------------------------------
(* How many operations a bag holds. *)

Slots(bag) == UNION {{o} \X (1..bag[o]) : o \in DOMAIN bag}

LEMMA SlotIn ==
  ASSUME NEW S, NEW bag \in [S -> Nat], NEW o, NEW i
  PROVE  <<o, i>> \in Slots(bag) <=> o \in S /\ i \in 1..bag[o]
BY DEF Slots

LEMMA SlotsPairs ==
  ASSUME NEW S, NEW bag \in [S -> Nat], NEW p \in Slots(bag)
  PROVE  \E o \in S : \E i \in 1..bag[o] : p = <<o, i>>
BY DEF Slots

LEMMA SlotsFinite ==
  ASSUME NEW S, IsFiniteSet(S), NEW bag \in [S -> Nat]
  PROVE  IsFiniteSet(Slots(bag)) /\ Size(bag) = Cardinality(Slots(bag)) /\ Size(bag) \in Nat
<1> DEFINE Row(o) == {o} \X (1..bag[o])
           Rows == {Row(o) : o \in S}
           f == [o \in S |-> Row(o)]
<1>1. DOMAIN bag = S OBVIOUS
<1>2. f \in Surjection(S, Rows) BY DEF Surjection
<1>3. IsFiniteSet(Rows) BY <1>2, FS_Surjection
<1>4. ASSUME NEW o \in S PROVE IsFiniteSet(Row(o))
  <2>1. IsFiniteSet({o}) BY FS_Singleton
  <2>2. IsFiniteSet(1..bag[o]) BY FS_Interval
  <2>3. QED BY <2>1, <2>2, FS_Product
<1>5. \A R \in Rows : IsFiniteSet(R) BY <1>4
<1>6. Slots(bag) = UNION Rows BY <1>1 DEF Slots
<1> HIDE DEF Rows
<1>7. IsFiniteSet(Slots(bag)) BY <1>3, <1>5, <1>6, FS_UNION
<1>8. Size(bag) = Cardinality(Slots(bag)) BY DEF Size, Slots
<1>9. QED BY <1>7, <1>8, FS_CardinalityType

LEMMA SizeEmpty ==
  ASSUME NEW S, IsFiniteSet(S), NEW bag \in [S -> Nat]
  PROVE  Size(bag) = 0 <=> \A o \in S : bag[o] = 0
<1>1. IsFiniteSet(Slots(bag)) /\ Size(bag) = Cardinality(Slots(bag)) BY SlotsFinite
<1>2. Size(bag) = 0 <=> Slots(bag) = {} BY <1>1, FS_EmptySet
<1>3. ASSUME NEW o \in S, bag[o] # 0 PROVE Slots(bag) # {}
  <2>1. 1 \in 1..bag[o] BY <1>3
  <2>2. <<o, 1>> \in Slots(bag) BY <2>1, SlotIn
  <2>3. QED BY <2>2
<1>4. ASSUME \A o \in S : bag[o] = 0, Slots(bag) # {} PROVE FALSE
  <2>1. PICK p : p \in Slots(bag) BY <1>4
  <2>2. PICK o \in S : \E i \in 1..bag[o] : p = <<o, i>> BY <2>1, SlotsPairs
  <2>3. QED BY <1>4, <2>2
<1>5. QED BY <1>2, <1>3, <1>4

(* One more of o.                                                          *)
LEMMA SizeMore ==
  ASSUME NEW S, IsFiniteSet(S), NEW bag \in [S -> Nat], NEW o \in S
  PROVE  /\ [bag EXCEPT ![o] = @ + 1] \in [S -> Nat]
         /\ Size([bag EXCEPT ![o] = @ + 1]) = Size(bag) + 1
<1> DEFINE more == [bag EXCEPT ![o] = @ + 1]
           slot == <<o, bag[o] + 1>>
<1>1. more \in [S -> Nat] /\ more[o] = bag[o] + 1 /\ \A p \in S \ {o} : more[p] = bag[p]
  OBVIOUS
<1> HIDE DEF more
<1>2. slot \notin Slots(bag)
  <2>1. ~(bag[o] + 1 \in 1..bag[o]) OBVIOUS
  <2>2. QED BY <2>1, SlotIn
<1>3. ASSUME NEW p PROVE p \in Slots(more) <=> p \in Slots(bag) \cup {slot}
  <2>1. ASSUME p \in Slots(more) PROVE p \in Slots(bag) \cup {slot}
    <3>1. PICK q \in S : \E i \in 1..more[q] : p = <<q, i>> BY <1>1, <2>1, SlotsPairs
    <3>2. PICK i \in 1..more[q] : p = <<q, i>> BY <3>1
    <3>3. CASE q = o /\ i = bag[o] + 1 BY <3>2, <3>3
    <3>4. CASE ~(q = o /\ i = bag[o] + 1)
      <4>1. i \in 1..bag[q] BY <1>1, <3>2, <3>4
      <4>2. <<q, i>> \in Slots(bag) BY <4>1, SlotIn
      <4>3. QED BY <3>2, <4>2
    <3>5. QED BY <3>3, <3>4
  <2>2. ASSUME p \in Slots(bag) PROVE p \in Slots(more)
    <3>1. PICK q \in S : \E i \in 1..bag[q] : p = <<q, i>> BY <2>2, SlotsPairs
    <3>2. PICK i \in 1..bag[q] : p = <<q, i>> BY <3>1
    <3>3. i \in 1..more[q] BY <1>1, <3>2
    <3>4. QED BY <1>1, <3>2, <3>3, SlotIn
  <2>3. slot \in Slots(more)
    <3>1. bag[o] + 1 \in 1..more[o] BY <1>1
    <3>2. QED BY <1>1, <3>1, SlotIn
  <2>4. QED BY <2>1, <2>2, <2>3
<1>4. Slots(more) = Slots(bag) \cup {slot} BY <1>3
<1>5. IsFiniteSet(Slots(bag)) /\ Size(bag) = Cardinality(Slots(bag)) BY SlotsFinite
<1>6. Size(more) = Cardinality(Slots(more)) BY <1>1, SlotsFinite
<1>7. Cardinality(Slots(bag) \cup {slot}) = Cardinality(Slots(bag)) + 1
  BY <1>2, <1>5, FS_AddElement
<1>8. QED BY <1>1, <1>4, <1>5, <1>6, <1>7 DEF more

(* One less of o.                                                          *)
LEMMA SizeLess ==
  ASSUME NEW S, IsFiniteSet(S), NEW bag \in [S -> Nat], NEW o \in S, bag[o] > 0
  PROVE  /\ [bag EXCEPT ![o] = @ - 1] \in [S -> Nat]
         /\ Size([bag EXCEPT ![o] = @ - 1]) = Size(bag) - 1
<1> DEFINE less == [bag EXCEPT ![o] = @ - 1]
<1>1. less \in [S -> Nat] /\ less[o] = bag[o] - 1 OBVIOUS
<1>2. [less EXCEPT ![o] = @ + 1] = bag
  <2>1. \A p \in S : [less EXCEPT ![o] = @ + 1][p] = bag[p] OBVIOUS
  <2>2. [less EXCEPT ![o] = @ + 1] \in [S -> Nat] BY <1>1
  <2> HIDE DEF less
  <2>3. QED BY <2>1, <2>2
<1> HIDE DEF less
<1>3. Size([less EXCEPT ![o] = @ + 1]) = Size(less) + 1 BY <1>1, SizeMore
<1>4. Size(less) \in Nat BY <1>1, SlotsFinite
<1>5. QED BY <1>1, <1>2, <1>3, <1>4 DEF less

(* The entries of a queue are handed over one by one: a shortest queue     *)
(* that added another number would have a shorter one before its last.     *)
LEMMA SizeAdd ==
  ASSUME NEW S, IsFiniteSet(S), NEW bag \in [S -> Nat], NEW s \in Seq(S)
  PROVE  /\ [o \in S |-> bag[o] + Count(s, o)] \in [S -> Nat]
         /\ Size([o \in S |-> bag[o] + Count(s, o)]) = Size(bag) + Len(s)
<1> DEFINE With1(q) == [o \in S |-> bag[o] + Count(q, o)]
           Bad == {n \in Nat : \E q \in Seq(S) : Len(q) = n /\ Size(With1(q)) # Size(bag) + n}
           R == OpToRel(<, Nat)
<1>1. ASSUME NEW q \in Seq(S) PROVE With1(q) \in [S -> Nat]
  <2>1. \A o \in S : Count(q, o) \in Nat BY CountType
  <2>2. QED BY <2>1
<1>2. ASSUME Bad # {} PROVE FALSE
  <2>1. \A x, y \in Nat : <<y, x>> \in R <=> y < x BY DEF OpToRel
  <2>2. IsWellFoundedOn(R, Nat) BY NatLessThanWellFounded
  <2>3. Bad \subseteq Nat OBVIOUS
  <2> HIDE DEF R, Bad
  <2>4. PICK n \in Bad : \A m \in Bad : ~(<<m, n>> \in R) BY <1>2, <2>2, <2>3, WFMin
  <2> USE DEF Bad
  <2> HIDE DEF With1
  <2>5. PICK q \in Seq(S) : Len(q) = n /\ Size(With1(q)) # Size(bag) + n BY <2>4
  <2>6. Size(bag) \in Nat BY SlotsFinite
  <2>7. CASE n = 0
    <3>1. q = <<>> BY <2>5, <2>7, EmptySeq
    <3>2. \A o \in S : Count(q, o) = 0 BY <3>1, CountEmpty
    <3>3. With1(q) = bag BY <3>2 DEF With1
    <3>4. QED BY <2>5, <2>6, <2>7, <3>3
  <2>8. CASE n # 0
    <3> DEFINE p == SubSeq(q, 1, n - 1)
               x == q[n]
    <3>1. n \in Nat /\ n - 1 \in Nat /\ n - 1 \in 0..Len(q) /\ DOMAIN q = 1..n
      BY <2>5, <2>8, LenProperties
    <3>2. p \in Seq(S) /\ Len(p) = n - 1 /\ \A i \in 1..(n - 1) : p[i] = q[i]
      BY <2>5, <3>1, SubSeqProperties
    <3>3. x \in S BY <2>5, <3>1, ElementOfSeq
    <3>4. q = Append(p, x)
      <4>1. Append(p, x) \in Seq(S) /\ Len(Append(p, x)) = n /\ Append(p, x)[n] = x
            /\ \A i \in 1..(n - 1) : Append(p, x)[i] = p[i]
        BY <3>1, <3>2, <3>3, AppendProperties
      <4>2. \A i \in 1..n : Append(p, x)[i] = q[i] BY <3>1, <3>2, <4>1
      <4>3. QED BY <2>5, <4>1, <4>2, SeqEqual
    <3> HIDE DEF p, x
    <3>5. \A o \in S : Count(q, o) = Count(p, o) + (IF x = o THEN 1 ELSE 0)
      BY <3>2, <3>3, <3>4, CountAppend
    <3>6. \A o \in S : Count(p, o) \in Nat BY <3>2, CountType
    <3>7. With1(p) \in [S -> Nat] /\ \A o \in S : With1(p)[o] = bag[o] + Count(p, o)
      BY <1>1, <3>2 DEF With1
    <3>8. With1(q) = [With1(p) EXCEPT ![x] = @ + 1]
      <4>1. ASSUME NEW o \in S PROVE With1(q)[o] = [With1(p) EXCEPT ![x] = @ + 1][o]
        BY <3>5, <3>6, <3>7 DEF With1
      <4>2. QED BY <3>7, <4>1 DEF With1
    <3>9. Size(With1(q)) = Size(With1(p)) + 1
      <4>1. PICK b : b = With1(p) OBVIOUS
      <4>2. b \in [S -> Nat] /\ With1(q) = [b EXCEPT ![x] = @ + 1] BY <3>7, <3>8, <4>1
      <4>3. Size([b EXCEPT ![x] = @ + 1]) = Size(b) + 1 BY <3>3, <4>2, SizeMore
      <4>4. QED BY <4>1, <4>2, <4>3
    <3>10. n - 1 \notin Bad
      <4>1. <<n - 1, n>> \in R BY <2>1, <3>1
      <4>2. QED BY <2>4, <4>1
    <3>11. Size(With1(p)) = Size(bag) + (n - 1) BY <3>1, <3>2, <3>10 DEF With1
    <3>12. QED BY <2>5, <2>6, <3>1, <3>9, <3>11
  <2>9. QED BY <2>7, <2>8
<1>3. Len(s) \in Nat /\ Len(s) \notin Bad BY <1>2, LenProperties
<1>4. Size(With1(s)) = Size(bag) + Len(s) BY <1>3
<1>5. QED BY <1>1, <1>4

-----------------------------------------------------------------------------
(* The operations in the ring. *)

LEMMA OpFinite == IsFiniteSet(Op)
<1>1. IsFiniteSet(Coroutine) BY LoopAssumption DEF LoopAssumption
<1>2. IsFiniteSet(Coroutine \cup {Nop}) BY <1>1, FS_AddElement
<1>3. QED BY <1>2 DEF Op

LEMMA RingNumbers ==
  ASSUME Types
  PROVE  /\ sq \in Seq(Op) /\ fly \in [Op -> Nat] /\ cq \in [Op -> Nat]
         /\ Len(sq) \in Nat /\ Size(fly) \in Nat /\ Size(cq) \in Nat
<1>1. sq \in Seq(Op) /\ fly \in [Op -> Nat] /\ cq \in [Op -> Nat] BY DEF Types
<1>2. Size(fly) \in Nat /\ Size(cq) \in Nat BY <1>1, OpFinite, SlotsFinite
<1>3. QED BY <1>1, <1>2, LenProperties

(* What is inductive: numGot is a number.                                  *)
PendInv == PendingExact /\ numGot \in Nat

LEMMA PendingFrame ==
  ASSUME PendingExact, UNCHANGED <<pend, sq, fly, cq, raced, numGot>>, lpc' = "sub" <=> lpc = "sub"
  PROVE  PendingExact'
BY DEF PendingExact, InRing

LEMMA SubmitKeepsPending ==
  ASSUME EInv, PendingExact, SubmitAll, UNCHANGED <<pend, cq, raced, numGot>>,
         lpc' = "sub" <=> lpc = "sub"
  PROVE  PendingExact'
<1>1. /\ sq \in Seq(Op) /\ fly \in [Op -> Nat] /\ cq \in [Op -> Nat]
      /\ Len(sq) \in Nat /\ Size(fly) \in Nat /\ Size(cq) \in Nat
  BY RingNumbers DEF EInv
<1>2. fly' = [o \in Op |-> fly[o] + Count(sq, o)] /\ sq' = <<>> BY DEF SubmitAll
<1>3. Size(fly') = Size(fly) + Len(sq)
  <2>1. PICK s \in Seq(Op) : s = sq BY <1>1
  <2>2. PICK f \in [Op -> Nat] : f = fly BY <1>1
  <2>3. Size([o \in Op |-> f[o] + Count(s, o)]) = Size(f) + Len(s) BY OpFinite, SizeAdd
  <2>4. QED BY <1>2, <2>1, <2>2, <2>3
<1>4. Len(sq') = 0 BY <1>2, EmptySeq
<1>5. InRing' = InRing
  <2>1. InRing' = Len(sq') + Size(fly') + Size(cq') BY DEF InRing
  <2>2. Size(cq') = Size(cq) OBVIOUS
  <2>3. QED BY <1>1, <1>3, <1>4, <2>1, <2>2 DEF InRing
<1>6. QED BY <1>5 DEF PendingExact

LEMMA CollectKeepsPending == ASSUME EInv, PendingExact, Collect PROVE PendingExact'
<1>1. /\ numGot' = Size(cq) /\ cq' = [o \in Op |-> 0] /\ lpc = "ioWait" /\ lpc' = "sub"
      /\ UNCHANGED <<pend, sq, fly, raced>>
  BY DEF Collect, LoopGoes, NumCompleted
<1>2. /\ Len(sq) \in Nat /\ Size(fly) \in Nat /\ Size(cq) \in Nat BY RingNumbers DEF EInv
<1>3. Size(cq') = 0
  <2>1. PICK f \in [Op -> Nat] : f = cq' BY <1>1
  <2>2. \A o \in Op : f[o] = 0 BY <1>1, <2>1
  <2>3. Size(f) = 0 BY <2>2, OpFinite, SizeEmpty
  <2>4. QED BY <2>1, <2>3
<1>4. InRing' = Len(sq) + Size(fly) + 0
  <2>1. InRing' = Len(sq') + Size(fly') + Size(cq') BY DEF InRing
  <2>2. Len(sq') = Len(sq) /\ Size(fly') = Size(fly) BY <1>1
  <2>3. QED BY <1>3, <2>1, <2>2
<1>5. InRing = Len(sq) + Size(fly) + Size(cq) BY DEF InRing
<1>6. ~raced => pend = InRing
  <2>1. InRing \in Nat BY <1>2, <1>5
  <2>2. QED BY <1>1, <2>1 DEF PendingExact
<1>7. ~raced => pend' = InRing' + numGot'
  <2>1. InRing' + numGot' = InRing BY <1>1, <1>2, <1>4, <1>5
  <2>2. QED BY <1>1, <1>6, <2>1
<1>8. QED BY <1>1, <1>7 DEF PendingExact

LEMMA SubtractKeepsPending == ASSUME EInv, PendingExact, numGot \in Nat, Subtract PROVE PendingExact'
<1>1. /\ lpc = "sub" /\ lpc' = "batch" /\ pend' = reg[Loop] - numGot
      /\ raced' = (raced \/ reg[Loop] # pend) /\ UNCHANGED <<sq, fly, cq>>
  BY DEF Subtract, LoopGoes
<1>2. InRing' = InRing BY <1>1 DEF InRing
<1>3. Len(sq) \in Nat /\ Size(fly) \in Nat /\ Size(cq) \in Nat BY RingNumbers DEF EInv
<1>4. InRing \in Nat BY <1>3 DEF InRing
<1>5. SUFFICES ASSUME ~raced' PROVE pend' = InRing' BY <1>1 DEF PendingExact
<1>6. pend = InRing + numGot /\ reg[Loop] = pend BY <1>1, <1>5 DEF PendingExact
<1>7. pend' = InRing BY <1>1, <1>4, <1>6
<1>8. QED BY <1>2, <1>7

LEMMA CompleteKeepsPending ==
  ASSUME EInv, PendingExact, NEW o \in Op, Complete(o)
  PROVE  PendingExact'
<1>1. /\ fly[o] > 0 /\ fly' = [fly EXCEPT ![o] = @ - 1] /\ cq' = [cq EXCEPT ![o] = @ + 1]
      /\ UNCHANGED <<pend, sq, raced, lpc, numGot>>
  BY DEF Complete, loopVars
<1>2. /\ sq \in Seq(Op) /\ fly \in [Op -> Nat] /\ cq \in [Op -> Nat]
      /\ Len(sq) \in Nat /\ Size(fly) \in Nat /\ Size(cq) \in Nat
  BY RingNumbers DEF EInv
<1>3. Size(fly') = Size(fly) - 1
  <2>1. PICK f \in [Op -> Nat] : f = fly BY <1>2
  <2>2. Size([f EXCEPT ![o] = @ - 1]) = Size(f) - 1 BY <1>1, <2>1, OpFinite, SizeLess
  <2>3. QED BY <1>1, <2>1, <2>2
<1>4. Size(cq') = Size(cq) + 1
  <2>1. PICK f \in [Op -> Nat] : f = cq BY <1>2
  <2>2. Size([f EXCEPT ![o] = @ + 1]) = Size(f) + 1 BY OpFinite, SizeMore
  <2>3. QED BY <1>1, <2>1, <2>2
<1>5. InRing' = InRing
  <2>1. InRing' = Len(sq') + Size(fly') + Size(cq') /\ Len(sq') = Len(sq) BY <1>1 DEF InRing
  <2>2. QED BY <1>2, <1>3, <1>4, <2>1 DEF InRing
<1>6. QED BY <1>1, <1>5 DEF PendingExact

(* A write that found the tail and the counter as it had read them.        *)
LEMMA WriteKeepsPending ==
  ASSUME EInv, PendInv, NEW t \in Thread, SqeWrite(t)
  PROVE  PendingExact'
<1>1. /\ sq' = Written(t) /\ pend' = reg[t] + 1 /\ ring[t] = "write"
      /\ raced' = (raced \/ reg[t] # pend \/ seen[t] # sq)
      /\ UNCHANGED <<fly, cq, lpc, numGot>>
  BY DEF SqeWrite, SqeFrame, loopVars, InSqe
<1>2. /\ sq \in Seq(Op) /\ Len(sq) \in Nat /\ Size(fly) \in Nat /\ Size(cq) \in Nat
      /\ numGot \in Nat
  BY RingNumbers DEF EInv, PendInv
<1>3. SUFFICES ASSUME ~raced' PROVE pend' = InRing' + (IF lpc' = "sub" THEN numGot' ELSE 0)
  BY DEF PendingExact
<1>4. ~raced /\ reg[t] = pend /\ seen[t] = sq BY <1>1, <1>3
<1>5. op[t] \in Op
  <2>1. op[t] = Nop \/ (op[t] = run[t] /\ run[t] # None) BY <1>1 DEF EInv, RunInv
  <2>2. run[t] \in Coroutine \cup {None} BY DEF EInv, Types
  <2>3. QED BY <2>1, <2>2 DEF Op
<1>6. sq' = Append(sq, op[t]) BY <1>1, <1>2, <1>4 DEF Written
<1>7. Len(sq') = Len(sq) + 1 BY <1>2, <1>5, <1>6, AppendProperties
<1>8. InRing' = InRing + 1 /\ InRing \in Nat
  <2>1. InRing' = Len(sq') + Size(fly') + Size(cq') /\ Size(fly') = Size(fly) /\ Size(cq') = Size(cq)
    BY <1>1 DEF InRing
  <2>2. QED BY <1>2, <1>7, <2>1 DEF InRing
<1>9. pend = InRing + (IF lpc = "sub" THEN numGot ELSE 0) BY <1>4 DEF PendInv, PendingExact
<1>10. QED BY <1>1, <1>2, <1>4, <1>8, <1>9

LEMMA LoopKeepsPending ==
  ASSUME EInv, PendInv, BeginRun \/ LoopStep \/ Interrupted
  PROVE  PendInv'
<1> USE DEF PendInv
<1>1. CASE Drive
  <2>1. SubmitAll /\ UNCHANGED <<pend, cq, raced, numGot>> /\ lpc' # "sub" /\ lpc # "sub"
    BY <1>1 DEF Drive, LoopGoes
  <2>2. QED BY <2>1, SubmitKeepsPending
<1>2. CASE Collect
  <2>1. numGot' \in Nat BY <1>2, RingNumbers DEF Collect, NumCompleted, EInv
  <2>2. QED BY <1>2, <2>1, CollectKeepsPending
<1>3. CASE Subtract
  <2>1. numGot' \in Nat BY <1>3 DEF Subtract
  <2>2. QED BY <1>3, <2>1, SubtractKeepsPending
<1>4. CASE BeginRun \/ Interrupted \/ (LoopStep /\ ~Drive /\ ~Collect /\ ~Subtract)
  <2>1. UNCHANGED <<pend, sq, fly, cq, raced, numGot>> /\ lpc' # "sub" /\ lpc # "sub"
    BY <1>4 DEF BeginRun, LoopStep, Interrupted, TimerResume, TimerErase, TimerWait, TimersDone,
       YieldResume, YieldPop, YieldsDone, NoDrive, WakeUp, BatchResume, BatchDone, Return,
       ThreadWait, ThreadWake, LoopGoes, ringVars, loopVars
  <2>2. QED BY <2>1, PendingFrame
<1>5. QED BY <1>1, <1>2, <1>3, <1>4 DEF LoopStep

LEMMA KeepsPending == EInv /\ PendInv /\ [Next]_vars => PendInv'
<1> SUFFICES ASSUME EInv, PendInv, [Next]_vars PROVE PendInv'
  OBVIOUS
<1>1. CASE UNCHANGED <<pend, sq, fly, cq, raced, numGot, lpc>> BY <1>1, PendingFrame DEF PendInv
<1>2. CASE UNCHANGED vars BY <1>1, <1>2 DEF vars, ringVars, loopVars
<1>3. CASE \E c \in Coroutine : Start(c) \/ TrySync(c)
  <2>1. UNCHANGED <<pend, sq, fly, cq, raced, numGot>> /\ lpc' # "sub" /\ lpc # "sub"
    BY <1>3 DEF Start, TrySync, LoopGoes, ringVars, loopVars
  <2>2. QED BY <2>1, PendingFrame DEF PendInv
<1>4. CASE BeginRun \/ LoopStep \/ Interrupted BY <1>4, LoopKeepsPending
<1>5. CASE \E t \in Thread : CoroutineStep(t)
  <2>1. PICK t \in Thread : CoroutineStep(t) BY <1>5
  <2>2. CASE SqeRead(t)
    BY <1>1, <2>2 DEF SqeRead, SqeFrame, loopVars, ringVars
  <2>3. CASE SqeFull(t)
    BY <2>3, SubmitKeepsPending DEF SqeFull, SqeFrame, loopVars, PendInv
  <2>7. CASE SqeThrows(t)
    BY <1>1, <2>7 DEF SqeThrows, SqeFrame, loopVars, ringVars
  <2>4. CASE SqeWrite(t)
    <3>1. numGot' = numGot BY <2>4 DEF SqeWrite, SqeFrame, loopVars
    <3>2. QED BY <2>4, <3>1, WriteKeepsPending DEF PendInv
  <2>5. ASSUME NEW c \in Coroutine,
               \/ AwaitTimer(t, c) \/ AwaitYield(t, c) \/ AwaitAio(t, c)
               \/ AwaitFuture(t, c) \/ StoreCoroutine(t, c) \/ Finish(t, c)
        PROVE  UNCHANGED <<pend, sq, fly, cq, raced, numGot, lpc>>
    BY <2>5 DEF AwaitTimer, AwaitYield, AwaitAio, AwaitFuture, StoreCoroutine, Finish, loopVars,
       ringVars
  <2>6. QED BY <1>1, <2>1, <2>2, <2>3, <2>4, <2>5, <2>7 DEF CoroutineStep, SqeStep
<1>6. CASE \E w \in Worker : WorkerStep(w)
  <2>1. PICK w \in Worker : WorkerStep(w) BY <1>6
  <2>2. CASE PostNop(w) BY <2>2, SubmitKeepsPending DEF PostNop, loopVars, PendInv
  <2>3. CASE ~PostNop(w)
    BY <1>1, <2>1, <2>3 DEF WorkerStep, Take, ResumeOnWorker, ResumeNull, NotifyLoop, PostNopThrows,
       loopVars, ringVars
  <2>4. QED BY <2>2, <2>3
<1>7. CASE \E o \in Op : Complete(o)
  BY <1>7, CompleteKeepsPending DEF Complete, loopVars, PendInv
<1>8. CASE Tick BY <1>1, <1>8 DEF Tick, loopVars, ringVars
<1>9. QED BY <1>2, <1>3, <1>4, <1>5, <1>6, <1>7, <1>8 DEF Next

LEMMA InitPending == Init => PendInv
<1> SUFFICES ASSUME Init PROVE PendInv
  OBVIOUS
<1>1. /\ pend = 0 /\ sq = <<>> /\ fly = [o \in Op |-> 0] /\ cq = fly /\ lpc = "idle"
      /\ numGot = 0
  BY DEF Init
<1>2. fly \in [Op -> Nat] /\ \A o \in Op : fly[o] = 0 BY <1>1
<1>3. Size(fly) = 0 BY <1>2, OpFinite, SizeEmpty
<1>4. Len(sq) = 0 BY <1>1, EmptySeq
<1>5. QED BY <1>1, <1>3, <1>4 DEF PendInv, PendingExact, InRing

LEMMA PendInvariant == Spec => []PendInv
<1>1. EInv /\ PendInv /\ [Next]_vars => PendInv' BY KeepsPending
<1>2. QED BY <1>1, InitPending, SourcesInvariant, PTL DEF Spec

(* _numSqesPending is the number of entries that have not been collected,  *)
(* unless two threads wrote it at once: run(), which asks it whether       *)
(* anything is outstanding, neither ends too early nor waits for nothing.  *)
THEOREM PendingCounted == Spec => []PendingExact
<1>1. PendInv => PendingExact BY DEF PendInv
<1>2. QED BY <1>1, PendInvariant, PTL

-----------------------------------------------------------------------------
(* What run() leaves behind. *)

(* run() is on its way out: it has served the yield queue and has nothing  *)
(* to wait for.                                                            *)
Leaving == lpc = "thread" \/ (lpc = "drive" /\ timeout = None)

OnLoop == run[Loop] # None => lpc \in {"idle", "sync", "timerBack", "yieldBack", "batch"}

TimersFromYields ==
  lpc \in {"yields", "yieldBack"} \/ Leaving =>
    \A c \in Coroutine : co[c] = "timer" => origin[c] = "yield"

NoYields == Leaving => yieldQueue = <<>>

OperationsFromWorkers ==
  lpc = "thread" => \A c \in Coroutine : co[c] = "aio" => origin[c] = "worker" \/ raced

WorkersOperations ==
  \A w \in Worker : ring[w] # "out" /\ op[w] # Nop => origin[op[w]] = "worker"

OriginType == origin \in [Coroutine -> {"none", "loop", "yield", "worker"}]

ReturnInv ==
  OriginType /\ OnLoop /\ TimersFromYields /\ NoYields /\ OperationsFromWorkers /\ WorkersOperations

ReturnFacts == EInv /\ PendInv /\ ReturnInv

LEMMA InitReturn == Init => ReturnInv
<1>1. ASSUME Init
      PROVE  /\ lpc = "idle" /\ run[Loop] = None /\ \A w \in Worker : ring[w] = "out"
             /\ OriginType
  BY <1>1 DEF Init, Thread, OriginType
<1>2. QED BY <1>1 DEF ReturnInv, OnLoop, TimersFromYields, NoYields, OperationsFromWorkers,
                      WorkersOperations, Leaving

(* The loop's thread is in a part of run() where nothing is promised.      *)
LEMMA Elsewhere ==
  ASSUME ReturnInv, UNCHANGED <<ring, op, origin>>,
         lpc' \notin {"yields", "yieldBack", "drive", "thread"},
         run'[Loop] # None => lpc' \in {"idle", "sync", "timerBack", "batch"}
  PROVE  ReturnInv'
<1>1. WorkersOperations' BY DEF ReturnInv, WorkersOperations
<1>2. OnLoop' BY DEF OnLoop
<1>3. OriginType' BY DEF ReturnInv, OriginType
<1>4. QED BY <1>1, <1>2, <1>3
      DEF ReturnInv, TimersFromYields, NoYields, OperationsFromWorkers, Leaving

LEMMA LoopResumed ==
  ASSUME EInv, NEW c \in Coroutine, Resume(Loop, c)
  PROVE  run'[Loop] = c /\ \A d \in Coroutine : co'[d] # "running" => co'[d] = co[d]
<1>1. Loop \in Thread BY DEF Thread
<1>2. QED BY <1>1 DEF Resume, EInv, Types

(* Nothing pending: no operation of a coroutine is in the ring.            *)
LEMMA NothingPending ==
  ASSUME EInv, PendInv, pend = 0, lpc = "drive", NEW c \in Coroutine, co[c] = "aio"
  PROVE  raced
<1>1. SUFFICES ASSUME ~raced PROVE FALSE
  OBVIOUS
<1>2. /\ sq \in Seq(Op) /\ fly \in [Op -> Nat] /\ cq \in [Op -> Nat]
      /\ Len(sq) \in Nat /\ Size(fly) \in Nat /\ Size(cq) \in Nat
  BY RingNumbers DEF EInv
<1>3. InRing = Len(sq) + Size(fly) + Size(cq) BY DEF InRing
<1>4. 0 = InRing + 0 BY <1>1 DEF PendInv, PendingExact
<1>5. Len(sq) = 0 /\ Size(fly) = 0 /\ Size(cq) = 0 BY <1>2, <1>3, <1>4
<1>6. c \in Op BY DEF Op
<1>7. fly[c] = 0
  <2>1. PICK f \in [Op -> Nat] : f = fly BY <1>2
  <2>2. f[c] = 0 BY <1>5, <1>6, <2>1, OpFinite, SizeEmpty
  <2>3. QED BY <2>1, <2>2
<1>8. cq[c] = 0
  <2>1. PICK f \in [Op -> Nat] : f = cq BY <1>2
  <2>2. f[c] = 0 BY <1>5, <1>6, <2>1, OpFinite, SizeEmpty
  <2>3. QED BY <2>1, <2>2
<1>9. Count(sq, c) = 0 BY <1>2, <1>5, EmptySeq, CountEmpty
<1>10. batch[c] = 0 BY DEF EInv, RingInv
<1>11. InRingOf(c) = 0 BY <1>7, <1>8, <1>9, <1>10 DEF InRingOf
<1>12. QED BY <1>1, <1>11 DEF EInv, RingInv

LEMMA YieldsServed ==
  ASSUME EInv, NoYields, Leaving, NEW c \in Coroutine
  PROVE  co[c] # "yield"
<1>1. yieldQueue = <<>> BY DEF NoYields
<1>2. Count(yieldQueue, c) = 0 BY <1>1, CountEmpty
<1>3. lpc # "yieldBack" BY DEF Leaving
<1>4. YieldsOf(c) = 0
  <2>1. YieldsOf(c) = Count(yieldQueue, c) - 0 BY <1>3 DEF YieldsOf
  <2>2. QED BY <1>2, <2>1
<1>5. QED BY <1>4 DEF EInv, YieldInv

LEMMA LoopKeepsReturn ==
  ASSUME ReturnFacts, BeginRun \/ LoopStep \/ Interrupted
  PROVE  ReturnInv'
<1> USE DEF ReturnFacts
<1>0. /\ run[Loop] = None
      /\ UNCHANGED <<ring, op, origin>>
  BY DEF BeginRun, LoopStep, Interrupted, TimerResume, TimerErase, TimerWait, TimersDone,
     YieldResume, YieldPop, YieldsDone, Drive, NoDrive, WakeUp, Collect, Subtract, BatchResume,
     BatchDone, Return, ThreadWait, ThreadWake, LoopGoes, sqeVars, coVars
<1>1. WorkersOperations' /\ OriginType' BY <1>0 DEF ReturnInv, WorkersOperations, OriginType
<1>2. CASE TimerResume
  <2>1. lpc' = "timerBack" BY <1>2 DEF TimerResume, LoopGoes
  <2>2. QED BY <1>0, <2>1, Elsewhere
<1>3. CASE TimerErase \/ BeginRun \/ WakeUp \/ Interrupted \/ BatchDone \/ ThreadWake
           \/ Drive \/ Collect \/ Subtract \/ Return \/ ThreadWait
  <2>1. /\ run' = run /\ run[Loop] = None
        /\ lpc' \in {"timers", "ioWait", "sub", "batch", "idle", "threadWait"}
    BY <1>3 DEF TimerErase, BeginRun, WakeUp, Interrupted, BatchDone, ThreadWake, Drive, Collect,
       Subtract, Return, ThreadWait, LoopGoes
  <2>2. QED BY <1>0, <2>1, Elsewhere
<1>4. CASE BatchResume
  <2>1. lpc' = "batch" BY <1>4 DEF BatchResume, LoopGoes
  <2>2. QED BY <1>0, <2>1, Elsewhere
<1>5. CASE TimerWait
  <2>1. /\ lpc' = "drive" /\ run' = run /\ run[Loop] = None
        /\ \E e \in timerTree : timeout' = e.at
    BY <1>5 DEF TimerWait, LoopGoes, Earliest
  <2>2. timeout' \in Nat BY <2>1 DEF EInv, Types
  <2>3. ~Leaving' BY <2>1, <2>2, TimeoutAssumption DEF Leaving, TimeoutAssumption
  <2>4. QED BY <1>1, <2>1, <2>3
        DEF ReturnInv, OnLoop, TimersFromYields, NoYields, OperationsFromWorkers
<1>6. CASE TimersDone
  <2>1. timerTree = {} /\ lpc' = "yields" /\ run' = run /\ run[Loop] = None /\ co' = co
    BY <1>6 DEF TimersDone, LoopGoes, coVars
  <2>2. \A c \in Coroutine : co[c] # "timer" BY <2>1 DEF EInv, TimerInv
  <2>3. QED BY <1>1, <2>1, <2>2
        DEF ReturnInv, OnLoop, TimersFromYields, NoYields, OperationsFromWorkers, Leaving
<1>7. CASE YieldResume
  <2>1. yieldQueue # <<>> /\ Resume(Loop, Head(yieldQueue)) /\ lpc = "yields" /\ lpc' = "yieldBack"
    BY <1>7 DEF YieldResume, LoopGoes
  <2>2. Head(yieldQueue) \in Coroutine BY <2>1, HeadTailProperties DEF EInv, Types
  <2>3. \A d \in Coroutine : co'[d] # "running" => co'[d] = co[d] BY <2>1, <2>2, LoopResumed
  <2>4. QED BY <1>0, <1>1, <2>1, <2>3
        DEF ReturnInv, OnLoop, TimersFromYields, NoYields, OperationsFromWorkers, Leaving
<1>8. CASE YieldPop \/ YieldsDone
  <2>1. /\ lpc \in {"yields", "yieldBack"} /\ run' = run /\ run[Loop] = None /\ co' = co
        /\ \/ lpc' = "yields"
           \/ lpc' = "drive" /\ yieldQueue = <<>> /\ yieldQueue' = yieldQueue
    BY <1>8 DEF YieldPop, YieldsDone, LoopGoes, coVars, timerVars
  <2>2. QED BY <1>0, <1>1, <2>1
        DEF ReturnInv, OnLoop, TimersFromYields, NoYields, OperationsFromWorkers, Leaving
<1>9. CASE NoDrive
  <2>1. /\ pend = 0 /\ lpc = "drive" /\ run' = run /\ run[Loop] = None
        /\ UNCHANGED <<co, raced, yieldQueue, timeout>>
        /\ \/ lpc' = "sleep"
           \/ lpc' = "thread" /\ timeout = None
    BY <1>9 DEF NoDrive, LoopGoes, coVars, ringVars, timerVars
  <2>2. lpc' = "thread" => Leaving BY <2>1 DEF Leaving
  <2>3. \A c \in Coroutine : co[c] = "aio" => raced BY <2>1, NothingPending
  <2>4. QED BY <1>0, <1>1, <2>1, <2>2, <2>3
        DEF ReturnInv, OnLoop, TimersFromYields, NoYields, OperationsFromWorkers, Leaving
<1>10. QED BY <1>2, <1>3, <1>4, <1>5, <1>6, <1>7, <1>8, <1>9 DEF LoopStep


LEMMA SqeKeepsReturn ==
  ASSUME ReturnFacts, NEW t \in Thread, SqeStep(t)
  PROVE  ReturnInv'
<1> USE DEF ReturnFacts
<1>1. /\ ring[t] # "out" /\ UNCHANGED <<lpc, timeout, yieldQueue, origin>>
      /\ \A u \in Thread \ {t} : ring'[u] = ring[u] /\ op'[u] = op[u] /\ run'[u] = run[u]
      /\ op'[t] = op[t] \/ ring'[t] = "out"
      /\ run'[t] = run[t] \/ run'[t] = None
  <2>1. CASE SqeRead(t) BY <2>1 DEF SqeRead, SqeFrame, InSqe, loopVars, timerVars, coVars, EInv, Types
  <2>2. CASE SqeFull(t) BY <2>2 DEF SqeFull, SqeFrame, InSqe, loopVars, timerVars, coVars, EInv, Types
  <2>3. CASE SqeWrite(t)
    <3>1. ring[t] # "out" /\ UNCHANGED <<lpc, timeout, yieldQueue, origin>>
      BY <2>3 DEF SqeWrite, SqeFrame, InSqe, loopVars, timerVars
    <3>2. ring' = [ring EXCEPT ![t] = "out"] /\ op' = [op EXCEPT ![t] = None]
          /\ (run' = run \/ run' = [run EXCEPT ![t] = None])
      BY <2>3 DEF SqeWrite
    <3>3. QED BY <3>1, <3>2 DEF EInv, Types
  <2>4. CASE SqeThrows(t)
    BY <2>4 DEF SqeThrows, StillFull, SqeFrame, InSqe, loopVars, timerVars, coVars, EInv, Types
  <2>5. QED BY <2>1, <2>2, <2>3, <2>4 DEF SqeStep
<1>2. ReturnInv BY DEF ReturnFacts
<1>3. OnLoop'
  <2>1. run'[Loop] = run[Loop] \/ run'[Loop] = None BY <1>1 DEF Thread
  <2>2. QED BY <1>1, <1>2, <2>1 DEF OnLoop, ReturnInv
<1>4. NoYields' BY <1>1, <1>2 DEF NoYields, ReturnInv, Leaving
<1>5. WorkersOperations' /\ OriginType'
  BY <1>1, <1>2 DEF WorkersOperations, OriginType, ReturnInv, Thread
<1>6. CASE UNCHANGED <<co, raced>>
  BY <1>1, <1>2, <1>3, <1>4, <1>5, <1>6
  DEF ReturnInv, TimersFromYields, OperationsFromWorkers, Leaving
<1>7. CASE SqeWrite(t) /\ ~UNCHANGED <<co, raced>>
  <2>1. raced => raced' BY <1>7 DEF SqeWrite
  <2>2. \A c \in Coroutine : co'[c] = co[c] \/ (c = op[t] /\ op[t] # Nop /\ co'[c] = "aio")
    BY <1>7 DEF SqeWrite, EInv, Types
  <2>3. t = Loop \/ op[t] = Nop \/ origin[op[t]] = "worker"
    BY <1>1, <1>2 DEF ReturnInv, WorkersOperations, Thread
  <2>4. t = Loop => lpc # "thread"
    <3>1. Loop \notin Worker BY LoopAssumption DEF LoopAssumption
    <3>2. t = Loop => run[t] # None BY <1>1, <3>1 DEF EInv, RunInv
    <3>3. QED BY <1>2, <3>2 DEF ReturnInv, OnLoop
  <2>5. OperationsFromWorkers'
    BY <1>1, <1>2, <2>1, <2>2, <2>3, <2>4 DEF ReturnInv, OperationsFromWorkers
  <2>6. TimersFromYields' BY <1>1, <1>2, <2>2 DEF ReturnInv, TimersFromYields, Leaving
  <2>7. QED BY <1>3, <1>4, <1>5, <2>5, <2>6 DEF ReturnInv
<1>8. CASE SqeRead(t) \/ SqeFull(t) \/ SqeThrows(t)
  <2>1. UNCHANGED <<co, raced>> BY <1>8 DEF SqeRead, SqeFull, SqeThrows, coVars, ringVars
  <2>2. QED BY <1>6, <2>1
<1>9. QED BY <1>6, <1>7, <1>8 DEF SqeStep

(* A coroutine that awaits something is no worker's operation yet.         *)
LEMMA AwaitsFrame ==
  ASSUME ReturnFacts, NEW t \in Thread, NEW c \in Coroutine, NEW what, Awaits(t, c, what)
  PROVE  /\ run[t] = c /\ co[c] = "running" /\ ring[t] = "out"
         /\ OriginType' /\ origin'[c] = Where(t)
         /\ \A w \in Worker : w # t /\ ring[w] # "out" /\ op[w] # Nop => op[w] # c
         /\ \A d \in Coroutine \ {c} : origin'[d] = origin[d]
         /\ t = Loop => lpc \in {"idle", "sync", "timerBack", "yieldBack", "batch"}
<1> USE DEF ReturnFacts
<1>1. /\ run[t] = c /\ co[c] = "running" /\ ring[t] = "out" /\ c # None
      /\ origin' = [origin EXCEPT ![c] = Where(t)]
  BY LoopAssumption DEF Awaits, Running, LoopAssumption
<1>2. \A w \in Worker : w # t /\ ring[w] # "out" /\ op[w] # Nop => op[w] # c
  <2>1. SUFFICES ASSUME NEW w \in Worker, w # t, ring[w] # "out", op[w] # Nop, op[w] = c
                 PROVE  FALSE
    OBVIOUS
  <2>2. w \in Thread BY DEF Thread
  <2>3. run[w] = c BY <2>1, <2>2 DEF EInv, RunInv
  <2>4. QED BY <1>1, <2>1, <2>2, <2>3 DEF EInv, RunInv
<1>3. /\ OriginType' /\ origin'[c] = Where(t)
      /\ \A d \in Coroutine \ {c} : origin'[d] = origin[d]
  BY <1>1 DEF ReturnInv, OriginType, Where
<1>4. t = Loop => lpc \in {"idle", "sync", "timerBack", "yieldBack", "batch"}
  BY <1>1 DEF ReturnInv, OnLoop
<1>5. QED BY <1>1, <1>2, <1>3, <1>4

LEMMA AwaitKeepsReturn ==
  ASSUME ReturnFacts, NEW t \in Thread, NEW c \in Coroutine,
         AwaitTimer(t, c) \/ AwaitYield(t, c) \/ AwaitAio(t, c) \/ AwaitFuture(t, c)
  PROVE  ReturnInv'
<1> USE DEF ReturnFacts
<1>1. PICK what : Awaits(t, c, what) BY DEF AwaitTimer, AwaitYield, AwaitAio, AwaitFuture
<1>2. /\ run[t] = c /\ co[c] = "running" /\ ring[t] = "out"
      /\ OriginType' /\ origin'[c] = Where(t)
      /\ \A w \in Worker : w # t /\ ring[w] # "out" /\ op[w] # Nop => op[w] # c
      /\ \A d \in Coroutine \ {c} : origin'[d] = origin[d]
      /\ t = Loop => lpc \in {"idle", "sync", "timerBack", "yieldBack", "batch"}
  BY <1>1, AwaitsFrame
<1>3. ReturnInv BY DEF ReturnFacts
<1>4. /\ UNCHANGED <<lpc, timeout, raced>> /\ run'[Loop] \in {run[Loop], None}
      /\ \A d \in Coroutine \ {c} : co'[d] = co[d]
      /\ co'[c] # "aio"
  <2>1. /\ UNCHANGED <<lpc, timeout, raced>>
        /\ run' = run \/ run' = [run EXCEPT ![t] = None]
        /\ co' = co \/ \E s \in {"timer", "yield", "awaiting"} : co' = [co EXCEPT ![c] = s]
    BY DEF AwaitTimer, AwaitYield, AwaitAio, AwaitFuture, Suspends, loopVars, ringVars
  <2>2. QED BY <1>2, <2>1 DEF EInv, Types, Thread
<1>5. OnLoop' BY <1>3, <1>4 DEF OnLoop, ReturnInv
<1>6. OperationsFromWorkers' BY <1>2, <1>3, <1>4 DEF OperationsFromWorkers, ReturnInv
<1>7. WorkersOperations'
  <2>1. CASE AwaitAio(t, c)
    <3>1. ring' = [ring EXCEPT ![t] = "get"] /\ op' = [op EXCEPT ![t] = c] BY <2>1 DEF AwaitAio
    <3>2. \A u \in Thread \ {t} : ring'[u] = ring[u] /\ op'[u] = op[u] BY <3>1 DEF EInv, Types
    <3>3. op'[t] = c BY <3>1 DEF EInv, Types
    <3>4. t \in Worker => origin'[c] = "worker" BY <1>2, LoopAssumption DEF Where, LoopAssumption
    <3>5. SUFFICES ASSUME NEW w \in Worker, ring'[w] # "out", op'[w] # Nop
                   PROVE  origin'[op'[w]] = "worker"
      BY DEF WorkersOperations
    <3>6. CASE w = t BY <3>3, <3>4, <3>6
    <3>7. CASE w # t
      <4>1. ring[w] # "out" /\ op[w] = op'[w] /\ w \in Thread BY <3>2, <3>5, <3>7 DEF Thread
      <4>2. op[w] # c /\ op[w] \in Coroutine
        <5>1. op[w] # c BY <1>2, <3>5, <3>7, <4>1
        <5>2. op[w] = run[w] /\ run[w] # None BY <3>5, <4>1 DEF EInv, RunInv
        <5>3. run[w] \in Coroutine \cup {None} BY <4>1 DEF EInv, Types
        <5>4. QED BY <5>1, <5>2, <5>3
      <4>3. origin[op[w]] = "worker" BY <1>3, <3>5, <4>1 DEF ReturnInv, WorkersOperations
      <4>4. QED BY <1>2, <4>1, <4>2, <4>3
    <3>8. QED BY <3>6, <3>7
  <2>2. CASE ~AwaitAio(t, c)
    <3>1. UNCHANGED <<ring, op>> BY <2>2 DEF AwaitTimer, AwaitYield, AwaitFuture, sqeVars
    <3>2. SUFFICES ASSUME NEW w \in Worker, ring[w] # "out", op[w] # Nop
                   PROVE  origin'[op[w]] = "worker"
      BY <3>1 DEF WorkersOperations
    <3>3. w # t /\ w \in Thread BY <1>2, <3>2 DEF Thread
    <3>4. op[w] # c /\ op[w] = run[w] /\ run[w] # None BY <1>2, <3>2, <3>3 DEF EInv, RunInv
    <3>5. op[w] \in Coroutine BY <3>3, <3>4 DEF EInv, Types
    <3>6. origin[op[w]] = "worker" BY <1>3, <3>2 DEF ReturnInv, WorkersOperations
    <3>7. QED BY <1>2, <3>4, <3>5, <3>6
  <2>3. QED BY <2>1, <2>2
<1>8. TimersFromYields' /\ NoYields'
  <2>1. CASE AwaitTimer(t, c) \/ AwaitYield(t, c)
    <3>1. t = Loop
      <4>1. "timer" \in MovesOf(t) \/ "yield" \in MovesOf(t)
        BY <2>1 DEF AwaitTimer, AwaitYield, Awaits
      <4>2. QED BY <4>1, LoopAssumption DEF MovesOf, LoopAssumption
    <3>2. ~Leaving' /\ lpc # "yields" BY <1>2, <1>4, <3>1 DEF Leaving
    <3>3. lpc = "yieldBack" => origin'[c] = "yield" BY <1>2, <3>1 DEF Where
    <3>4. QED BY <1>2, <1>3, <1>4, <3>2, <3>3 DEF TimersFromYields, NoYields, ReturnInv
  <2>2. CASE ~(AwaitTimer(t, c) \/ AwaitYield(t, c))
    <3>1. yieldQueue' = yieldQueue /\ co'[c] # "timer"
      BY <1>2, <2>2 DEF AwaitAio, AwaitFuture, timerVars, EInv, Types
    <3>2. Leaving' = Leaving BY <1>4 DEF Leaving
    <3>3. QED BY <1>2, <1>3, <1>4, <3>1, <3>2 DEF TimersFromYields, NoYields, ReturnInv
  <2>3. QED BY <2>1, <2>2
<1>9. QED BY <1>2, <1>5, <1>6, <1>7, <1>8 DEF ReturnInv

(* What neither suspends for a timer nor touches the ring.                 *)
LEMMA StillReturn ==
  ASSUME ReturnInv, UNCHANGED <<lpc, timeout, yieldQueue, origin>>, raced => raced',
         run'[Loop] \in {run[Loop], None},
         \A c \in Coroutine : co'[c] \in {"timer", "aio"} => co'[c] = co[c],
         \A w \in Worker : ring'[w] # "out" /\ op'[w] # Nop => ring[w] # "out" /\ op[w] = op'[w]
  PROVE  ReturnInv'
BY DEF ReturnInv, OriginType, OnLoop, TimersFromYields, NoYields, OperationsFromWorkers,
       WorkersOperations, Leaving

LEMMA WorkerKeepsReturn ==
  ASSUME ReturnFacts, NEW w \in Worker, WorkerStep(w)
  PROVE  ReturnInv'
<1> USE DEF ReturnFacts
<1>1. w \in Thread /\ w # Loop BY LoopAssumption DEF LoopAssumption, Thread
<1>2. CASE (\E c \in Coroutine : Take(w, c)) \/ ResumeNull(w) \/ PostNop(w)
  <2>1. UNCHANGED <<lpc, timeout, yieldQueue, origin, raced, run, co, ring, op>>
    BY <1>2 DEF Take, ResumeNull, PostNop, loopVars, timerVars, coVars, ringVars, sqeVars
  <2>2. QED BY <2>1, StillReturn
<1>3. CASE ResumeOnWorker(w)
  <2>1. /\ UNCHANGED <<lpc, timeout, yieldQueue, origin, raced, ring, op>>
        /\ co' = [co EXCEPT ![wco[w]] = "running"] /\ run' = [run EXCEPT ![w] = wco[w]]
    BY <1>3 DEF ResumeOnWorker, Resume, loopVars, timerVars, coVars, ringVars, sqeVars
  <2>2. /\ run'[Loop] = run[Loop]
        /\ \A c \in Coroutine : co'[c] \in {"timer", "aio"} => co'[c] = co[c]
    BY <1>1, <2>1 DEF EInv, Types, Thread
  <2>3. QED BY <2>1, <2>2, StillReturn
<1>4. CASE NotifyLoop(w)
  <2>1. /\ UNCHANGED <<lpc, timeout, yieldQueue, origin, raced, run, co>>
        /\ ring' = [ring EXCEPT ![w] = "get"] /\ op' = [op EXCEPT ![w] = Nop]
    BY <1>4 DEF NotifyLoop, loopVars, timerVars, coVars, ringVars
  <2>2. op'[w] = Nop /\ \A v \in Worker \ {w} : ring'[v] = ring[v] /\ op'[v] = op[v]
    BY <1>1, <2>1 DEF EInv, Types, Thread
  <2>3. QED BY <2>1, <2>2, StillReturn
<1>5. CASE PostNopThrows(w)
  <2>1. /\ UNCHANGED <<lpc, timeout, yieldQueue, origin, raced, run, co>>
        /\ ring' = [ring EXCEPT ![w] = "out"] /\ op' = [op EXCEPT ![w] = None]
    BY <1>5 DEF PostNopThrows, loopVars, timerVars, coVars, ringVars
  <2>2. ring'[w] = "out" /\ \A v \in Worker \ {w} : ring'[v] = ring[v] /\ op'[v] = op[v]
    BY <1>1, <2>1 DEF EInv, Types, Thread
  <2>3. QED BY <2>1, <2>2, StillReturn
<1>6. QED BY <1>2, <1>3, <1>4, <1>5 DEF WorkerStep

LEMMA KeepsReturn == ReturnFacts /\ [Next]_vars => ReturnInv'
<1> SUFFICES ASSUME ReturnFacts, [Next]_vars PROVE ReturnInv'
  OBVIOUS
<1> USE DEF ReturnFacts
<1>1. CASE (\E o \in Op : Complete(o)) \/ Tick \/ UNCHANGED vars
  <2>1. UNCHANGED <<lpc, timeout, yieldQueue, origin, raced, run, co, ring, op>>
    BY <1>1 DEF Complete, Tick, vars, loopVars, timerVars, coVars, ringVars, sqeVars
  <2>2. QED BY <2>1, StillReturn
<1>2. CASE \E c \in Coroutine : Start(c) \/ TrySync(c)
  <2>1. /\ UNCHANGED <<ring, op, origin>> /\ lpc' \in {"idle", "sync", "threw"}
        /\ lpc' = "threw" => run' = run /\ run[Loop] = None
    BY <1>2 DEF Start, TrySync, LoopGoes, sqeVars
  <2>2. QED BY <2>1, Elsewhere
<1>3. CASE BeginRun \/ LoopStep \/ Interrupted BY <1>3, LoopKeepsReturn
<1>4. CASE \E t \in Thread : CoroutineStep(t)
  <2>1. PICK t \in Thread : CoroutineStep(t) BY <1>4
  <2>2. CASE SqeStep(t) BY <2>2, SqeKeepsReturn
  <2>3. ASSUME NEW c \in Coroutine, StoreCoroutine(t, c) \/ Finish(t, c) PROVE ReturnInv'
    <3>1. /\ UNCHANGED <<lpc, timeout, yieldQueue, origin, raced, ring, op>>
          /\ run' = [run EXCEPT ![t] = None]
          /\ co' = [co EXCEPT ![c] = "future"] \/ co' = [co EXCEPT ![c] = "done"]
      BY <2>3 DEF StoreCoroutine, Finish, Suspends, loopVars, timerVars, ringVars, sqeVars
    <3>2. /\ run'[Loop] \in {run[Loop], None}
          /\ \A d \in Coroutine : co'[d] \in {"timer", "aio"} => co'[d] = co[d]
      BY <3>1 DEF EInv, Types, Thread
    <3>3. QED BY <3>1, <3>2, StillReturn
  <2>4. QED BY <2>1, <2>2, <2>3, AwaitKeepsReturn DEF CoroutineStep
<1>5. CASE \E w \in Worker : WorkerStep(w) BY <1>5, WorkerKeepsReturn
<1>6. QED BY <1>1, <1>2, <1>3, <1>4, <1>5 DEF Next

LEMMA ReturnInvariant == Spec => []ReturnFacts
<1>1. ReturnFacts /\ [Next]_vars => ReturnInv' BY KeepsReturn
<1>2. Spec => []ReturnInv
  BY <1>1, InitReturn, SourcesInvariant, PendInvariant, PTL DEF Spec, ReturnFacts
<1>3. QED BY <1>2, SourcesInvariant, PendInvariant, PTL DEF ReturnFacts

LEMMA ReturnStep ==
  ASSUME ReturnFacts, ThreadTasksExact, [Next]_vars, lpc = "thread", lpc' = "idle",
         NEW c \in Coroutine
  PROVE  \/ co[c] \in {"new", "done"}
         \/ co[c] = "timer" /\ origin[c] = "yield"
         \/ co[c] = "aio" /\ (origin[c] = "worker" \/ raced)
<1> USE DEF ReturnFacts
<1>1. Return
  <2>1. CASE LoopStep
    BY <2>1 DEF LoopStep, TimerResume, TimerErase, TimerWait, TimersDone, YieldResume, YieldPop,
       YieldsDone, Drive, NoDrive, WakeUp, Collect, Subtract, BatchResume, BatchDone, ThreadWait,
       ThreadWake, LoopGoes
  <2>2. CASE (\E d \in Coroutine : Start(d) \/ TrySync(d)) \/ BeginRun \/ Interrupted
    BY <2>2 DEF Start, TrySync, BeginRun, Interrupted, LoopGoes
  <2>3. CASE UNCHANGED lpc BY <2>3
  <2>4. CASE \E t \in Thread : CoroutineStep(t)
    BY <2>3, <2>4 DEF CoroutineStep, SqeStep, SqeRead, SqeFull, SqeThrows, SqeWrite, SqeFrame, AwaitTimer,
       AwaitYield, AwaitAio, AwaitFuture, StoreCoroutine, Finish, loopVars
  <2>5. CASE \E w \in Worker : WorkerStep(w)
    BY <2>3, <2>5 DEF WorkerStep, Take, ResumeOnWorker, ResumeNull, NotifyLoop, PostNop, PostNopThrows,
       loopVars
  <2>6. CASE (\E o \in Op : Complete(o)) \/ Tick \/ UNCHANGED vars
    BY <2>3, <2>6 DEF Complete, Tick, vars, loopVars
  <2>7. QED BY <2>1, <2>2, <2>4, <2>5, <2>6 DEF Next
<1>2. cnt = 0 /\ run[Loop] = None BY <1>1 DEF Return, NoThreadTask, LoopGoes
<1>3. futures = {} /\ Holding = {}
  <2>1. /\ IsFiniteSet(futures) /\ IsFiniteSet(Holding)
        /\ Cardinality(futures) \in Nat /\ Cardinality(Holding) \in Nat
    BY HoldingFinite
  <2>2. 0 = Cardinality(futures) + Cardinality(Holding) BY <1>2 DEF ThreadTasksExact, Holding
  <2>3. Cardinality(futures) = 0 /\ Cardinality(Holding) = 0 BY <2>1, <2>2
  <2>4. QED BY <2>1, <2>3, FS_EmptySet
<1>4. co[c] \notin {"awaiting", "future"}
  BY <1>3 DEF EInv, FutureInv, Holding, With, Crashed
<1>5. co[c] # "running"
  <2>1. SUFFICES ASSUME co[c] = "running" PROVE FALSE
    OBVIOUS
  <2>2. PICK t \in Thread : run[t] = c BY <2>1 DEF EInv, RunInv
  <2>3. c # None BY LoopAssumption DEF LoopAssumption
  <2>4. t \in Worker /\ wpc[t] = "notify" BY <1>2, <2>2, <2>3 DEF Thread, EInv, RunInv
  <2>5. QED BY <1>3, <2>4 DEF Holding
<1>6. Leaving BY DEF Leaving
<1>7. co[c] # "yield" BY <1>6, YieldsServed DEF ReturnInv
<1>8. co[c] = "timer" => origin[c] = "yield" BY <1>6 DEF ReturnInv, TimersFromYields
<1>9. co[c] = "aio" => origin[c] = "worker" \/ raced BY DEF ReturnInv, OperationsFromWorkers
<1>10. co[c] \in Suspended \cup {"new", "running", "awaiting", "done"} BY DEF EInv, Types
<1>11. QED BY <1>4, <1>5, <1>7, <1>8, <1>9, <1>10 DEF Suspended

(* When run() returns nothing is left to resume but a timer set from the   *)
(* yield queue and an operation that a worker started, or that a race on   *)
(* the ring lost: no future, no yield and no other timer is abandoned.     *)
THEOREM ReturnsWhenIdle == Spec => ReturnsIdle
<1>1. ASSUME ReturnFacts, ThreadTasksExact, [Next]_vars
      PROVE  [lpc = "thread" /\ lpc' = "idle" =>
                \A c \in Coroutine :
                  \/ co[c] \in {"new", "done"}
                  \/ co[c] = "timer" /\ origin[c] = "yield"
                  \/ co[c] = "aio" /\ (origin[c] = "worker" \/ raced)]_vars
  BY <1>1, ReturnStep
<1>2. QED BY <1>1, ReturnInvariant, ControllersCounted, PTL DEF Spec, ReturnsIdle

===============================================================================
