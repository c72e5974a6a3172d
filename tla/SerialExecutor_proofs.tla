------------------------- MODULE SerialExecutor_proofs -------------------------
(***************************************************************************)
(* Proofs about SerialExecutor, for any callers, any number of calls and   *)
(* resumptions nested to any depth.                                        *)
(***************************************************************************)
EXTENDS SerialExecutor, SequenceTheorems, FiniteSetTheorems, TLAPS

USE SerialAssumption

AtSet == {"caller", "start", "task", "test", "end", "terminated", "undefined"}
ActSet == [at : AtSet, who : Caller \cup Task \cup {None}]
Entry == Task \X (Caller \cup {None})

STypeOK ==
  /\ isRun \in BOOLEAN /\ alive \in BOOLEAN
  /\ q \in Seq(Entry)
  /\ waits \in [Task -> Caller \cup {None}] /\ awaits \in [Task -> Caller \cup {None}]
  /\ task \in [Task -> {"new", "running", "ended", "threw", "destroyed"}]
  /\ calls \in [Caller -> Nat] /\ clears \in Nat
  /\ acts \in Seq(ActSet)
  /\ called \in Seq(Task) /\ started \in Seq(Task)

-----------------------------------------------------------------------------
(* The stack of resumptions. *)

LEMMA StackOps ==
  ASSUME NEW s \in Seq(ActSet), s # <<>>, NEW x \in ActSet, NEW y \in ActSet
  PROVE  /\ Tail(s) \in Seq(ActSet) /\ Len(Tail(s)) = Len(s) - 1
         /\ \A i \in 1..(Len(s) - 1) : Tail(s)[i] = s[i + 1]
         /\ <<x>> \o Tail(s) \in Seq(ActSet) /\ Len(<<x>> \o Tail(s)) = Len(s)
         /\ \A i \in 1..Len(s) : (<<x>> \o Tail(s))[i] = IF i = 1 THEN x ELSE s[i]
         /\ <<x, y>> \o Tail(s) \in Seq(ActSet) /\ Len(<<x, y>> \o Tail(s)) = Len(s) + 1
         /\ \A i \in 1..(Len(s) + 1) :
              (<<x, y>> \o Tail(s))[i] = IF i = 1 THEN x ELSE IF i = 2 THEN y ELSE s[i - 1]
<1>1. /\ Tail(s) \in Seq(ActSet) /\ Len(Tail(s)) = Len(s) - 1
      /\ \A i \in 1..(Len(s) - 1) : Tail(s)[i] = s[i + 1]
      /\ Len(s) \in Nat \ {0}
  BY HeadTailProperties
<1>2. <<x>> \in Seq(ActSet) /\ Len(<<x>>) = 1 /\ <<x>>[1] = x
      /\ <<x, y>> \in Seq(ActSet) /\ Len(<<x, y>>) = 2 /\ <<x, y>>[1] = x /\ <<x, y>>[2] = y
  OBVIOUS
<1>3. /\ <<x>> \o Tail(s) \in Seq(ActSet) /\ Len(<<x>> \o Tail(s)) = 1 + Len(Tail(s))
      /\ \A i \in 1..(1 + Len(Tail(s))) :
           (<<x>> \o Tail(s))[i] = IF i <= 1 THEN <<x>>[i] ELSE Tail(s)[i - 1]
  BY <1>1, <1>2, ConcatProperties
<1>4. /\ <<x, y>> \o Tail(s) \in Seq(ActSet) /\ Len(<<x, y>> \o Tail(s)) = 2 + Len(Tail(s))
      /\ \A i \in 1..(2 + Len(Tail(s))) :
           (<<x, y>> \o Tail(s))[i] = IF i <= 2 THEN <<x, y>>[i] ELSE Tail(s)[i - 2]
  BY <1>1, <1>2, ConcatProperties
<1>5. \A i \in 1..Len(s) : (<<x>> \o Tail(s))[i] = IF i = 1 THEN x ELSE s[i]
  BY <1>1, <1>2, <1>3
<1>6. \A i \in 1..(Len(s) + 1) :
        (<<x, y>> \o Tail(s))[i] = IF i = 1 THEN x ELSE IF i = 2 THEN y ELSE s[i - 1]
  BY <1>1, <1>2, <1>4
<1>7. QED BY <1>1, <1>3, <1>4, <1>5, <1>6

(* The three ways the stack changes in a step of its top.                  *)
Replaced(x) ==
  /\ acts' \in Seq(ActSet) /\ Len(acts') = Len(acts)
  /\ \A i \in 1..Len(acts) : acts'[i] = IF i = 1 THEN x ELSE acts[i]

Pushed(x, y) ==
  /\ acts' \in Seq(ActSet) /\ Len(acts') = Len(acts) + 1
  /\ \A i \in 1..(Len(acts) + 1) :
       acts'[i] = IF i = 1 THEN x ELSE IF i = 2 THEN y ELSE acts[i - 1]

Popped ==
  /\ acts' \in Seq(ActSet) /\ Len(acts') = Len(acts) - 1
  /\ \A i \in 1..(Len(acts) - 1) : acts'[i] = acts[i + 1]

LEMMA TopIsFirst ==
  ASSUME STypeOK, NEW at, NEW who, Top(at, who)
  PROVE  acts # <<>> /\ Len(acts) \in Nat \ {0} /\ acts[1] = Act(at, who)
         /\ acts[1].at = at /\ acts[1].who = who /\ Rest = Tail(acts)
<1>1. acts # <<>> /\ Head(acts) = Act(at, who) BY DEF Top
<1>2. Head(acts) = acts[1] /\ Len(acts) \in Nat \ {0} BY <1>1, EmptySeq DEF STypeOK
<1>3. QED BY <1>1, <1>2 DEF Act, Rest

LEMMA TopReplaced ==
  ASSUME STypeOK, acts # <<>>, NEW at \in AtSet, NEW who \in Caller \cup Task \cup {None},
         acts' = Goto(at, who)
  PROVE  Replaced(Act(at, who))
<1>1. Act(at, who) \in ActSet BY DEF Act, ActSet
<1>2. QED BY <1>1, StackOps DEF STypeOK, Goto, Rest, Replaced

LEMMA TopPushed ==
  ASSUME STypeOK, acts # <<>>, NEW at \in AtSet, NEW who \in Caller \cup Task \cup {None},
         NEW y \in ActSet, acts' = Resumes(at, who, y)
  PROVE  Pushed(Act(at, who), y)
<1>1. Act(at, who) \in ActSet BY DEF Act, ActSet
<1>2. QED BY <1>1, StackOps DEF STypeOK, Resumes, Rest, Pushed

LEMMA TopPopped == ASSUME STypeOK, acts # <<>>, Suspend PROVE Popped
<1>1. Act("end", None) \in ActSet BY DEF Act, ActSet, AtSet
<1>2. QED BY <1>1, StackOps DEF STypeOK, Suspend, Rest, Popped

-----------------------------------------------------------------------------
(* The invariant. *)

(* Below the top of the stack a start() waits for what it resumed.         *)
Below == \A i \in DOMAIN acts : i > 1 => acts[i].at \in {"test", "end"}

(* A task that executes is running; one whose start() goes on has ended,   *)
(* and that start() is on the stack once.                                  *)
TaskRuns == \A i \in DOMAIN acts : acts[i].at = "task" => task[acts[i].who] = "running"
TestEnded == \A i \in DOMAIN acts : acts[i].at = "test" => task[acts[i].who] = "ended"
TestOnce ==
  \A i, j \in DOMAIN acts :
    acts[i].at = "test" /\ acts[j].at = "test" /\ acts[i].who = acts[j].who => i = j

(* start() takes the entry it was called for.                              *)
StartHead == \A i \in DOMAIN acts : acts[i].at = "start" => q # <<>> /\ q[1][1] = acts[i].who

IdleEmpty == ~isRun => q = <<>>
GoneQuiet == ~alive => acts = <<>> /\ q = <<>> /\ \A t \in Task : task[t] # "running"

(* The calls are the started tasks, then the queued ones; they differ, and *)
(* a task that is not new was started.                                     *)
StartedFirst ==
  /\ Len(started) <= Len(called)
  /\ \A i \in 1..Len(started) : started[i] = called[i]
QueuedNext ==
  alive => /\ Len(called) = Len(started) + Len(q)
           /\ \A i \in 1..Len(q) : q[i][1] = called[Len(started) + i]
CalledOnce == \A i, j \in 1..Len(called) : called[i] = called[j] => i = j
CalledPast == \A i \in 1..Len(called) : called[i][2] <= calls[called[i][1]]
NewOrStarted == \A t \in Task : task[t] # "new" => \E i \in 1..Len(started) : started[i] = t

(* The tasks that have the turn: they run, or their start() takes it or    *)
(* has yet to pass it on.  isRun stands for one of them, each clear() of a *)
(* running executor for one more.                                          *)
HasTurn(t) ==
  \/ task[t] = "running"
  \/ \E i \in DOMAIN acts : acts[i].at \in {"start", "test"} /\ acts[i].who = t
Turns == {t \in Task : HasTurn(t)}
Places == IF isRun THEN clears + 1 ELSE clears
TurnsCounted == IsFiniteSet(Turns) /\ Cardinality(Turns) <= Places

Order == StartedFirst /\ QueuedNext /\ CalledOnce /\ CalledPast /\ NewOrStarted
Stack == Below /\ TaskRuns /\ TestEnded /\ TestOnce /\ StartHead

IInv == STypeOK /\ Stack /\ IdleEmpty /\ GoneQuiet /\ Order /\ TurnsCounted

LEMMA InitIInv == Init => IInv
<1> SUFFICES ASSUME Init PROVE IInv
  OBVIOUS
<1>0. q \in Seq(Entry) /\ acts \in Seq(ActSet) /\ called \in Seq(Task) /\ started \in Seq(Task)
  BY EmptySeq DEF Init
<1>1. STypeOK
  <2>1. waits \in [Task -> Caller \cup {None}] /\ awaits \in [Task -> Caller \cup {None}]
        /\ task \in [Task -> {"new", "running", "ended", "threw", "destroyed"}]
    BY DEF Init
  <2>2. calls \in [Caller -> Nat] /\ clears \in Nat BY DEF Init
  <2>3. isRun \in BOOLEAN /\ alive \in BOOLEAN BY DEF Init
  <2>4. QED BY <1>0, <2>1, <2>2, <2>3 DEF STypeOK
<1>2. acts = <<>> /\ DOMAIN acts = {} /\ \A t \in Task : task[t] = "new" BY DEF Init
<1>3. q = <<>> /\ called = <<>> /\ started = <<>> /\ alive /\ ~isRun /\ clears = 0 BY DEF Init
<1>4. Stack BY <1>2 DEF Stack, Below, TaskRuns, TestEnded, TestOnce, StartHead
<1>5. IdleEmpty /\ GoneQuiet /\ Order
  BY <1>2, <1>3 DEF IdleEmpty, GoneQuiet, Order, StartedFirst, QueuedNext, CalledOnce, CalledPast,
     NewOrStarted
<1>6. Turns = {} BY <1>2 DEF Turns, HasTurn
<1>7. TurnsCounted BY <1>3, <1>6, FS_EmptySet DEF TurnsCounted, Places
<1>8. QED BY <1>1, <1>4, <1>5, <1>7 DEF IInv

-----------------------------------------------------------------------------
(* Steps of the stack. *)

LEMMA Indices ==
  ASSUME STypeOK
  PROVE  /\ Len(acts) \in Nat /\ DOMAIN acts = 1..Len(acts) /\ (acts # <<>> => 1 \in DOMAIN acts)
         /\ Len(q) \in Nat /\ DOMAIN q = 1..Len(q) /\ (q # <<>> => Len(q) > 0)
         /\ Len(called) \in Nat /\ Len(started) \in Nat
BY LenProperties, EmptySeq DEF STypeOK

(* The first k entries are new, the others those below the old top.        *)
Keeps(k, d) ==
  \A i \in DOMAIN acts' :
    i > k => i - d \in DOMAIN acts /\ i - d > 1 /\ acts'[i] = acts[i - d]

LEMMA ReplacedKeeps ==
  ASSUME STypeOK, acts # <<>>, NEW x, Replaced(x)
  PROVE  /\ acts' \in Seq(ActSet) /\ 1 \in DOMAIN acts' /\ acts'[1] = x
         /\ DOMAIN acts' \subseteq Nat \ {0} /\ Keeps(1, 0)
<1>1. DOMAIN acts' = DOMAIN acts /\ 1 \in DOMAIN acts /\ DOMAIN acts = 1..Len(acts) /\ Len(acts) \in Nat
  BY Indices, LenProperties DEF Replaced
<1>2. QED BY <1>1 DEF Replaced, Keeps

LEMMA PushedKeeps ==
  ASSUME STypeOK, acts # <<>>, NEW x, NEW y, Pushed(x, y)
  PROVE  /\ acts' \in Seq(ActSet) /\ 1 \in DOMAIN acts' /\ 2 \in DOMAIN acts'
         /\ acts'[1] = x /\ acts'[2] = y
         /\ DOMAIN acts' \subseteq Nat \ {0} /\ Keeps(2, 1)
<1>1. /\ DOMAIN acts' = 1..(Len(acts) + 1) /\ 1 \in DOMAIN acts /\ DOMAIN acts = 1..Len(acts)
      /\ Len(acts) \in Nat
  BY Indices, LenProperties DEF Pushed
<1>2. QED BY <1>1 DEF Pushed, Keeps

LEMMA PoppedKeeps ==
  ASSUME STypeOK, acts # <<>>, Popped
  PROVE  /\ acts' \in Seq(ActSet) /\ DOMAIN acts' \subseteq Nat \ {0} /\ Keeps(0, -1)
<1>1. /\ DOMAIN acts' = 1..(Len(acts) - 1) /\ DOMAIN acts = 1..Len(acts) /\ Len(acts) \in Nat
  BY Indices, LenProperties DEF Popped
<1>2. QED BY <1>1 DEF Popped, Keeps

LEMMA SingleKeeps ==
  ASSUME NEW at \in AtSet, NEW who \in Caller \cup Task \cup {None}, acts' = <<Act(at, who)>>
  PROVE  /\ acts' \in Seq(ActSet) /\ 1 \in DOMAIN acts' /\ acts'[1] = Act(at, who)
         /\ DOMAIN acts' = {1} /\ DOMAIN acts' \subseteq Nat \ {0} /\ Keeps(1, 0)
<1>1. Act(at, who) \in ActSet BY DEF Act, ActSet
<1>2. QED BY <1>1 DEF Keeps

(* What holds of the new stack if the new entries are right: at most one   *)
(* of them, the last, is a start() that has yet to pass the turn on.       *)
LEMMA StackKept ==
  ASSUME Stack, DOMAIN acts' \subseteq Nat \ {0}, NEW k \in 0..2, NEW d \in Int, Keeps(k, d),
         \A i \in DOMAIN acts : acts[i].at = "test" => task'[acts[i].who] = "ended",
         \A i \in DOMAIN acts' :
           i <= k => /\ i > 1 => acts'[i].at \in {"test", "end"}
                     /\ acts'[i].at = "task" => task'[acts'[i].who] = "running"
                     /\ acts'[i].at = "test" => /\ i = k /\ task'[acts'[i].who] = "ended"
                                                /\ task[acts'[i].who] # "ended"
                     /\ acts'[i].at = "start" => q' # <<>> /\ q'[1][1] = acts'[i].who
  PROVE  Stack'
<1>1. \A i \in DOMAIN acts' :
        i > k => /\ i - d \in DOMAIN acts /\ acts'[i] = acts[i - d]
                 /\ acts'[i].at \in {"test", "end"}
  BY DEF Keeps, Stack, Below
<1>2. \A i \in DOMAIN acts' : i \in Nat /\ (i <= k \/ i > k) OBVIOUS
<1>3. Below' /\ TaskRuns' /\ StartHead'
  BY <1>1, <1>2 DEF Below, TaskRuns, StartHead
<1>4. TestEnded' BY <1>1, <1>2 DEF TestEnded
<1>5. TestOnce'
  <2> SUFFICES ASSUME NEW i \in DOMAIN acts', NEW j \in DOMAIN acts', acts'[i].at = "test",
                      acts'[j].at = "test", acts'[i].who = acts'[j].who
               PROVE  i = j
    BY DEF TestOnce
  <2>1. CASE i <= k /\ j <= k BY <2>1
  <2>2. CASE i > k /\ j > k
    <3>1. i - d = j - d BY <1>1, <2>2 DEF Stack, TestOnce
    <3>2. QED BY <1>2, <3>1
  <2>3. CASE i <= k /\ j > k BY <1>1, <2>3 DEF Stack, TestEnded
  <2>4. CASE i > k /\ j <= k BY <1>1, <2>4 DEF Stack, TestEnded
  <2>5. QED BY <1>2, <2>1, <2>2, <2>3, <2>4
<1>6. QED BY <1>3, <1>4, <1>5 DEF Stack

(* The start() below the top that have the turn.                           *)
Deep == {t \in Task : \E j \in DOMAIN acts : j > 1 /\ acts[j].at = "test" /\ acts[j].who = t}

LEMMA TurnsKept ==
  ASSUME Stack, DOMAIN acts' \subseteq Nat \ {0}, NEW k \in 0..2, NEW d \in Int, Keeps(k, d)
  PROVE  /\ Deep \subseteq Turns
         /\ \A t \in Turns' :
              \/ t \in Task /\ task'[t] = "running"
              \/ t \in Deep
              \/ \E i \in DOMAIN acts' :
                   i <= k /\ acts'[i].at \in {"start", "test"} /\ acts'[i].who = t
<1>1. Deep \subseteq Turns BY DEF Deep, Turns, HasTurn
<1>2. ASSUME NEW t \in Turns', task'[t] # "running", t \notin Deep
      PROVE  \E i \in DOMAIN acts' :
               i <= k /\ acts'[i].at \in {"start", "test"} /\ acts'[i].who = t
  <2>1. PICK i \in DOMAIN acts' : acts'[i].at \in {"start", "test"} /\ acts'[i].who = t
    BY <1>2 DEF Turns, HasTurn
  <2>2. CASE i > k
    <3>1. i - d \in DOMAIN acts /\ i - d > 1 /\ acts'[i] = acts[i - d] BY <2>2 DEF Keeps
    <3>2. acts[i - d].at = "test" BY <2>1, <3>1 DEF Stack, Below
    <3>3. t \in Task BY DEF Turns
    <3>4. t \in Deep BY <2>1, <3>1, <3>2, <3>3 DEF Deep
    <3>5. QED BY <1>2, <3>4
  <2>3. QED BY <2>1, <2>2
<1>3. QED BY <1>1, <1>2 DEF Turns

-----------------------------------------------------------------------------
(* How the number of turns changes. *)

LEMMA SetShrinks ==
  ASSUME NEW S, NEW R, NEW n \in Nat, NEW m \in Nat, IsFiniteSet(S), Cardinality(S) <= n,
         R \subseteq S, n <= m
  PROVE  IsFiniteSet(R) /\ Cardinality(R) <= m
<1> DEFINE a == Cardinality(S)  b == Cardinality(R)
<1>1. IsFiniteSet(R) /\ b <= a BY FS_Subset
<1>2. a \in Nat /\ b \in Nat BY <1>1, FS_CardinalityType
<1>3. a <= n OBVIOUS
<1> HIDE DEF a, b
<1>4. b <= m BY <1>1, <1>2, <1>3
<1>5. QED BY <1>1, <1>4 DEF b

LEMMA SetGrows ==
  ASSUME NEW S, NEW R, NEW x, NEW n \in Nat, IsFiniteSet(S), Cardinality(S) <= n,
         R \subseteq S \cup {x}
  PROVE  IsFiniteSet(R) /\ Cardinality(R) <= n + 1
<1> DEFINE a == Cardinality(S)  U == S \cup {x}  b == Cardinality(U)
<1>1. IsFiniteSet(U) /\ b = IF x \in S THEN a ELSE a + 1 BY FS_AddElement
<1>2. a \in Nat BY FS_CardinalityType
<1>3. a <= n /\ R \subseteq U OBVIOUS
<1> HIDE DEF a, b
<1>4. b <= n + 1 BY <1>1, <1>2, <1>3
<1>5. n + 1 \in Nat OBVIOUS
<1> HIDE DEF U
<1>6. QED BY <1>1, <1>3, <1>4, <1>5, SetShrinks DEF b

LEMMA SetLoses ==
  ASSUME NEW S, NEW R, NEW x \in S, NEW n \in Nat, IsFiniteSet(S), Cardinality(S) <= n,
         R \subseteq S \ {x}
  PROVE  IsFiniteSet(R) /\ Cardinality(R) <= n - 1 /\ n >= 1
<1> DEFINE a == Cardinality(S)  U == S \ {x}  b == Cardinality(U)
<1>1. IsFiniteSet(U) /\ b = a - 1 BY FS_RemoveElement
<1>2. a \in Nat /\ b \in Nat BY <1>1, FS_CardinalityType
<1>3. a <= n /\ R \subseteq U OBVIOUS
<1> HIDE DEF a, b
<1>4. b <= n - 1 /\ n >= 1 /\ n - 1 \in Nat BY <1>1, <1>2, <1>3
<1> HIDE DEF U
<1>5. QED BY <1>1, <1>3, <1>4, SetShrinks DEF b

LEMMA SetSwaps ==
  ASSUME NEW S, NEW R, NEW x \in S, NEW y, NEW n \in Nat, IsFiniteSet(S), Cardinality(S) <= n,
         R \subseteq (S \ {x}) \cup {y}
  PROVE  IsFiniteSet(R) /\ Cardinality(R) <= n
<1> DEFINE U == S \ {x}
<1>1. IsFiniteSet(U) /\ Cardinality(U) <= n - 1 /\ n >= 1 BY SetLoses
<1>2. n - 1 \in Nat /\ n - 1 + 1 = n BY <1>1
<1>3. R \subseteq U \cup {y} OBVIOUS
<1> HIDE DEF U
<1>4. IsFiniteSet(R) /\ Cardinality(R) <= n - 1 + 1 BY <1>1, <1>2, <1>3, SetGrows
<1>5. QED BY <1>2, <1>4

LEMMA TurnsStay ==
  ASSUME TurnsCounted, Places \in Nat, Places' \in Nat, Turns' \subseteq Turns, Places <= Places'
  PROVE  TurnsCounted'
BY SetShrinks DEF TurnsCounted

LEMMA TurnComes ==
  ASSUME TurnsCounted, Places \in Nat, Places' = Places + 1,
         NEW t, Turns' \subseteq Turns \cup {t}
  PROVE  TurnsCounted'
BY SetGrows DEF TurnsCounted

LEMMA TurnGoes ==
  ASSUME TurnsCounted, Places \in Nat, Places' \in Nat, Places <= Places' + 1,
         NEW t \in Turns, Turns' \subseteq Turns \ {t}
  PROVE  TurnsCounted'
<1>1. IsFiniteSet(Turns') /\ Cardinality(Turns') <= Places - 1 /\ Places >= 1
  BY SetLoses DEF TurnsCounted
<1>2. Cardinality(Turns') \in Nat BY <1>1, FS_CardinalityType
<1> DEFINE b == Cardinality(Turns')  n == Places  m == Places'
<1>3. b <= n - 1 /\ b \in Nat /\ n \in Nat /\ m \in Nat /\ n <= m + 1 BY <1>1, <1>2
<1> HIDE DEF b, n, m
<1>4. b <= m BY <1>3
<1>5. QED BY <1>1, <1>4 DEF b, m, TurnsCounted

LEMMA TurnPasses ==
  ASSUME TurnsCounted, Places \in Nat, Places' = Places,
         NEW t \in Turns, NEW s, Turns' \subseteq (Turns \ {t}) \cup {s}
  PROVE  TurnsCounted'
BY SetSwaps DEF TurnsCounted

LEMMA PlacesKnown ==
  ASSUME clears \in Nat, isRun \in BOOLEAN
  PROVE  Places \in Nat /\ clears <= Places /\ (isRun => Places = clears + 1)
         /\ (~isRun => Places = clears)
BY DEF Places

-----------------------------------------------------------------------------
(* What leaves the calls and the starts alone.                             *)
LEMMA OrderSame ==
  ASSUME IInv, UNCHANGED <<called, started, calls>>, UNCHANGED <<q, alive>> \/ ~alive',
         \A t \in Task : task'[t] # "new" => task[t] # "new"
  PROVE  Order'
BY DEF IInv, Order, StartedFirst, QueuedNext, CalledOnce, CalledPast, NewOrStarted

(* The executor lives on, and is idle only with an empty queue.            *)
LEMMA LivesOn ==
  ASSUME IInv, STypeOK', Stack', Order', TurnsCounted', alive, UNCHANGED alive, IdleEmpty'
  PROVE  IInv'
BY DEF IInv, GoneQuiet

LEMMA AliveOnStack == ASSUME IInv, acts # <<>> PROVE alive
BY DEF IInv, GoneQuiet, STypeOK

-----------------------------------------------------------------------------
(* What the callers do. *)

(* The top suspends: the resumption below goes on.                         *)
LEMMA PoppedInv ==
  ASSUME IInv, acts # <<>>, Suspend,
         UNCHANGED <<isRun, q, waits, awaits, task, calls, alive, called, started, clears>>
  PROVE  IInv'
<1>0. STypeOK /\ Stack /\ TurnsCounted BY DEF IInv
<1>1. Popped BY <1>0, TopPopped
<1>2. acts' \in Seq(ActSet) /\ DOMAIN acts' \subseteq Nat \ {0} /\ Keeps(0, -1)
  BY <1>0, <1>1, PoppedKeeps
<1>3. alive BY AliveOnStack
<1>4. STypeOK' BY <1>0, <1>2 DEF STypeOK
<1>5. 0 \in 0..2 /\ -1 \in Int OBVIOUS
<1>6. \A i \in DOMAIN acts' : ~(i <= 0) BY <1>2
<1>7. Stack'
  <2>1. \A i \in DOMAIN acts : acts[i].at = "test" => task'[acts[i].who] = "ended"
    BY <1>0 DEF Stack, TestEnded
  <2>2. QED BY <1>0, <1>2, <1>5, <1>6, <2>1, StackKept
<1>8. Turns' \subseteq Turns
  <2>1. \A t \in Turns' : (t \in Task /\ task'[t] = "running") \/ t \in Deep
    BY <1>0, <1>2, <1>5, <1>6, TurnsKept
  <2>2. Deep \subseteq Turns BY <1>0, <1>2, <1>5, TurnsKept
  <2>3. QED BY <2>1, <2>2 DEF Turns, HasTurn
<1>9. TurnsCounted'
  <2>1. Places' = Places /\ Places \in Nat BY <1>0, PlacesKnown DEF Places, STypeOK
  <2>2. QED BY <1>0, <1>8, <2>1, TurnsStay
<1>10. Order' BY OrderSame
<1>11. IdleEmpty' BY DEF IInv, IdleEmpty
<1>12. QED BY <1>3, <1>4, <1>7, <1>9, <1>10, <1>11, LivesOn

LEMMA TaskParts ==
  ASSUME NEW t \in Task
  PROVE  t[1] \in Caller /\ t[2] \in Nat
<1>1. PICK c \in Caller : t \in {c} \X (1..MaxCalls[c]) BY DEF Task
<1>2. t[1] = c /\ t[2] \in 1..MaxCalls[c] BY <1>1
<1>3. QED BY <1>2

(* serial() appends a task to the calls and to the queue.                  *)
CallOf(c) == <<c, calls[c] + 1>>

LEMMA Queued ==
  ASSUME IInv, NEW c \in Caller, Serial(c)
  PROVE  /\ alive /\ CallOf(c) \in Task
         /\ \E w \in Caller \cup {None} : q' = Append(q, <<CallOf(c), w>>)
         /\ q' \in Seq(Entry) /\ called' \in Seq(Task) /\ calls' \in [Caller -> Nat]
         /\ q' # <<>> /\ (q # <<>> => q'[1] = q[1]) /\ (q = <<>> => q'[1][1] = CallOf(c))
         /\ Order'
<1> USE DEF IInv, STypeOK
<1>1. alive
  <2>1. CASE acts = <<>> BY <2>1 DEF Serial, Executes, Top
  <2>2. CASE acts # <<>> BY <2>2, AliveOnStack
  <2>3. QED BY <2>1, <2>2
<1>2. CallOf(c) \in Task
  <2>1. calls[c] \in Nat /\ calls[c] < MaxCalls[c] /\ MaxCalls[c] \in Nat BY DEF Serial
  <2>2. calls[c] + 1 \in 1..MaxCalls[c] BY <2>1
  <2>3. QED BY <2>2 DEF CallOf, Task
<1>3. /\ called' = Append(called, CallOf(c)) /\ calls' = [calls EXCEPT ![c] = @ + 1]
      /\ UNCHANGED <<started, alive, task>>
  BY DEF Serial, CallOf
<1>4. PICK w \in Caller \cup {None} : q' = Append(q, <<CallOf(c), w>>)
  BY DEF Serial, CallOf
<1>5. <<CallOf(c), w>> \in Entry BY <1>2 DEF Entry
<1>6. /\ q' \in Seq(Entry) /\ q' # <<>> /\ Len(q') = Len(q) + 1
      /\ \A i \in 1..Len(q) : q'[i] = q[i]
      /\ q'[Len(q) + 1] = <<CallOf(c), w>>
  BY <1>4, <1>5, AppendProperties
<1>7. /\ called' \in Seq(Task) /\ Len(called') = Len(called) + 1
      /\ \A i \in 1..Len(called) : called'[i] = called[i]
      /\ called'[Len(called) + 1] = CallOf(c)
  BY <1>2, <1>3, AppendProperties
<1>8. /\ Len(q) \in Nat /\ Len(called) \in Nat /\ Len(started) \in Nat
      /\ (q # <<>> => Len(q) > 0) /\ (q = <<>> => Len(q) = 0)
  BY EmptySeq, LenProperties
<1>9. StartedFirst' BY <1>3, <1>7, <1>8 DEF Order, StartedFirst
<1>10. QueuedNext'
  <2> SUFFICES /\ Len(called') = Len(started) + Len(q')
               /\ \A i \in 1..Len(q') : q'[i][1] = called'[Len(started) + i]
    BY <1>3 DEF QueuedNext
  <2>1. Len(called) = Len(started) + Len(q)
        /\ \A i \in 1..Len(q) : q[i][1] = called[Len(started) + i]
    BY <1>1 DEF Order, QueuedNext
  <2>2. Len(called') = Len(started) + Len(q') BY <1>6, <1>7, <1>8, <2>1
  <2>3. ASSUME NEW i \in 1..Len(q') PROVE q'[i][1] = called'[Len(started) + i]
    <3>1. CASE i <= Len(q)
      <4>1. i \in 1..Len(q) /\ Len(started) + i \in 1..Len(called) BY <1>6, <1>8, <2>1, <3>1
      <4>2. q'[i] = q[i] /\ called'[Len(started) + i] = called[Len(started) + i]
        BY <1>6, <1>7, <4>1
      <4>3. QED BY <2>1, <4>1, <4>2
    <3>2. CASE i = Len(q) + 1
      <4>1. q'[i][1] = CallOf(c) BY <1>6, <3>2
      <4>2. Len(started) + i = Len(called) + 1 BY <1>8, <2>1, <3>2
      <4>3. QED BY <1>7, <4>1, <4>2
    <3>3. QED BY <1>6, <1>8, <3>1, <3>2
  <2>4. QED BY <2>2, <2>3
<1>11. q # <<>> => q'[1] = q[1] BY <1>6, <1>8
<1>12. q = <<>> => q'[1][1] = CallOf(c) BY <1>6, <1>8
<1>13. calls' \in [Caller -> Nat] BY <1>3
<1>14. ASSUME NEW i \in 1..Len(called)
       PROVE  called[i] # CallOf(c) /\ called[i][2] <= calls'[called[i][1]]
  <2>1. called[i] \in Task BY ElementOfSeq
  <2>2. called[i][1] \in Caller /\ called[i][2] \in Nat BY <2>1, TaskParts
  <2>3. called[i][2] <= calls[called[i][1]] BY DEF Order, CalledPast
  <2>4. calls[called[i][1]] \in Nat /\ calls[c] \in Nat BY <2>2
  <2>5. called[i][1] = c => called[i][2] # calls[c] + 1 BY <2>2, <2>3, <2>4
  <2>6. calls'[called[i][1]] = IF called[i][1] = c THEN calls[c] + 1 ELSE calls[called[i][1]]
    BY <1>3, <2>2
  <2>7. QED BY <2>2, <2>3, <2>4, <2>5, <2>6 DEF CallOf
<1>15. CalledOnce'
  <2> SUFFICES ASSUME NEW i \in 1..Len(called'), NEW j \in 1..Len(called'), called'[i] = called'[j]
               PROVE  i = j
    BY DEF CalledOnce
  <2>1. /\ i \in 1..Len(called) \/ i = Len(called) + 1
        /\ j \in 1..Len(called) \/ j = Len(called) + 1
    BY <1>7, <1>8
  <2>2. QED BY <1>7, <1>14, <2>1 DEF Order, CalledOnce
<1>16. CalledPast'
  <2> SUFFICES ASSUME NEW i \in 1..Len(called') PROVE called'[i][2] <= calls'[called'[i][1]]
    BY DEF CalledPast
  <2>1. CASE i \in 1..Len(called) BY <1>7, <1>14, <2>1
  <2>2. CASE i = Len(called) + 1
    <3>1. called'[i][1] = c /\ called'[i][2] = calls[c] + 1 BY <1>7, <2>2 DEF CallOf
    <3>2. calls'[c] = calls[c] + 1 /\ calls[c] \in Nat BY <1>3
    <3>3. QED BY <3>1, <3>2
  <2>3. QED BY <1>7, <1>8, <2>1, <2>2
<1>17. NewOrStarted' BY <1>3 DEF Order, NewOrStarted
<1>18. Order' BY <1>9, <1>10, <1>15, <1>16, <1>17 DEF Order
<1>19. QED BY <1>1, <1>2, <1>4, <1>6, <1>7, <1>11, <1>12, <1>13, <1>18

LEMMA SerialWaits ==
  ASSUME IInv, NEW c \in Caller, Serial(c), MustWait
  PROVE  IInv'
<1>0. STypeOK /\ Stack /\ TurnsCounted BY DEF IInv
<1>1. /\ isRun /\ acts' = Rest
      /\ UNCHANGED <<isRun, waits, awaits, task, alive, started, clears>>
  BY DEF Serial, MustWait, Suspend
<1>2. acts' \in Seq(ActSet) /\ DOMAIN acts' \subseteq Nat \ {0} /\ Keeps(0, -1)
  <2>1. CASE acts = <<>>
    <3>1. acts' = <<>> /\ DOMAIN acts' = {} BY <1>1, <2>1 DEF Rest
    <3>2. QED BY <3>1, EmptySeq DEF Keeps
  <2>2. CASE acts # <<>> BY <1>0, <1>1, <2>2, TopPopped, PoppedKeeps DEF Suspend
  <2>3. QED BY <2>1, <2>2
<1>4. STypeOK' BY <1>0, <1>1, <1>2, Queued DEF STypeOK
<1>5. 0 \in 0..2 /\ -1 \in Int OBVIOUS
<1>6. \A i \in DOMAIN acts' : ~(i <= 0) BY <1>2
<1>7. Stack'
  <2>1. \A i \in DOMAIN acts : acts[i].at = "test" => task'[acts[i].who] = "ended"
    BY <1>0, <1>1 DEF Stack, TestEnded
  <2>2. QED BY <1>0, <1>2, <1>5, <1>6, <2>1, StackKept
<1>8. Turns' \subseteq Turns
  <2>1. \A t \in Turns' : (t \in Task /\ task'[t] = "running") \/ t \in Deep
    BY <1>0, <1>2, <1>5, <1>6, TurnsKept
  <2>2. Deep \subseteq Turns BY <1>0, <1>2, <1>5, TurnsKept
  <2>3. QED BY <1>1, <2>1, <2>2 DEF Turns, HasTurn
<1>9. TurnsCounted'
  <2>1. Places' = Places /\ Places \in Nat BY <1>0, <1>1, PlacesKnown DEF Places, STypeOK
  <2>2. QED BY <1>0, <1>8, <2>1, TurnsStay
<1>10. alive /\ IdleEmpty' BY <1>1, Queued DEF IdleEmpty
<1>11. QED BY <1>1, <1>4, <1>7, <1>9, <1>10, Queued, LivesOn

LEMMA SerialStarts ==
  ASSUME IInv, NEW c \in Caller, Serial(c), ~MustWait
  PROVE  IInv'
<1>0. STypeOK /\ Stack /\ TurnsCounted BY DEF IInv
<1>1. /\ ~isRun /\ isRun' = TRUE /\ q = <<>>
      /\ awaits' = [awaits EXCEPT ![Head(q')[1]] = c]
      /\ acts' = Goto("start", Head(q')[1])
      /\ UNCHANGED <<waits, task, alive, started, clears>>
  BY DEF Serial, MustWait, IInv, IdleEmpty
<1> DEFINE t == CallOf(c)
<1>2. Head(q') = q'[1] /\ Head(q')[1] = t /\ t \in Task BY <1>1, Queued
<1> HIDE DEF t
<1>3. /\ acts' \in Seq(ActSet) /\ 1 \in DOMAIN acts' /\ acts'[1] = Act("start", t)
      /\ DOMAIN acts' \subseteq Nat \ {0} /\ Keeps(1, 0)
  <2>1. "start" \in AtSet BY DEF AtSet
  <2>2. CASE acts = <<>>
    <3>1. Act("start", t) \in ActSet BY <1>2 DEF Act, ActSet, AtSet
    <3>2. acts' = <<Act("start", t)>> BY <1>1, <1>2, <2>2, <3>1, ConcatEmptySeq DEF Goto, Rest
    <3>3. QED BY <1>2, <2>1, <3>2, SingleKeeps
  <2>3. CASE acts # <<>>
    <3>1. Replaced(Act("start", t)) BY <1>0, <1>1, <1>2, <2>1, <2>3, TopReplaced
    <3>2. QED BY <1>0, <2>3, <3>1, ReplacedKeeps
  <2>4. QED BY <2>2, <2>3
<1>4. STypeOK' BY <1>0, <1>1, <1>2, <1>3, Queued DEF STypeOK
<1>5. acts'[1].at = "start" /\ acts'[1].who = t BY <1>3 DEF Act
<1>6. 1 \in 0..2 /\ 0 \in Int /\ \A i \in DOMAIN acts' : i <= 1 => i = 1 BY <1>3
<1>7. Stack'
  <2>1. \A i \in DOMAIN acts : acts[i].at = "test" => task'[acts[i].who] = "ended"
    BY <1>0, <1>1 DEF Stack, TestEnded
  <2>2. q' # <<>> /\ q'[1][1] = t BY <1>2, Queued
  <2>3. QED BY <1>0, <1>3, <1>5, <1>6, <2>1, <2>2, StackKept
<1>8. Turns' \subseteq Turns \cup {t}
  <2>1. \A s \in Turns' : (s \in Task /\ task'[s] = "running") \/ s \in Deep \/ s = t
    BY <1>0, <1>3, <1>5, <1>6, TurnsKept
  <2>2. Deep \subseteq Turns BY <1>0, <1>3, <1>6, TurnsKept
  <2>3. QED BY <1>1, <2>1, <2>2 DEF Turns, HasTurn
<1>9. TurnsCounted'
  <2>1. Places' = Places + 1 /\ Places \in Nat BY <1>0, <1>1 DEF Places, STypeOK
  <2>2. QED BY <1>0, <1>8, <2>1, TurnComes
<1>10. alive /\ IdleEmpty' BY <1>1, Queued DEF IdleEmpty
<1>11. QED BY <1>1, <1>4, <1>7, <1>9, <1>10, Queued, LivesOn

-----------------------------------------------------------------------------
(* start() and its task. *)

(* The entry that Pop takes. *)
LEMMA PopTakes ==
  ASSUME IInv, NEW t \in Task, Pop(t)
  PROVE  /\ q # <<>> /\ q[1] \in Entry /\ q[1][1] = t /\ task[t] = "new" /\ alive /\ isRun
         /\ started' = Append(started, t) /\ task' = [task EXCEPT ![t] = "running"]
         /\ started' \in Seq(Task) /\ q' \in Seq(Entry) /\ Order'
<1> USE DEF IInv
<1>1. acts # <<>> /\ acts[1].at = "start" /\ acts[1].who = t /\ 1 \in DOMAIN acts
  BY TopIsFirst, Indices DEF Pop
<1>2. q # <<>> /\ q[1][1] = t BY <1>1 DEF Stack, StartHead
<1>3. q[1] \in Entry /\ Tail(q) \in Seq(Entry) /\ Len(Tail(q)) = Len(q) - 1
      /\ \A i \in 1..Len(Tail(q)) : Tail(q)[i] = q[i + 1]
  BY <1>2, HeadTailProperties, Indices, ElementOfSeq DEF STypeOK
<1>4. q' = Tail(q)
  <2>1. q' = SubSeq(q, 1, 0) \o SubSeq(q, 2, Len(q)) BY DEF Pop, NextIndex, RemoveAt
  <2>2. SubSeq(q, 1, 0) = <<>> BY SubSeqEmpty
  <2>3. SubSeq(q, 2, Len(q)) = Tail(q) BY <1>2, TailIsSubSeq DEF STypeOK
  <2>4. QED BY <1>3, <2>1, <2>2, <2>3, ConcatEmptySeq
<1>5. started' = Append(started, t) /\ task' = [task EXCEPT ![t] = "running"]
  BY <1>2 DEF Pop, NextIndex
<1>6. /\ started' \in Seq(Task) /\ Len(started') = Len(started) + 1
      /\ \A i \in 1..Len(started) : started'[i] = started[i]
      /\ started'[Len(started) + 1] = t
  BY <1>5, AppendProperties DEF STypeOK
<1>7. called' = called /\ calls' = calls /\ alive' = alive /\ alive /\ isRun
  BY <1>2 DEF Pop, GoneQuiet, IdleEmpty
<1>8. Len(called) = Len(started) + Len(q)
      /\ \A i \in 1..Len(q) : q[i][1] = called[Len(started) + i]
  BY <1>7 DEF Order, QueuedNext
<1>9. Len(q) > 0 /\ t = called[Len(started) + 1] BY <1>2, <1>8, Indices
<1>10. StartedFirst'
  <2>1. Len(started') <= Len(called') BY <1>6, <1>7, <1>8, <1>9, Indices
  <2>2. ASSUME NEW i \in 1..Len(started') PROVE started'[i] = called'[i]
    <3>1. CASE i \in 1..Len(started) BY <1>6, <1>7, <3>1 DEF Order, StartedFirst
    <3>2. CASE i = Len(started) + 1 BY <1>6, <1>7, <1>9, <3>2
    <3>3. QED BY <1>6, <3>1, <3>2, Indices
  <2>3. QED BY <2>1, <2>2 DEF StartedFirst
<1>11. QueuedNext'
  <2>1. Len(called') = Len(started') + Len(q') BY <1>3, <1>4, <1>6, <1>7, <1>8, Indices
  <2>2. ASSUME NEW i \in 1..Len(q') PROVE q'[i][1] = called'[Len(started') + i]
    <3>1. i + 1 \in 1..Len(q) /\ q'[i] = q[i + 1] BY <1>3, <1>4, Indices
    <3>2. Len(started') + i = Len(started) + (i + 1) BY <1>6, Indices
    <3>3. QED BY <1>7, <1>8, <3>1, <3>2
  <2>3. QED BY <2>1, <2>2 DEF QueuedNext
<1>12. task[t] = "new"
  <2> SUFFICES ASSUME task[t] # "new" PROVE FALSE
    OBVIOUS
  <2>1. PICK i \in 1..Len(started) : started[i] = t BY DEF Order, NewOrStarted
  <2>2. called[i] = t BY <2>1 DEF Order, StartedFirst
  <2>3. i \in 1..Len(called) /\ Len(started) + 1 \in 1..Len(called) BY <1>8, <1>9, Indices
  <2>4. i = Len(started) + 1 BY <1>9, <2>2, <2>3 DEF Order, CalledOnce
  <2>5. QED BY <2>4, Indices
<1>13. CalledOnce' /\ CalledPast' BY <1>7 DEF Order, CalledOnce, CalledPast
<1>14. NewOrStarted'
  <2> SUFFICES ASSUME NEW s \in Task, task'[s] # "new"
               PROVE  \E i \in 1..Len(started') : started'[i] = s
    BY DEF NewOrStarted
  <2>1. CASE s = t
    <3>1. Len(started) + 1 \in 1..Len(started') BY <1>6, Indices
    <3>2. QED BY <1>6, <2>1, <3>1
  <2>2. CASE s # t
    <3>1. task[s] # "new" BY <1>5, <2>2 DEF STypeOK
    <3>2. PICK i \in 1..Len(started) : started[i] = s BY <3>1 DEF Order, NewOrStarted
    <3>3. i \in 1..Len(started') BY <1>6, Indices
    <3>4. QED BY <1>6, <3>2, <3>3
  <2>3. QED BY <2>1, <2>2
<1>15. Order' BY <1>10, <1>11, <1>13, <1>14 DEF Order
<1>16. QED BY <1>2, <1>3, <1>4, <1>5, <1>6, <1>7, <1>12, <1>15

LEMMA PopInv == ASSUME IInv, NEW t \in Task, Pop(t) PROVE IInv'
<1>0. STypeOK /\ Stack /\ TurnsCounted BY DEF IInv
<1>1. /\ acts # <<>> /\ acts[1].at = "start" /\ acts[1].who = t /\ 1 \in DOMAIN acts
      /\ acts' = Goto("task", t)
      /\ UNCHANGED <<isRun, awaits, calls, alive, called, clears>>
  BY <1>0, TopIsFirst, Indices DEF Pop
<1>2. Replaced(Act("task", t)) BY <1>0, <1>1, TopReplaced DEF AtSet
<1>3. /\ acts' \in Seq(ActSet) /\ 1 \in DOMAIN acts' /\ acts'[1] = Act("task", t)
      /\ DOMAIN acts' \subseteq Nat \ {0} /\ Keeps(1, 0)
  BY <1>0, <1>1, <1>2, ReplacedKeeps
<1>4. acts'[1].at = "task" /\ acts'[1].who = t BY <1>3 DEF Act
<1>5. task[t] = "new" /\ task' = [task EXCEPT ![t] = "running"] /\ alive /\ isRun BY PopTakes
<1>6. 1 \in 0..2 /\ 0 \in Int /\ \A i \in DOMAIN acts' : i <= 1 => i = 1 BY <1>3
<1>7. task'[t] = "running" /\ \A s \in Task : s # t => task'[s] = task[s] BY <1>0, <1>5 DEF STypeOK
<1>8. STypeOK'
  <2>1. waits' \in [Task -> Caller \cup {None}]
    <3>1. q[1][2] \in Caller \cup {None} BY PopTakes DEF Entry
    <3>2. waits' = [waits EXCEPT ![t] = q[1][2]] BY DEF Pop, NextIndex
    <3>3. QED BY <1>0, <3>1, <3>2 DEF STypeOK
  <2>2. task' \in [Task -> {"new", "running", "ended", "threw", "destroyed"}]
    BY <1>0, <1>5 DEF STypeOK
  <2>3. QED BY <1>0, <1>1, <1>3, <2>1, <2>2, PopTakes DEF STypeOK
<1>9. Stack'
  <2>1. ASSUME NEW i \in DOMAIN acts, acts[i].at = "test" PROVE task'[acts[i].who] = "ended"
    <3>1. task[acts[i].who] = "ended" BY <1>0, <2>1 DEF Stack, TestEnded
    <3>2. QED BY <1>0, <1>5, <3>1 DEF STypeOK
  <2>2. QED BY <1>0, <1>3, <1>4, <1>6, <1>7, <2>1, StackKept
<1>10. Turns' \subseteq Turns
  <2>1. \A s \in Turns' : (s \in Task /\ task'[s] = "running") \/ s \in Deep
    BY <1>0, <1>3, <1>4, <1>6, TurnsKept
  <2>2. Deep \subseteq Turns BY <1>0, <1>3, <1>6, TurnsKept
  <2>3. t \in Turns BY <1>1 DEF Turns, HasTurn
  <2>4. \A s \in Task : task'[s] = "running" => s \in Turns BY <1>7, <2>3 DEF Turns, HasTurn
  <2>5. QED BY <2>1, <2>2, <2>4
<1>11. TurnsCounted'
  <2>1. Places' = Places /\ Places \in Nat BY <1>0, <1>1, PlacesKnown DEF Places, STypeOK
  <2>2. QED BY <1>0, <1>10, <2>1, TurnsStay
<1>12. IdleEmpty' BY <1>1, <1>5 DEF IdleEmpty
<1>13. QED BY <1>1, <1>5, <1>8, <1>9, <1>11, <1>12, PopTakes, LivesOn

LEMMA ResumedInv == ASSUME IInv, NEW t \in Task, TaskResumed(t) PROVE IInv'
<1>0. STypeOK /\ Stack /\ TurnsCounted BY DEF IInv
<1>1. /\ acts = <<>> /\ task[t] = "running" /\ acts' = <<Act("task", t)>>
      /\ UNCHANGED <<isRun, q, waits, awaits, task, calls, alive, called, started, clears>>
  BY DEF TaskResumed, stateVars, frameVars
<1>2. /\ acts' \in Seq(ActSet) /\ 1 \in DOMAIN acts' /\ acts'[1] = Act("task", t)
      /\ DOMAIN acts' \subseteq Nat \ {0} /\ Keeps(1, 0)
  BY <1>1, SingleKeeps DEF AtSet
<1>3. acts'[1].at = "task" /\ acts'[1].who = t BY <1>2 DEF Act
<1>4. 1 \in 0..2 /\ 0 \in Int /\ \A i \in DOMAIN acts' : i <= 1 => i = 1 BY <1>2
<1>5. STypeOK' BY <1>0, <1>1, <1>2 DEF STypeOK
<1>6. Stack'
  <2>1. \A i \in DOMAIN acts : acts[i].at = "test" => task'[acts[i].who] = "ended"
    BY <1>0, <1>1 DEF Stack, TestEnded
  <2>2. QED BY <1>0, <1>1, <1>2, <1>3, <1>4, <2>1, StackKept
<1>7. Turns' \subseteq Turns
  <2>1. \A s \in Turns' : (s \in Task /\ task'[s] = "running") \/ s \in Deep
    BY <1>0, <1>2, <1>3, <1>4, TurnsKept
  <2>2. Deep \subseteq Turns BY <1>0, <1>2, <1>4, TurnsKept
  <2>3. QED BY <1>1, <2>1, <2>2 DEF Turns, HasTurn
<1>8. TurnsCounted'
  <2>1. Places' = Places /\ Places \in Nat BY <1>0, <1>1, PlacesKnown DEF Places, STypeOK
  <2>2. QED BY <1>0, <1>7, <2>1, TurnsStay
<1>9. alive /\ IdleEmpty' BY <1>1 DEF IInv, GoneQuiet, IdleEmpty
<1>10. Order' BY <1>1, OrderSame
<1>11. QED BY <1>1, <1>5, <1>6, <1>8, <1>9, <1>10, LivesOn

(* A task that executed ends or throws; it may leave a start() that has    *)
(* yet to pass its turn on.                                                *)
LEMMA TaskLeaves ==
  ASSUME IInv, NEW t \in Task, Top("task", t), NEW how \in {"ended", "threw"},
         task' = [task EXCEPT ![t] = how],
         UNCHANGED <<isRun, q, waits, awaits, calls, alive, called, started, clears>>,
         acts' \in Seq(ActSet), DOMAIN acts' \subseteq Nat \ {0}, NEW k \in {1, 2},
         NEW d \in Int, Keeps(k, d),
         \A i \in DOMAIN acts' :
           i <= k => /\ acts'[i].at \in {"test", "caller", "terminated", "undefined"}
                     /\ i > 1 => acts'[i].at = "test"
                     /\ acts'[i].at = "test" => i = k /\ acts'[i].who = t /\ how = "ended"
  PROVE  IInv'
<1>0. STypeOK /\ Stack /\ TurnsCounted BY DEF IInv
<1>1. acts # <<>> /\ acts[1].at = "task" /\ acts[1].who = t /\ 1 \in DOMAIN acts
  BY <1>0, TopIsFirst, Indices
<1>2. task[t] = "running" BY <1>0, <1>1 DEF Stack, TaskRuns
<1>3. task'[t] = how /\ \A s \in Task : s # t => task'[s] = task[s] BY <1>0 DEF STypeOK
<1>4. STypeOK'
  <2>1. task' \in [Task -> {"new", "running", "ended", "threw", "destroyed"}]
    BY <1>0 DEF STypeOK
  <2>2. QED BY <1>0, <2>1 DEF STypeOK
<1>5. k \in 0..2 OBVIOUS
<1>6. Stack'
  <2>1. ASSUME NEW i \in DOMAIN acts, acts[i].at = "test" PROVE task'[acts[i].who] = "ended"
    <3>1. task[acts[i].who] = "ended" BY <1>0, <2>1 DEF Stack, TestEnded
    <3>2. acts[i].who # t BY <1>2, <3>1
    <3>3. QED BY <1>0, <3>1, <3>2 DEF STypeOK
  <2>2. \A i \in DOMAIN acts' :
          i <= k => /\ i > 1 => acts'[i].at \in {"test", "end"}
                    /\ acts'[i].at = "task" => task'[acts'[i].who] = "running"
                    /\ acts'[i].at = "test" => /\ i = k /\ task'[acts'[i].who] = "ended"
                                               /\ task[acts'[i].who] # "ended"
                    /\ acts'[i].at = "start" => q' # <<>> /\ q'[1][1] = acts'[i].who
    BY <1>2, <1>3
  <2>3. QED BY <1>0, <1>5, <2>1, <2>2, StackKept
<1>7. Turns' \subseteq Turns
  <2>1. \A s \in Turns' : (s \in Task /\ task'[s] = "running") \/ s \in Deep \/ s = t
    BY <1>0, <1>5, TurnsKept
  <2>2. Deep \subseteq Turns BY <1>0, <1>5, TurnsKept
  <2>3. t \in Turns BY <1>2 DEF Turns, HasTurn
  <2>4. \A s \in Task : task'[s] = "running" => s \in Turns BY <1>3, <2>3 DEF Turns, HasTurn
  <2>5. QED BY <2>1, <2>2, <2>3, <2>4
<1>8. TurnsCounted'
  <2>1. Places' = Places /\ Places \in Nat BY <1>0, PlacesKnown DEF Places, STypeOK
  <2>2. QED BY <1>0, <1>7, <2>1, TurnsStay
<1>9. alive /\ IdleEmpty' BY <1>1, AliveOnStack DEF IInv, IdleEmpty
<1>10. Order'
  <2>1. \A s \in Task : task'[s] # "new" => task[s] # "new" BY <1>2, <1>3
  <2>2. QED BY <2>1, OrderSame
<1>11. QED BY <1>4, <1>6, <1>8, <1>9, <1>10, LivesOn

LEMMA UndefinedKeeps ==
  ASSUME Undefined
  PROVE  /\ acts' \in Seq(ActSet) /\ 1 \in DOMAIN acts' /\ acts'[1].at = "undefined"
         /\ DOMAIN acts' = {1} /\ DOMAIN acts' \subseteq Nat \ {0} /\ Keeps(1, 0)
<1>1. acts' = <<Act("undefined", None)>> /\ "undefined" \in AtSet BY DEF Undefined, AtSet
<1>2. acts'[1] = Act("undefined", None) BY <1>1, SingleKeeps
<1>3. QED BY <1>1, <1>2, SingleKeeps DEF Act

(* The same, if nothing is left of the turn.                               *)
LEMMA TaskGone ==
  ASSUME IInv, NEW t \in Task, Top("task", t), NEW how \in {"ended", "threw"},
         task' = [task EXCEPT ![t] = how],
         UNCHANGED <<isRun, q, waits, awaits, calls, alive, called, started, clears>>,
         acts' \in Seq(ActSet), DOMAIN acts' \subseteq Nat \ {0}, Keeps(1, 0),
         acts'[1].at \in {"caller", "terminated", "undefined"}
  PROVE  IInv'
<1>1. 1 \in {1, 2} /\ 0 \in Int OBVIOUS
<1>2. \A i \in DOMAIN acts' :
        i <= 1 => /\ acts'[i].at \in {"test", "caller", "terminated", "undefined"}
                  /\ i > 1 => acts'[i].at = "test"
                  /\ acts'[i].at = "test" => i = 1 /\ acts'[i].who = t /\ how = "ended"
  <2>1. \A i \in DOMAIN acts' : i <= 1 => i = 1 OBVIOUS
  <2>2. QED BY <2>1
<1>3. QED BY <1>1, <1>2, TaskLeaves

LEMMA EndsInv == ASSUME IInv, NEW t \in Task, TaskEnds(t) PROVE IInv'
<1>0. STypeOK BY DEF IInv
<1>1. /\ Top("task", t) /\ task' = [task EXCEPT ![t] = "ended"] /\ acts # <<>>
      /\ UNCHANGED <<isRun, q, waits, awaits, calls, alive, called, started, clears>>
  BY DEF TaskEnds, stateVars, frameVars, Top
<1>2. CASE acts' = Goto("test", t)
  <2>1. Replaced(Act("test", t)) BY <1>0, <1>1, <1>2, TopReplaced DEF AtSet
  <2>2. /\ acts' \in Seq(ActSet) /\ acts'[1] = Act("test", t)
        /\ DOMAIN acts' \subseteq Nat \ {0} /\ Keeps(1, 0)
    BY <1>0, <1>1, <2>1, ReplacedKeeps
  <2>3. acts'[1].at = "test" /\ acts'[1].who = t BY <2>2 DEF Act
  <2>4. \A i \in DOMAIN acts' : i <= 1 => i = 1 BY <2>2
  <2>5. 1 \in {1, 2} /\ 0 \in Int OBVIOUS
  <2>6. QED BY <1>1, <2>2, <2>3, <2>4, <2>5, TaskLeaves
<1>3. CASE waits[t] # None /\ acts' = Resumes("caller", waits[t], Act("test", t))
  <2>1. waits[t] \in Caller BY <1>0, <1>3 DEF STypeOK
  <2>2. Act("test", t) \in ActSet BY DEF Act, ActSet, AtSet
  <2>3. Pushed(Act("caller", waits[t]), Act("test", t))
    BY <1>0, <1>1, <1>3, <2>1, <2>2, TopPushed DEF AtSet
  <2>4. /\ acts' \in Seq(ActSet) /\ acts'[1] = Act("caller", waits[t]) /\ acts'[2] = Act("test", t)
        /\ DOMAIN acts' \subseteq Nat \ {0} /\ Keeps(2, 1)
    BY <1>0, <1>1, <2>3, PushedKeeps
  <2>5. acts'[1].at = "caller" /\ acts'[2].at = "test" /\ acts'[2].who = t BY <2>4 DEF Act
  <2>6. \A i \in DOMAIN acts' : i <= 2 => i = 1 \/ i = 2 BY <2>4
  <2>7. 2 \in {1, 2} /\ 1 \in Int OBVIOUS
  <2>8. \A i \in DOMAIN acts' :
          i <= 2 => /\ acts'[i].at \in {"test", "caller", "terminated", "undefined"}
                    /\ i > 1 => acts'[i].at = "test"
                    /\ acts'[i].at = "test" => i = 2 /\ acts'[i].who = t /\ "ended" = "ended"
    BY <2>5, <2>6
  <2>9. QED BY <1>1, <2>4, <2>7, <2>8, TaskLeaves
<1>4. CASE Undefined BY <1>1, <1>4, UndefinedKeeps, TaskGone
<1>5. QED BY <1>2, <1>3, <1>4 DEF TaskEnds

LEMMA ThrowsInv == ASSUME IInv, NEW t \in Task, TaskThrows(t) PROVE IInv'
<1>0. STypeOK BY DEF IInv
<1>1. /\ Top("task", t) /\ task' = [task EXCEPT ![t] = "threw"] /\ acts # <<>>
      /\ UNCHANGED <<isRun, q, waits, awaits, calls, alive, called, started, clears>>
  BY DEF TaskThrows, stateVars, Top
<1>2. CASE Undefined BY <1>1, <1>2, UndefinedKeeps, TaskGone
<1>3. CASE acts' = <<Act("terminated", None)>>
  <2>1. /\ acts' \in Seq(ActSet) /\ acts'[1] = Act("terminated", None)
        /\ DOMAIN acts' = {1} /\ DOMAIN acts' \subseteq Nat \ {0} /\ Keeps(1, 0)
    BY <1>3, SingleKeeps DEF AtSet
  <2>2. acts'[1].at = "terminated" BY <2>1 DEF Act
  <2>3. QED BY <1>1, <2>1, <2>2, TaskGone
<1>4. CASE awaits[t] # None /\ acts' = Goto("caller", awaits[t])
  <2>1. awaits[t] \in Caller BY <1>0, <1>4 DEF STypeOK
  <2>2. Replaced(Act("caller", awaits[t])) BY <1>0, <1>1, <1>4, <2>1, TopReplaced DEF AtSet
  <2>3. /\ acts' \in Seq(ActSet) /\ acts'[1] = Act("caller", awaits[t])
        /\ DOMAIN acts' \subseteq Nat \ {0} /\ Keeps(1, 0)
    BY <1>0, <1>1, <2>2, ReplacedKeeps
  <2>4. acts'[1].at = "caller" BY <2>3 DEF Act
  <2>5. QED BY <1>1, <2>3, <2>4, TaskGone
<1>5. QED BY <1>2, <1>3, <1>4 DEF TaskThrows

-----------------------------------------------------------------------------
(* Passing the turn on. *)

(* The top is a start() that has the turn; no other one is its own.         *)
LEMMA TopTests ==
  ASSUME IInv, NEW t \in Task, Top("test", t)
  PROVE  /\ acts # <<>> /\ alive /\ t \in Turns /\ t \notin Deep /\ task[t] = "ended"
<1> USE DEF IInv
<1>1. acts # <<>> /\ acts[1].at = "test" /\ acts[1].who = t /\ 1 \in DOMAIN acts
  BY TopIsFirst, Indices
<1>2. t \in Turns BY <1>1 DEF Turns, HasTurn
<1>3. t \notin Deep BY <1>1 DEF Deep, Stack, TestOnce
<1>4. task[t] = "ended" BY <1>1 DEF Stack, TestEnded
<1>5. QED BY <1>1, <1>2, <1>3, <1>4, AliveOnStack

LEMMA TestInv == ASSUME IInv, NEW t \in Task, Test(t) PROVE IInv'
<1>0. STypeOK /\ Stack /\ TurnsCounted BY DEF IInv
<1>1. /\ Top("test", t)
      /\ UNCHANGED <<q, waits, awaits, task, calls, alive, called, started, clears>>
  BY DEF Test, frameVars
<1>2. acts # <<>> /\ alive /\ t \in Turns /\ t \notin Deep /\ task[t] = "ended" BY <1>1, TopTests
<1>3. Order' BY <1>1, OrderSame
<1>4. \A i \in DOMAIN acts : acts[i].at = "test" => task'[acts[i].who] = "ended"
  BY <1>0, <1>1 DEF Stack, TestEnded
<1>5. CASE ~isRun \/ NoneLeft
  <2>1. acts' = Goto("end", t) /\ isRun' = FALSE /\ q = <<>>
    BY <1>5 DEF Test, NoneLeft, IInv, IdleEmpty
  <2>2. Replaced(Act("end", t)) BY <1>0, <1>2, <2>1, TopReplaced DEF AtSet
  <2>3. /\ acts' \in Seq(ActSet) /\ acts'[1] = Act("end", t)
        /\ DOMAIN acts' \subseteq Nat \ {0} /\ Keeps(1, 0)
    BY <1>0, <1>2, <2>2, ReplacedKeeps
  <2>4. acts'[1].at = "end" BY <2>3 DEF Act
  <2>5. 1 \in 0..2 /\ 0 \in Int /\ \A i \in DOMAIN acts' : i <= 1 => i = 1 BY <2>3
  <2>6. STypeOK' BY <1>0, <1>1, <2>1, <2>3 DEF STypeOK
  <2>7. Stack' BY <1>0, <1>4, <2>3, <2>4, <2>5, StackKept
  <2>8. Turns' \subseteq Turns \ {t}
    <3>1. \A s \in Turns' : (s \in Task /\ task'[s] = "running") \/ s \in Deep
      BY <1>0, <2>3, <2>4, <2>5, TurnsKept
    <3>2. Deep \subseteq Turns BY <1>0, <2>3, <2>5, TurnsKept
    <3>3. \A s \in Task : task'[s] = "running" => s \in Turns /\ s # t
      BY <1>1, <1>2 DEF Turns, HasTurn
    <3>4. QED BY <1>2, <3>1, <3>2, <3>3
  <2>9. TurnsCounted'
    <3>1. Places \in Nat /\ Places' \in Nat /\ Places <= Places' + 1
      BY <1>0, <1>1, <2>1 DEF Places, STypeOK
    <3>2. QED BY <1>0, <1>2, <2>8, <3>1, TurnGoes
  <2>10. IdleEmpty' BY <1>1, <2>1 DEF IdleEmpty
  <2>11. QED BY <1>1, <1>2, <1>3, <2>6, <2>7, <2>9, <2>10, LivesOn
<1>6. CASE isRun /\ ~NoneLeft
  <2>1. /\ acts' = Resumes("start", Head(q)[1], Act("end", t)) /\ isRun' = isRun
        /\ q # <<>> /\ Head(q) = q[1] /\ q[1] \in Entry
    BY <1>0, <1>6, Indices, ElementOfSeq DEF Test, NoneLeft, STypeOK
  <2> DEFINE s == q[1][1]
  <2>2. s \in Task /\ Act("end", t) \in ActSet BY <2>1 DEF Entry, Act, ActSet, AtSet
  <2>3. Pushed(Act("start", s), Act("end", t))
    BY <1>0, <1>2, <2>1, <2>2, TopPushed DEF AtSet
  <2>4. /\ acts' \in Seq(ActSet) /\ acts'[1] = Act("start", s) /\ acts'[2] = Act("end", t)
        /\ DOMAIN acts' \subseteq Nat \ {0} /\ Keeps(2, 1)
    BY <1>0, <1>2, <2>3, PushedKeeps
  <2>5. acts'[1].at = "start" /\ acts'[1].who = s /\ acts'[2].at = "end" BY <2>4 DEF Act
  <2>6. 2 \in 0..2 /\ 1 \in Int /\ \A i \in DOMAIN acts' : i <= 2 => i = 1 \/ i = 2 BY <2>4
  <2>7. STypeOK' BY <1>0, <1>1, <2>1, <2>4 DEF STypeOK
  <2>8. Stack'
    <3>1. q' # <<>> /\ q'[1][1] = s BY <1>1, <2>1
    <3> HIDE DEF s
    <3>2. QED BY <1>0, <1>4, <2>4, <2>5, <2>6, <3>1, StackKept
  <2> HIDE DEF s
  <2>9. Turns' \subseteq (Turns \ {t}) \cup {s}
    <3>1. \A r \in Turns' : (r \in Task /\ task'[r] = "running") \/ r \in Deep \/ r = s
      BY <1>0, <2>4, <2>5, <2>6, TurnsKept
    <3>2. Deep \subseteq Turns BY <1>0, <2>4, <2>6, TurnsKept
    <3>3. \A r \in Task : task'[r] = "running" => r \in Turns /\ r # t
      BY <1>1, <1>2 DEF Turns, HasTurn
    <3>4. QED BY <1>2, <3>1, <3>2, <3>3
  <2>10. TurnsCounted'
    <3>1. Places' = Places /\ Places \in Nat BY <1>0, <1>1, <2>1, PlacesKnown DEF Places, STypeOK
    <3>2. QED BY <1>0, <1>2, <2>9, <3>1, TurnPasses
  <2>11. IdleEmpty' BY <1>6, <2>1 DEF IdleEmpty
  <2>12. QED BY <1>1, <1>2, <1>3, <2>7, <2>8, <2>10, <2>11, LivesOn
<1>7. QED BY <1>5, <1>6

LEMMA EndInv == ASSUME IInv, NEW t \in Task, End(t) PROVE IInv'
<1>0. STypeOK /\ Stack /\ TurnsCounted BY DEF IInv
<1>1. /\ acts # <<>>
      /\ UNCHANGED <<isRun, q, waits, awaits, task, calls, alive, called, started, clears>>
  BY DEF End, Top
<1>2. CASE awaits[t] = None
  <2>1. Suspend BY <1>2 DEF End
  <2>2. QED BY <1>1, <2>1, PoppedInv
<1>3. CASE awaits[t] # None
  <2>1. acts' = Goto("caller", awaits[t]) /\ awaits[t] \in Caller
    BY <1>0, <1>3 DEF End, STypeOK
  <2>2. Replaced(Act("caller", awaits[t])) BY <1>0, <1>1, <2>1, TopReplaced DEF AtSet
  <2>3. /\ acts' \in Seq(ActSet) /\ acts'[1] = Act("caller", awaits[t])
        /\ DOMAIN acts' \subseteq Nat \ {0} /\ Keeps(1, 0)
    BY <1>0, <1>1, <2>2, ReplacedKeeps
  <2>4. acts'[1].at = "caller" BY <2>3 DEF Act
  <2>5. 1 \in 0..2 /\ 0 \in Int /\ \A i \in DOMAIN acts' : i <= 1 => i = 1 BY <2>3
  <2>6. STypeOK' BY <1>0, <1>1, <2>3 DEF STypeOK
  <2>7. Stack'
    <3>1. \A i \in DOMAIN acts : acts[i].at = "test" => task'[acts[i].who] = "ended"
      BY <1>0, <1>1 DEF Stack, TestEnded
    <3>2. QED BY <1>0, <2>3, <2>4, <2>5, <3>1, StackKept
  <2>8. Turns' \subseteq Turns
    <3>1. \A s \in Turns' : (s \in Task /\ task'[s] = "running") \/ s \in Deep
      BY <1>0, <2>3, <2>4, <2>5, TurnsKept
    <3>2. Deep \subseteq Turns BY <1>0, <2>3, <2>5, TurnsKept
    <3>3. QED BY <1>1, <3>1, <3>2 DEF Turns, HasTurn
  <2>9. TurnsCounted'
    <3>1. Places' = Places /\ Places \in Nat BY <1>0, <1>1, PlacesKnown DEF Places, STypeOK
    <3>2. QED BY <1>0, <2>8, <3>1, TurnsStay
  <2>10. alive /\ IdleEmpty' BY <1>1, AliveOnStack DEF IInv, IdleEmpty
  <2>11. QED BY <1>1, <2>6, <2>7, <2>9, <2>10, OrderSame, LivesOn
<1>4. QED BY <1>2, <1>3

-----------------------------------------------------------------------------
(* clear() and the destructor. *)

(* clear() takes no turn from anybody, and isRun's place becomes its own.  *)
LEMMA ClearInv == ASSUME IInv, Clear PROVE IInv'
<1>0. STypeOK /\ Stack /\ TurnsCounted BY DEF IInv
<1>1. /\ alive /\ q' = <<>> /\ isRun' = FALSE /\ called' = started
      /\ clears' = IF isRun THEN clears + 1 ELSE clears
      /\ UNCHANGED <<waits, awaits, task, calls, alive, started>>
  BY DEF Clear
<1>2. UNCHANGED acts \/ Undefined BY DEF Clear
<1>3. acts' \in Seq(ActSet) BY <1>0, <1>2, UndefinedKeeps DEF STypeOK
<1>4. STypeOK'
  <2>1. q' \in Seq(Entry) BY <1>1, EmptySeq
  <2>2. clears' \in Nat BY <1>0, <1>1 DEF STypeOK
  <2>3. QED BY <1>0, <1>1, <1>3, <2>1, <2>2 DEF STypeOK
<1>5. ASSUME UNCHANGED acts PROVE Stack' /\ Turns' \subseteq Turns
  <2>1. \A i \in DOMAIN acts : acts[i].at # "start"
    <3> SUFFICES ASSUME NEW i \in DOMAIN acts, acts[i].at = "start" PROVE FALSE
      OBVIOUS
    <3>1. DOMAIN acts = 1..Len(acts) /\ Len(acts) \in Nat BY <1>0, Indices
    <3>2. i = 1 BY <1>0, <3>1 DEF Stack, Below
    <3>3. acts # <<>> BY <3>1
    <3>4. Head(acts).at \in {"caller", "task"} BY <3>3 DEF Clear
    <3>5. Head(acts) = acts[1] BY <1>0, <3>3, EmptySeq DEF STypeOK
    <3>6. QED BY <3>2, <3>4, <3>5
  <2>2. Stack'
    BY <1>0, <1>1, <1>5, <2>1 DEF Stack, Below, TaskRuns, TestEnded, TestOnce, StartHead
  <2>3. Turns' \subseteq Turns BY <1>1, <1>5 DEF Turns, HasTurn
  <2>4. QED BY <2>2, <2>3
<1>6. ASSUME Undefined PROVE Stack' /\ Turns' \subseteq Turns
  <2>1. /\ DOMAIN acts' = {1} /\ DOMAIN acts' \subseteq Nat \ {0} /\ acts'[1].at = "undefined"
        /\ Keeps(1, 0)
    BY <1>6, UndefinedKeeps
  <2>2. Stack' BY <2>1 DEF Stack, Below, TaskRuns, TestEnded, TestOnce, StartHead
  <2>3. Turns' \subseteq Turns BY <1>1, <2>1 DEF Turns, HasTurn
  <2>4. QED BY <2>2, <2>3
<1>7. TurnsCounted'
  <2>1. Turns' \subseteq Turns BY <1>2, <1>5, <1>6
  <2>2. Places' = Places /\ Places \in Nat BY <1>0, <1>1 DEF Places, STypeOK
  <2>3. QED BY <1>0, <2>1, <2>2, TurnsStay
<1>8. Order'
  <2>1. /\ StartedFirst /\ CalledOnce /\ CalledPast /\ NewOrStarted BY DEF IInv, Order
  <2>2. /\ Len(started) \in Nat /\ Len(called) \in Nat /\ Len(started) <= Len(called)
        /\ \A i \in 1..Len(started) : i \in 1..Len(called) /\ started[i] = called[i]
    BY <1>0, <2>1, Indices DEF StartedFirst
  <2>3. StartedFirst' BY <1>1, <2>2 DEF StartedFirst
  <2>4. QueuedNext'
    <3>1. Len(q') = 0 BY <1>1
    <3>2. QED BY <1>1, <2>2, <3>1 DEF QueuedNext
  <2>5. CalledOnce' BY <1>1, <2>1, <2>2 DEF CalledOnce
  <2>6. CalledPast' BY <1>1, <2>1, <2>2 DEF CalledPast
  <2>7. NewOrStarted' BY <1>1, <2>1 DEF NewOrStarted
  <2>8. QED BY <2>3, <2>4, <2>5, <2>6, <2>7 DEF Order
<1>9. IdleEmpty' BY <1>1 DEF IdleEmpty
<1>10. QED BY <1>1, <1>2, <1>4, <1>5, <1>6, <1>7, <1>8, <1>9, LivesOn

LEMMA DestroyInv == ASSUME IInv, Destroy PROVE IInv'
<1>0. STypeOK BY DEF IInv
<1>1. /\ acts = <<>> /\ acts' = <<>> /\ alive' = FALSE /\ isRun' = FALSE /\ q' = <<>>
      /\ task' = [t \in Task |-> IF task[t] = "running" THEN "destroyed" ELSE task[t]]
      /\ UNCHANGED <<waits, awaits, calls, called, started, clears>>
  BY DEF Destroy
<1>2. \A t \in Task : task'[t] # "running" BY <1>1
<1>3. STypeOK'
  <2>1. q' \in Seq(Entry) BY <1>1, EmptySeq
  <2>2. task' \in [Task -> {"new", "running", "ended", "threw", "destroyed"}]
    BY <1>0, <1>1 DEF STypeOK
  <2>3. QED BY <1>0, <1>1, <2>1, <2>2 DEF STypeOK
<1>4. DOMAIN acts' = {} BY <1>1
<1>5. Stack' BY <1>4 DEF Stack, Below, TaskRuns, TestEnded, TestOnce, StartHead
<1>6. IdleEmpty' /\ GoneQuiet' BY <1>1, <1>2 DEF IdleEmpty, GoneQuiet
<1>7. TurnsCounted'
  <2>1. Turns' = {} BY <1>2, <1>4 DEF Turns, HasTurn
  <2>2. Places' \in Nat BY <1>0, <1>1 DEF Places, STypeOK
  <2>3. QED BY <2>1, <2>2, FS_EmptySet DEF TurnsCounted
<1>8. Order'
  <2>1. \A t \in Task : task'[t] # "new" => task[t] # "new" BY <1>1
  <2>2. QED BY <1>1, <2>1, OrderSame
<1>9. QED BY <1>3, <1>5, <1>6, <1>7, <1>8 DEF IInv

-----------------------------------------------------------------------------
LEMMA NextIInv == ASSUME IInv, [Next]_vars PROVE IInv'
<1>1. ASSUME NEW c \in Caller, CallerStep(c) PROVE IInv'
  <2>1. CASE CallerSuspends(c)
    BY <2>1, PoppedInv DEF CallerSuspends, Top, stateVars, frameVars
  <2>2. CASE Serial(c) BY <2>2, SerialWaits, SerialStarts
  <2>3. QED BY <1>1, <2>1, <2>2 DEF CallerStep
<1>2. ASSUME NEW t \in Task, StartStep(t) PROVE IInv'
  BY <1>2, PopInv, EndsInv, ThrowsInv, TestInv, EndInv DEF StartStep
<1>3. ASSUME NEW t \in Task, TaskStep(t) PROVE IInv'
  <2>1. CASE TaskSuspends(t)
    BY <2>1, PoppedInv DEF TaskSuspends, Top, stateVars, frameVars
  <2>2. CASE TaskResumed(t) BY <2>2, ResumedInv
  <2>3. QED BY <1>3, <2>1, <2>2 DEF TaskStep
<1>4. CASE Clear BY <1>4, ClearInv
<1>5. CASE Destroy BY <1>5, DestroyInv
<1>6. CASE UNCHANGED vars
  <2>1. /\ UNCHANGED <<isRun, q, acts, alive, clears>>
        /\ UNCHANGED <<waits, awaits, task, calls, called, started>>
    BY <1>6 DEF vars, stateVars, frameVars
  <2>2. STypeOK' /\ IdleEmpty' /\ GoneQuiet' BY <2>1 DEF IInv, STypeOK, IdleEmpty, GoneQuiet
  <2>3. Stack' BY <2>1 DEF IInv, Stack, Below, TaskRuns, TestEnded, TestOnce, StartHead
  <2>4. Order' BY <2>1, OrderSame
  <2>5. Turns' = Turns /\ Places' = Places BY <2>1 DEF Turns, HasTurn, Places
  <2>6. TurnsCounted' BY <2>5 DEF IInv, TurnsCounted
  <2>7. QED BY <2>2, <2>3, <2>4, <2>6 DEF IInv
<1>7. QED BY <1>1, <1>2, <1>3, <1>4, <1>5, <1>6 DEF Next, Stop

(* The invariant holds in every reachable state.                           *)
THEOREM InvariantHolds == Spec => []IInv
BY InitIInv, NextIInv, PTL DEF Spec

(* Between their first instruction and their end are at most one task and, *)
(* for each clear() of a running executor, one more, however callers,      *)
(* detached start() and the loop's resumptions are nested.                 *)
THEOREM TasksTakeTurns == Spec => []OneAtATime
<1>1. IInv => OneAtATime
  <2> SUFFICES ASSUME IInv PROVE Cardinality({t \in Task : task[t] = "running"}) <= 1 + clears
    BY DEF OneAtATime
  <2> DEFINE R == {t \in Task : task[t] = "running"}
  <2>1. clears \in Nat /\ isRun \in BOOLEAN /\ TurnsCounted BY DEF IInv, STypeOK
  <2>2. Places \in Nat /\ 1 + clears \in Nat /\ Places <= 1 + clears BY <2>1 DEF Places
  <2>3. R \subseteq Turns BY DEF Turns, HasTurn
  <2> HIDE DEF R
  <2>4. Cardinality(R) <= 1 + clears BY <2>1, <2>2, <2>3, SetShrinks DEF TurnsCounted
  <2>5. QED BY <2>4 DEF R
<1>2. QED BY <1>1, InvariantHolds, PTL

(* The tasks are started in the order in which serial() was called, those  *)
(* that clear() drops left out.                                            *)
THEOREM ServedInOrder == Spec => []InOrder
<1>1. IInv => InOrder
  <2> SUFFICES ASSUME IInv PROVE started = SubSeq(called, 1, Len(started))
    BY DEF InOrder
  <2>1. /\ started \in Seq(Task) /\ called \in Seq(Task)
        /\ Len(started) \in Nat /\ Len(called) \in Nat /\ Len(started) <= Len(called)
        /\ \A i \in 1..Len(started) : started[i] = called[i] /\ called[i] \in Task
    BY Indices, ElementOfSeq DEF IInv, STypeOK, Order, StartedFirst
  <2> DEFINE s == SubSeq(called, 1, Len(started))
  <2>2. /\ s \in Seq(Task) /\ Len(s) = IF 1 <= Len(started) THEN Len(started) - 1 + 1 ELSE 0
        /\ \A i \in 1..(Len(started) - 1 + 1) : s[i] = called[1 + i - 1]
    BY <2>1, SubSeqProperties
  <2>3. Len(s) = Len(started) /\ \A i \in 1..Len(started) : started[i] = s[i]
    BY <2>1, <2>2
  <2> HIDE DEF s
  <2>4. started = s BY <2>1, <2>2, <2>3, SeqEqual
  <2>5. QED BY <2>4 DEF s
<1>2. QED BY <1>1, InvariantHolds, PTL

===============================================================================
