----------------------------- MODULE Combinators -----------------------------
(***************************************************************************)
(* whenAny, whenAll and AioTask::linkTimeout (coroutine/awaiter/WhenAny.hpp*)
(* and WhenAll.hpp, coroutine/task/AioTask.hpp) over the timers and the    *)
(* ring of one EventLoop: which branch decides, whose frames go when, and  *)
(* what the loop still finds of them afterwards.                           *)
(*                                                                         *)
(* A branch that ends, the combinator it resumes and the destruction of    *)
(* the other branches are one synchronous chain, so one step.  A branch is *)
(* <<parent, call, index>>: a frame is never reused.  The operation of     *)
(* linkTimeout is branch 1 of its whenAny, the timeout branch 2.           *)
(***************************************************************************)
EXTENDS Integers, Sequences, FiniteSets, SequencesExt

CONSTANTS
  Parent,      \* coroutines that await a combinator
  MaxCalls,    \* bound: combinators awaited by each
  Kinds,       \* "any", "all", "link"
  Width,       \* branches of whenAny and whenAll
  Ways,        \* what their branches await: "timer", "yield", "aio", "ready"
  AnyWays,     \* those that whenAny races
  SqSize,      \* entries of the submission queue
  None

ASSUME CombinatorsAssumption ==
  /\ Kinds \subseteq {"any", "all", "link"}
  /\ Ways \subseteq {"timer", "yield", "aio", "ready"} /\ AnyWays \subseteq Ways
  /\ MaxCalls \in Nat /\ Width \in Nat \ {0, 1} /\ SqSize \in Nat \ {0, 1}
  /\ None \notin Nat \cup (Parent \X Nat) /\ None # "timeout"

Call == Parent \X (1..MaxCalls)
Branch == Parent \X (1..MaxCalls) \X (1..Width)

VARIABLES
  kind, call,        \* per call: its combinator; "new", "starting", "waiting", "returned"
  next,              \* per call: the branch await_suspend starts next
  way,               \* per branch: what it awaits
  frame,             \* per branch: "none", "created", "suspended", "ended", "gone"
  exc, last, cnt,    \* the control blocks: exception stored, index emplaced, branches left
  slot,              \* whenAll's results
  out,               \* per call: what the parent got
  timerTree, yieldQueue,
  sq, linked,        \* entries not submitted; those with IOSQE_IO_LINK
  fly, cq, batch,    \* operations in the kernel, completions, coroutines to resume
  turn,              \* the call whose await_suspend is executing
  elapsed,           \* history: the timeouts whose time was over
  ends,              \* history: per call, the branches in the order they ended
  late,              \* history: the timeouts that could not cancel their operation
  dangling           \* history: the branches used after they were destroyed

blockVars == <<exc, last, cnt, slot, out, ends>>
timerVars == <<timerTree, yieldQueue>>
ringVars == <<sq, linked, fly, cq, batch, elapsed, late>>
vars == <<kind, call, next, way, frame, blockVars, timerVars, ringVars, turn, dangling>>

Init ==
  /\ kind = [c \in Call |-> None] /\ call = [c \in Call |-> "new"]
  /\ next = [c \in Call |-> 1]
  /\ way = [b \in Branch |-> None] /\ frame = [b \in Branch |-> "none"]
  /\ exc = [c \in Call |-> FALSE] /\ last = [c \in Call |-> 0] /\ cnt = [c \in Call |-> 0]
  /\ slot = [b \in Branch |-> "unset"]
  /\ out = [c \in Call |-> None] /\ ends = [c \in Call |-> <<>>]
  /\ timerTree = {} /\ yieldQueue = <<>>
  /\ sq = <<>> /\ linked = {} /\ fly = {} /\ cq = <<>> /\ batch = <<>>
  /\ turn = None /\ elapsed = {} /\ late = {} /\ dangling = {}

CallOf(b) == <<b[1], b[2]>>
Of(c, i) == <<c[1], c[2], i>>
Size(k) == IF k = "link" THEN 2 ELSE Width
Count(c) == Size(kind[c])
BranchesOf(c) == {b \in Branch : CallOf(b) = c}
IsTimeout(b) == way[b] = "timeout"
Pair(c) == <<Of(c, 1), Of(c, 2)>>
Partner(b) == Of(CallOf(b), 3 - b[3])

(* The use of a branch that no longer exists is undefined: nothing is said *)
(* of what the loop does after it.                                         *)
Defined == dangling = {}
LoopIdle == Defined /\ turn = None /\ batch = <<>>

(* The entries of a queue that are in S, in their order.                   *)
Keep(queue, S) ==
  LET f[i \in 0..Len(queue)] ==
        IF i = 0 THEN <<>>
        ELSE IF queue[i] \in S THEN Append(f[i - 1], queue[i]) ELSE f[i - 1]
  IN f[Len(queue)]

-----------------------------------------------------------------------------
(* The ring. *)

(* What the kernel takes of the queue q: a timeout limits the entry right  *)
(* before it if that has IOSQE_IO_LINK, and is refused otherwise.          *)
Limits(q, j) == j > 1 /\ q[j - 1] \in linked
Accepted(q) == {q[j] : j \in {k \in DOMAIN q : ~IsTimeout(q[k]) \/ Limits(q, k)}}
Refused(q) == Keep(q, ToSet(q) \ Accepted(q))
Cqe(b, res) == [b |-> b, res |-> res]
Invalid(q) == [j \in DOMAIN Refused(q) |-> Cqe(Refused(q)[j], "einval")]

Submit ==
  /\ LoopIdle /\ sq # <<>>
  /\ fly' = fly \cup Accepted(sq)
  /\ cq' = cq \o Invalid(sq)
  /\ sq' = <<>>
  /\ UNCHANGED <<kind, call, next, way, frame, blockVars, timerVars, linked, batch, elapsed,
                 late, turn, dangling>>

(* getSqe for one entry: a full queue goes to the kernel first.            *)
GetSqe(b) ==
  IF Len(sq) < SqSize
  THEN sq' = Append(sq, b) /\ UNCHANGED <<fly, cq>>
  ELSE sq' = <<b>> /\ fly' = fly \cup Accepted(sq) /\ cq' = cq \o Invalid(sq)

(* Mutant: the flag is forgotten.                                          *)
LinkFlagForgotten(c, queued) == {}

(* linkTimeout sets IOSQE_IO_LINK in the entry of the operation, after     *)
(* both entries were taken.                                                *)
LinkFlag(c, queued) == {Of(c, 1)} \cap ToSet(queued)

(* The two getSqe of linkTimeout's arguments, the operation's first.  They *)
(* leave together unless the queue is full before or between them.         *)
GetPair(c) ==
  LET op == Of(c, 1)
      timeout == Of(c, 2)
      first == IF Len(sq) + 1 = SqSize THEN Append(sq, op) ELSE sq
  IN /\ IF Len(sq) + 2 <= SqSize
        THEN sq' = sq \o <<op, timeout>> /\ UNCHANGED <<fly, cq>>
        ELSE /\ sq' = IF first = sq THEN <<op, timeout>> ELSE <<timeout>>
             /\ fly' = fly \cup Accepted(first)
             /\ cq' = cq \o Invalid(first)
     /\ linked' = linked \cup LinkFlag(c, sq')

(* An operation completes; its timeout, if it has one, is cancelled.       *)
OpCompletes(b) ==
  /\ b \in fly /\ ~IsTimeout(b)
  /\ LET t == {Partner(b)} \cap fly \cap {x \in fly : IsTimeout(x)}
     IN /\ fly' = fly \ ({b} \cup t)
        /\ cq' = cq \o <<Cqe(b, "ok")>> \o [j \in 1..Cardinality(t) |-> Cqe(Partner(b), "canceled")]
  /\ UNCHANGED <<kind, call, next, way, frame, blockVars, timerVars, sq, linked, batch, elapsed,
                 late, turn, dangling>>

(* A timeout is over first.  The kernel tries to cancel the operation it   *)
(* limits, and either succeeds, and posts the two completions in either    *)
(* order; or it is too late: the operation goes on, or has just completed, *)
(* and has a result of its own.                                            *)
TimeoutFires(b) ==
  /\ b \in fly /\ IsTimeout(b)
  /\ LET op == Partner(b)
         over == Cqe(b, "etime")
     IN \/ /\ fly' = fly \ {b, op}
           /\ cq' \in {cq \o <<over, Cqe(op, "canceled")>>, cq \o <<Cqe(op, "canceled"), over>>}
           /\ UNCHANGED late
        \/ /\ fly' = fly \ {b}
           /\ cq' = Append(cq, over)
           /\ late' = late \cup {b}
        \/ /\ fly' = fly \ {b, op}
           /\ cq' = Append(Append(cq, Cqe(op, "ok")), over)
           /\ late' = late \cup {b}
  /\ elapsed' = elapsed \cup {b}
  /\ UNCHANGED <<kind, call, next, way, frame, blockVars, timerVars, sq, linked, batch,
                 turn, dangling>>

-----------------------------------------------------------------------------
(* A branch ends. *)

(* ~TimerAwaiter and ~YieldAwaiter erase the entry of a suspended frame.   *)
LeftByFrames(entries, gone) == entries \ gone

LeftInQueue(queue, gone) == Keep(queue, LeftByFrames(ToSet(queue), gone))

(* The combinator resumes its parent with x, and its branches go with it.  *)
Returns(c, x) ==
  /\ call' = [call EXCEPT ![c] = "returned"]
  /\ out' = [out EXCEPT ![c] = x]
  /\ frame' = [b \in Branch |-> IF CallOf(b) = c THEN "gone" ELSE frame[b]]
  /\ turn' = IF turn = c THEN None ELSE turn

Started(c) ==
  /\ next' = [next EXCEPT ![c] = @ + 1]
  /\ IF next[c] = Count(c)
     THEN turn' = None /\ call' = [call EXCEPT ![c] = "waiting"]
     ELSE UNCHANGED <<turn, call>>

(* The branch has ended, its combinator goes on waiting.                   *)
StaysEnded(b) ==
  /\ frame' = [frame EXCEPT ![b] = "ended"]
  /\ IF turn = CallOf(b) THEN Started(CallOf(b)) ELSE UNCHANGED <<next, turn, call>>
  /\ UNCHANGED out

(* Mutant: isBrack is not looked at, the other branches are started.       *)
DecidesLater(c) == turn # c \/ next[c] = Count(c)

(* A branch that ends when all are started (isInit) resumes whenAny itself;*)
(* one that ends before sets isBrack, and await_suspend resumes whenAny.   *)
Decides(c) == TRUE

(* anyStart: whoever ends first decides; whenAny rethrows or returns.      *)
AnyEnds(b, how) ==
  LET c == CallOf(b)
      thrown == exc[c] \/ how = "throw"
      idx == IF how = "value" THEN b[3] ELSE last[c]
  IN /\ exc' = [exc EXCEPT ![c] = thrown]
     /\ last' = [last EXCEPT ![c] = idx]
     /\ IF Decides(c)
        THEN Returns(c, IF thrown THEN "throw" ELSE idx) /\ UNCHANGED next
        ELSE StaysEnded(b)
     /\ UNCHANGED <<cnt, slot>>

(* Mutant: an exception leaves before the counter is decremented.          *)
DecrementsOnValue(how) == how = "value"

Decrements(how) == TRUE

InitialCnt(c) == Width

(* allStrat: the result goes into its slot, the last one resumes whenAll.  *)
AllEnds(b, how) ==
  LET c == CallOf(b)
      left == IF Decrements(how) THEN cnt[c] - 1 ELSE cnt[c]
  IN /\ slot' = [slot EXCEPT ![b] = how]
     /\ cnt' = [cnt EXCEPT ![c] = left]
     /\ IF left = 0
        THEN Returns(c, [i \in 1..Width |-> slot'[Of(c, i)]]) /\ UNCHANGED next
        ELSE StaysEnded(b)
     /\ UNCHANGED <<exc, last>>

Ends(b, how) ==
  /\ ends' = [ends EXCEPT ![CallOf(b)] = Append(@, <<b[3], how>>)]
  /\ IF kind[CallOf(b)] = "all" THEN AllEnds(b, how) ELSE AnyEnds(b, how)

Hows(b) == IF kind[CallOf(b)] = "link" THEN {"value"} ELSE {"value", "throw"}
Gone == {b \in Branch : frame'[b] = "gone"}

-----------------------------------------------------------------------------
(* A parent awaits a combinator. *)

Begin(p) ==
  \E n \in 1..MaxCalls, k \in Kinds :
    LET c == <<p, n>> IN
    /\ Defined /\ turn = None
    /\ call[c] = "new" /\ (n > 1 => call[<<p, n - 1>>] = "returned")
    /\ kind' = [kind EXCEPT ![c] = k]
    /\ call' = [call EXCEPT ![c] = "starting"]
    /\ turn' = c
    /\ frame' = [b \in Branch |-> IF CallOf(b) = c /\ b[3] <= Size(k) THEN "created" ELSE frame[b]]
    /\ IF k = "link"
       THEN /\ way' = [way EXCEPT ![Of(c, 1)] = "op", ![Of(c, 2)] = "timeout"]
            /\ GetPair(c)
            /\ UNCHANGED cnt
       ELSE /\ \E w \in [1..Width -> IF k = "any" THEN AnyWays ELSE Ways] :
                 way' = [b \in Branch |-> IF CallOf(b) = c THEN w[b[3]] ELSE way[b]]
            /\ cnt' = [cnt EXCEPT ![c] = IF k = "all" THEN InitialCnt(c) ELSE 0]
            /\ UNCHANGED <<sq, linked, fly, cq>>
    /\ UNCHANGED <<next, exc, last, slot, out, ends, timerVars, batch, elapsed, late, dangling>>

(* await_suspend resumes its branches in turn: one suspends ...            *)
StartSuspends(c) ==
  LET b == Of(c, next[c]) IN
  /\ Defined /\ turn = c /\ way[b] # "ready"
  /\ frame' = [frame EXCEPT ![b] = "suspended"]
  /\ timerTree' = IF way[b] = "timer" THEN timerTree \cup {b} ELSE timerTree
  /\ yieldQueue' = IF way[b] = "yield" THEN Append(yieldQueue, b) ELSE yieldQueue
  /\ IF way[b] = "aio" THEN GetSqe(b) ELSE UNCHANGED <<sq, fly, cq>>
  /\ Started(c)
  /\ UNCHANGED <<kind, way, blockVars, linked, batch, elapsed, late, dangling>>

(* ... or ends at once.                                                    *)
StartEnds(c) ==
  LET b == Of(c, next[c]) IN
  /\ Defined /\ turn = c /\ way[b] = "ready"
  /\ \E how \in Hows(b) : Ends(b, how)
  /\ timerTree' = LeftByFrames(timerTree, Gone)
  /\ yieldQueue' = LeftInQueue(yieldQueue, Gone)
  /\ UNCHANGED <<kind, way, ringVars, dangling>>

-----------------------------------------------------------------------------
(* The loop. *)

Alive(b) == frame[b] = "suspended"

(* Whatever is resumed must still exist.                                   *)
ResumeBranch(b) ==
  IF Alive(b)
  THEN (\E how \in Hows(b) : Ends(b, how)) /\ UNCHANGED dangling
  ELSE dangling' = {b} /\ UNCHANGED <<call, next, frame, blockVars, turn>>

(* TimerLoop::run: the entry is erased after its coroutine ran; it had     *)
(* reset its own iterator.                                                 *)
TimerRuns(b) ==
  /\ LoopIdle /\ b \in timerTree
  /\ ResumeBranch(b)
  /\ timerTree' = LeftByFrames(timerTree, Gone) \ {b}
  /\ yieldQueue' = LeftInQueue(yieldQueue, Gone)
  /\ UNCHANGED <<kind, way, ringVars>>

YieldRuns ==
  /\ LoopIdle /\ yieldQueue # <<>>
  /\ ResumeBranch(Head(yieldQueue))
  /\ timerTree' = LeftByFrames(timerTree, Gone)
  /\ yieldQueue' = LeftInQueue(Tail(yieldQueue), Gone)
  /\ UNCHANGED <<kind, way, ringVars>>

(* Mutant: cancelled operations are treated as the others.                 *)
SkippedNever(e) == FALSE

(* Their AioTask may be gone.                                              *)
Skipped(e) == e.res = "canceled"

(* IoUring::run: what has completed by now; the result is written into the *)
(* AioTask, its coroutine put in `tasks'.                                  *)
Collect ==
  /\ LoopIdle /\ cq # <<>>
  /\ \E n \in DOMAIN cq :
       LET got == Keep(SubSeq(cq, 1, n), {e \in ToSet(cq) : ~Skipped(e)})
       IN /\ batch' = [j \in DOMAIN got |-> got[j].b]
          /\ cq' = SubSeq(cq, n + 1, Len(cq))
          /\ dangling' = {e.b : e \in {x \in ToSet(got) : ~Alive(x.b)}}
  /\ UNCHANGED <<kind, call, next, way, frame, blockVars, timerVars, sq, linked, fly, elapsed,
                 late, turn>>

ResumeTask ==
  /\ Defined /\ turn = None /\ batch # <<>>
  /\ ResumeBranch(Head(batch))
  /\ batch' = Tail(batch)
  /\ timerTree' = LeftByFrames(timerTree, Gone)
  /\ yieldQueue' = LeftInQueue(yieldQueue, Gone)
  /\ UNCHANGED <<kind, way, sq, linked, fly, cq, elapsed, late>>

Next ==
  \/ \E p \in Parent : Begin(p)
  \/ \E c \in Call : StartSuspends(c) \/ StartEnds(c)
  \/ \E b \in Branch : OpCompletes(b) \/ TimeoutFires(b) \/ TimerRuns(b)
  \/ Submit \/ YieldRuns \/ Collect \/ ResumeTask

Spec == Init /\ [][Next]_vars

(* await_suspend goes on; the loop submits, serves what is due and reads   *)
(* completions; of an operation and its timeout one is over in the end.    *)
FairSpec ==
  /\ Spec
  /\ WF_vars(\E c \in Call : StartSuspends(c) \/ StartEnds(c))
  /\ WF_vars(Submit) /\ WF_vars(YieldRuns) /\ WF_vars(Collect) /\ WF_vars(ResumeTask)
  /\ WF_vars(\E b \in Branch : OpCompletes(b) \/ TimeoutFires(b))
  /\ WF_vars(\E b \in Branch : TimerRuns(b))

-----------------------------------------------------------------------------
(* Properties *)

(* What ~AioTask leaves behind: an operation that lost in whenAny is not   *)
(* cancelled, and one whose timeout could not cancel it ends as well as    *)
(* the timeout does.                                                       *)
MayOutlive(b) ==
  \/ kind[CallOf(b)] = "any" /\ way[b] = "aio"
  \/ Of(CallOf(b), 2) \in late

(* The loop never resumes a coroutine, nor writes the result of an         *)
(* operation, that went with its combinator: neither a timer nor a yield   *)
(* nor a cancelled operation of a branch that lost outlives it.  The two   *)
(* kinds of operation that do are named.                                   *)
NoDangling == \A b \in dangling : MayOutlive(b)

(* A combinator returns when it is decided, with what decided it: whenAny  *)
(* by the branch that ends first, whose value or exception it gives, and   *)
(* no other branch ends after that; whenAll when every branch has ended,   *)
(* with the value or the exception of each.                                *)
FirstDecides ==
  \A c \in Call :
    call[c] = "returned" /\ kind[c] # "all" =>
      /\ Len(ends[c]) = 1
      /\ out[c] = IF ends[c][1][2] = "throw" THEN "throw" ELSE ends[c][1][1]

AllSettled ==
  \A c \in Call :
    call[c] = "returned" /\ kind[c] = "all" =>
      /\ Len(ends[c]) = Width
      /\ \A j \in DOMAIN ends[c] : out[c][ends[c][j][1]] = ends[c][j][2]

ResultsExact == FirstDecides /\ AllSettled

(* A call limited by linkTimeout reports a timeout only if its time was    *)
(* over.                                                                   *)
TimeoutMeansElapsed ==
  \A c \in Call : kind[c] = "link" /\ out[c] = 2 => Of(c, 2) \in elapsed

(* Whoever awaits a combinator is resumed, unless something was used after *)
(* its end before.                                                         *)
CallReturns == \A c \in Call : call[c] = "starting" ~> call[c] = "returned" \/ ~Defined

==============================================================================
