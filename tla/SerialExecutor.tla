--------------------------- MODULE SerialExecutor ---------------------------
(***************************************************************************)
(* HX::coroutine::SerialExecutor (coroutine/executor/SerialExecutor.hpp):  *)
(* coroutines hand it tasks, serial() runs one task at a time.             *)
(*                                                                         *)
(* Everything happens on one thread.  A coroutine runs from a resume() to  *)
(* its next suspension, and whoever resumed it goes on then: `acts' is the *)
(* stack of those resumptions, each with what it executes now.  Only the   *)
(* top one moves; the event loop acts when the stack is empty.  A start()  *)
(* is named by the task it takes from the queue.  Where the code would go  *)
(* on in a frame that is destroyed, or take the front of an empty queue,   *)
(* the stack becomes "undefined", and nothing is said of what follows.     *)
(***************************************************************************)
EXTENDS Integers, Sequences, FiniteSets, SequencesExt

CONSTANTS
  Caller,     \* the coroutines that call serial()
  MaxCalls,   \* bound: calls, per caller
  MaxClears,  \* bound: calls of clear()
  MayThrow,   \* whether a task may end with an exception
  None

ASSUME SerialAssumption ==
  /\ None \notin Caller /\ MaxCalls \in [Caller -> Nat] /\ MaxClears \in Nat
  /\ MayThrow \in BOOLEAN

Task == UNION {{c} \X (1..MaxCalls[c]) : c \in Caller}

VARIABLES
  isRun, q, runList,   \* State
  waits,      \* per task: the coroutine popped with it, None for the noop
  awaits,     \* per task: who awaits its start(), None if it is detached
  starts,     \* the tasks whose start() has a frame
  task,       \* per task: "new", "running", "ended", "threw", "destroyed"
  calls,      \* per caller: calls made
  caller,     \* per caller: "out", "in" serial(), "gone"
  acts,       \* the stack of resumptions
  alive,      \* the executor exists
  called, started,  \* history: the tasks in the order of the calls that clear()
                    \* did not drop, of the starts
  clears      \* history: the calls of clear() while isRun was set

stateVars == <<isRun, q, runList>>
frameVars == <<waits, awaits, starts>>
vars == <<stateVars, frameVars, task, calls, caller, acts, alive, called, started, clears>>

Init ==
  /\ isRun = FALSE /\ q = <<>> /\ runList = {}
  /\ waits = [t \in Task |-> None] /\ awaits = [t \in Task |-> None] /\ starts = {}
  /\ task = [t \in Task |-> "new"]
  /\ calls = [c \in Caller |-> 0] /\ caller = [c \in Caller |-> "out"]
  /\ acts = <<>> /\ alive = TRUE
  /\ called = <<>> /\ started = <<>> /\ clears = 0

Act(at, who) == [at |-> at, who |-> who]
Rest == IF acts = <<>> THEN <<>> ELSE Tail(acts)
Goto(at, who) == <<Act(at, who)>> \o Rest      \* the same resumption goes on
Resumes(at, who, x) == <<Act(at, who), x>> \o Rest
Top(at, who) == acts # <<>> /\ Head(acts) = Act(at, who)
Suspend == acts' = Rest
Undefined == acts' = <<Act("undefined", None)>>

-----------------------------------------------------------------------------
(* The callers. *)

(* A caller that is back from serial() awaits something else.              *)
CallerSuspends(c) ==
  /\ Top("caller", c)
  /\ Suspend
  /\ UNCHANGED <<stateVars, frameVars, task, calls, caller, alive, called, started, clears>>

(* The loop resumes the caller, or it is back from serial().               *)
Executes(c) ==
  \/ acts = <<>> /\ alive /\ caller[c] = "out"
  \/ Top("caller", c)

(* Mutant: whoever calls starts at once if nothing is queued.              *)
MustWaitQueueOnly == q # <<>>

(* SerialAwaiter::await_suspend: with a task running, wait behind it; else *)
(* go on, and run the front of the queue.                                  *)
MustWait == isRun

Serial(c) ==
  LET t == <<c, calls[c] + 1>> IN
  /\ Executes(c) /\ calls[c] < MaxCalls[c]
  /\ calls' = [calls EXCEPT ![c] = @ + 1]
  /\ caller' = [caller EXCEPT ![c] = "in"]
  /\ called' = Append(called, t)
  /\ \/ MustWait /\ q' = Append(q, <<t, c>>) /\ Suspend /\ UNCHANGED <<isRun, awaits>>
     \/ /\ ~MustWait
        /\ q' = Append(q, <<t, None>>)
        /\ isRun' = TRUE
        /\ awaits' = [awaits EXCEPT ![Head(q')[1]] = c]
        /\ acts' = Goto("start", Head(q')[1])
  /\ UNCHANGED <<runList, waits, starts, task, alive, started, clears>>

-----------------------------------------------------------------------------
(* start() *)

(* Mutant: the last to come is served first.                               *)
NextIndexLifo == Len(q)

NextIndex == 1

(* Take the front of the queue and await its task.                         *)
Pop(t) ==
  /\ Top("start", t)
  /\ LET e == q[NextIndex] IN
       /\ waits' = [waits EXCEPT ![t] = e[2]]
       /\ starts' = starts \cup {t}
       /\ task' = [task EXCEPT ![e[1]] = "running"]
       /\ started' = Append(started, e[1])
       /\ q' = RemoveAt(q, NextIndex)
       /\ acts' = Goto("task", t)
  /\ UNCHANGED <<isRun, runList, awaits, calls, caller, alive, called, clears>>

(* The task suspends, on a timer or on I/O, and is resumed by the loop.    *)
TaskSuspends(t) ==
  /\ Top("task", t) /\ Suspend
  /\ UNCHANGED <<stateVars, frameVars, task, calls, caller, alive, called, started, clears>>

TaskResumed(t) ==
  /\ acts = <<>> /\ task[t] = "running"
  /\ acts' = <<Act("task", t)>>
  /\ UNCHANGED <<stateVars, frameVars, task, calls, caller, alive, called, started, clears>>

(* It ends: start() goes on, unless clear() destroyed it, and resumes the  *)
(* coroutine that waited, if any.  That tests isRun again: still set, its  *)
(* serial() returns; reset by clear() or by a start() that clear()         *)
(* orphaned, it would start() the front of a queue that is empty.          *)
TaskEnds(t) ==
  /\ Top("task", t)
  /\ task' = [task EXCEPT ![t] = "ended"]
  /\ \/ t \in starts /\ waits[t] = None /\ acts' = Goto("test", t) /\ UNCHANGED caller
     \/ /\ t \in starts /\ waits[t] # None /\ isRun
        /\ acts' = Resumes("caller", waits[t], Act("test", t))
        /\ caller' = [caller EXCEPT ![waits[t]] = "out"]
     \/ /\ t \notin starts \/ (waits[t] # None /\ ~isRun)
        /\ Undefined /\ UNCHANGED caller
  /\ UNCHANGED <<stateVars, frameVars, calls, alive, called, started, clears>>

(* It throws: the exception leaves start() and reaches the caller that     *)
(* awaits it; isRun is left as it is.  A detached start() terminates the   *)
(* program.                                                                *)
TaskThrows(t) ==
  /\ MayThrow /\ Top("task", t)
  /\ task' = [task EXCEPT ![t] = "threw"]
  /\ starts' = starts \ {t}
  /\ \/ t \notin starts /\ Undefined /\ UNCHANGED caller
     \/ /\ t \in starts /\ awaits[t] = None
        /\ acts' = <<Act("terminated", None)>> /\ UNCHANGED caller
     \/ /\ t \in starts /\ awaits[t] # None
        /\ acts' = Goto("caller", awaits[t])
        /\ caller' = [caller EXCEPT ![awaits[t]] = "out"]
  /\ UNCHANGED <<stateVars, waits, awaits, calls, alive, called, started, clears>>

(* Mutant: the last entry counts as none.                                  *)
NoneLeftOffByOne == Len(q) <= 1

NoneLeft == q = <<>>

(* With nothing queued the executor becomes idle; else a detached start()  *)
(* serves the next entry, and this one is over as soon as that suspends.   *)
Test(t) ==
  /\ Top("test", t)
  /\ IF ~isRun \/ NoneLeft
     THEN isRun' = FALSE /\ acts' = Goto("end", t) /\ UNCHANGED runList
     ELSE /\ acts' = Resumes("start", Head(q)[1], Act("end", t))
          /\ runList' = runList \cup {Head(q)[1]}
          /\ UNCHANGED isRun
  /\ UNCHANGED <<q, frameVars, task, calls, caller, alive, called, started, clears>>

(* start() returns to the caller that awaits it, or is detached and leaves *)
(* runList.                                                                *)
End(t) ==
  /\ Top("end", t)
  /\ starts' = starts \ {t}
  /\ IF awaits[t] = None
     THEN runList' = runList \ {t} /\ Suspend /\ UNCHANGED caller
     ELSE /\ acts' = Goto("caller", awaits[t])
          /\ caller' = [caller EXCEPT ![awaits[t]] = "out"]
          /\ UNCHANGED runList
  /\ UNCHANGED <<isRun, q, waits, awaits, task, calls, alive, called, started, clears>>

-----------------------------------------------------------------------------
(* clear(), called by whoever executes: the queue is emptied and isRun     *)
(* reset, whatever runs.  The coroutines that waited there are dropped,    *)
(* and the frames of the detached start() are destroyed, which none may be *)
(* executing; a start() that its caller awaits stays, with its task.       *)
Executing(t) == Act("test", t) \in Range(acts) \/ Act("end", t) \in Range(acts)

Clear ==
  /\ alive /\ clears < MaxClears
  /\ acts # <<>> => Head(acts).at \in {"caller", "task"}
  /\ q' = <<>> /\ isRun' = FALSE /\ runList' = {}
  /\ starts' = starts \ runList
  /\ IF \E t \in runList : Executing(t) THEN Undefined ELSE UNCHANGED acts
  /\ called' = started
  /\ clears' = IF isRun THEN clears + 1 ELSE clears
  /\ UNCHANGED <<waits, awaits, task, calls, caller, alive, started>>

(* The callers' frames go first, with their tasks and the start() they     *)
(* await; then ~SerialExecutor clears.  The warning of serial() asks that  *)
(* none of them is executing.                                              *)
Destroy ==
  /\ acts = <<>> /\ alive
  /\ alive' = FALSE
  /\ caller' = [c \in Caller |-> "gone"]
  /\ task' = [t \in Task |-> IF task[t] = "running" THEN "destroyed" ELSE task[t]]
  /\ starts' = {t \in starts : awaits[t] = None} \ runList
  /\ q' = <<>> /\ isRun' = FALSE /\ runList' = {}
  /\ UNCHANGED <<waits, awaits, calls, acts, called, started, clears>>

(* The program ends, was terminated, or does anything.                     *)
Stop ==
  /\ ~alive \/ Top("terminated", None) \/ Top("undefined", None)
  /\ UNCHANGED vars

CallerStep(c) == CallerSuspends(c) \/ Serial(c)
StartStep(t) == Pop(t) \/ TaskEnds(t) \/ TaskThrows(t) \/ Test(t) \/ End(t)
TaskStep(t) == TaskSuspends(t) \/ TaskResumed(t)

Next ==
  \/ \E c \in Caller : CallerStep(c)
  \/ \E t \in Task : StartStep(t) \/ TaskStep(t)
  \/ Clear \/ Destroy \/ Stop

Spec == Init /\ [][Next]_vars

(* What executes goes on to its next suspension; the loop serves a task    *)
(* whose timer or operation is over, and a task that is resumed over and   *)
(* over does end.                                                          *)
FairSpec ==
  /\ Spec
  /\ WF_vars(\E c \in Caller : CallerSuspends(c))
  /\ WF_vars(\E t \in Task : Pop(t) \/ Test(t) \/ End(t))
  /\ \A t \in Task : WF_vars(TaskResumed(t)) /\ SF_vars(TaskEnds(t) \/ TaskThrows(t))

-----------------------------------------------------------------------------
(* Properties *)

(* serial() is serial: from the first instruction of a task to its end no  *)
(* other task has begun and not ended, however callers and detached        *)
(* start() alternate, but that each clear() of a running executor lets one *)
(* more run beside: it resets isRun, and what runs goes on.                *)
OneAtATime == Cardinality({t \in Task : task[t] = "running"}) <= 1 + clears

(* Tasks start in the order serial() was called, those that clear() drops  *)
(* left out.                                                               *)
InOrder == started = SubSeq(called, 1, Len(started))

(* Every call of serial() returns, but for those behind a task that threw  *)
(* to the caller awaiting start(): isRun is still set then; those whose    *)
(* entry clear() dropped; and those after an undefined step.               *)
Stuck == \E t \in Task : task[t] = "threw"
Dropped(c) == <<c, calls[c]>> \notin Range(called)

SerialReturns ==
  \A c \in Caller :
    (caller[c] = "in") ~> (caller[c] # "in" \/ Stuck \/ Dropped(c) \/ Top("undefined", None))

=============================================================================
