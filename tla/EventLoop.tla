------------------------------ MODULE EventLoop ------------------------------
(***************************************************************************)
(* HX::coroutine::EventLoop (include/HXLibs/coroutine/loop/EventLoop.hpp)  *)
(* with its three sources of work, TimerLoop, IoUring and ThreadLoop, and  *)
(* co_await of a FutureResult, which resumes a coroutine on a worker of a  *)
(* thread pool (container/FutureResult.hpp, _hx_Await).                    *)
(*                                                                         *)
(* A coroutine runs without interruption from a resume to its next         *)
(* suspension: it awaits a timer, a yield, an I/O operation or a future,   *)
(* or ends.  Whoever resumed it, the loop's thread or a worker, waits in   *)
(* `run' meanwhile.  The ring is not synchronised: _numSqesPending and the *)
(* tail of the submission queue are read and written in separate steps.    *)
(***************************************************************************)
EXTENDS Integers, Sequences, FiniteSets

CONSTANTS
  Coroutine,     \* the coroutines handed to start() and trySync()
  Worker,        \* the pool threads that run the continuations of futures
  Loop,          \* the thread that calls run()
  Nop,           \* the operation of prepNop: null user_data
  None,
  Entry,         \* how coroutines are started: "start", "trySync"
  LoopMoves,     \* what a coroutine resumed by the loop may do next
  WorkerMoves,   \* and one resumed by a worker
  Durations,     \* arguments of sleepFor
  SqSize,        \* entries of the submission queue (1024 in the code)
  MaxAwaits,     \* bound: awaits per coroutine
  MaxTime        \* bound: the clock

Moves == {"timer", "yield", "aio", "future", "end"}

ASSUME LoopAssumption ==
  /\ Loop \notin Worker /\ None \notin Worker \cup {Loop}
  /\ None \notin Coroutine /\ Nop \notin Coroutine /\ None # Nop
  /\ IsFiniteSet(Coroutine) /\ IsFiniteSet(Worker)
  /\ Entry \subseteq {"start", "trySync"}
  /\ LoopMoves \subseteq Moves
  /\ WorkerMoves \subseteq Moves \ {"timer", "yield"}
  /\ Durations \subseteq Nat
  /\ SqSize \in Nat \ {0} /\ MaxAwaits \in Nat /\ MaxTime \in Nat

(* A timeout is a time or None.                                            *)
ASSUME TimeoutAssumption == None \notin Nat

Thread == Worker \cup {Loop}
Op == Coroutine \cup {Nop}

VARIABLES
  now,
  timerTree, cur,             \* the multimap; the entry whose coroutine was resumed
  yieldQueue,
  pend,                       \* _numSqesPending
  sq, fly, cq,                \* entries not submitted; bags: in the kernel, completed
  cnt, cntSeen,               \* _threadTaskCnt and isRun()'s copy of it
  lpc, timeout, batch, numGot,   \* the loop's thread
  run,                        \* per thread: the coroutine it is running
  ring, reg, seen, op,        \* per thread: where it is in getSqe, what it read
  co, awaits, origin,         \* per coroutine: state, awaits made, where the last was
  futures,                    \* continuations queued in the pool
  wpc, wco,                   \* per worker: where it is, whose continuation it runs
  raced                       \* history: an unsynchronised write was lost

timerVars == <<timerTree, cur, yieldQueue>>
ringVars == <<pend, sq, fly, cq, raced>>
sqeVars == <<ring, reg, seen, op>>
loopVars == <<lpc, timeout, batch, numGot>>
coVars == <<co, awaits, origin>>
poolVars == <<futures, wpc, wco>>
vars == <<now, timerVars, ringVars, cnt, cntSeen, loopVars, run, sqeVars, coVars, poolVars>>

Init ==
  /\ now = 0
  /\ timerTree = {} /\ cur = None /\ yieldQueue = <<>>
  /\ pend = 0 /\ sq = <<>> /\ fly = [o \in Op |-> 0] /\ cq = fly /\ raced = FALSE
  /\ cnt = 0 /\ cntSeen = 0
  /\ lpc = "idle" /\ timeout = None /\ batch = [c \in Coroutine |-> 0] /\ numGot = 0
  /\ run = [t \in Thread |-> None]
  /\ ring = [t \in Thread |-> "out"] /\ reg = [t \in Thread |-> 0]
  /\ seen = [t \in Thread |-> <<>>] /\ op = [t \in Thread |-> None]
  /\ co = [c \in Coroutine |-> "new"] /\ awaits = [c \in Coroutine |-> 0]
  /\ origin = [c \in Coroutine |-> "none"]
  /\ futures = {} /\ wpc = [w \in Worker |-> "idle"] /\ wco = [w \in Worker |-> None]

-----------------------------------------------------------------------------
(* A thread that resumed a coroutine goes on when the coroutine has        *)
(* suspended or ended.                                                     *)

Resume(t, c) ==
  /\ co' = [co EXCEPT ![c] = "running"]
  /\ run' = [run EXCEPT ![t] = c]

(* The program is gone once a worker resumed a null handle.                *)
Crashed == \E w \in Worker : wpc[w] = "crashed"

LoopGoes(from, to) == ~Crashed /\ run[Loop] = None /\ lpc = from /\ lpc' = to
WorkerAt(w, pc) == ~Crashed /\ wpc[w] = pc
InSqe(t, step) == ~Crashed /\ ring[t] = step

-----------------------------------------------------------------------------
(* EventLoop: start, trySync and run. *)

Start(c) ==
  /\ "start" \in Entry
  /\ LoopGoes("idle", "idle")
  /\ co[c] = "new"
  /\ Resume(Loop, c)
  /\ UNCHANGED <<now, timerVars, ringVars, cnt, cntSeen, timeout, batch, numGot, sqeVars,
                 awaits, origin, poolVars>>

(* trySync throws "Unexpected call" if an operation is pending.            *)
TrySync(c) ==
  /\ "trySync" \in Entry
  /\ co[c] = "new"
  /\ \/ pend # 0 /\ LoopGoes("idle", "threw") /\ UNCHANGED <<co, run>>
     \/ pend = 0 /\ LoopGoes("idle", "sync") /\ Resume(Loop, c)
  /\ UNCHANGED <<now, timerVars, ringVars, cnt, cntSeen, timeout, batch, numGot, sqeVars,
                 awaits, origin, poolVars>>

BeginRun ==
  /\ LoopGoes("idle", "timers") \/ LoopGoes("sync", "timers")
  /\ UNCHANGED <<now, timerVars, ringVars, cnt, cntSeen, timeout, batch, numGot, run,
                 sqeVars, coVars, poolVars>>

(* TimerLoop::run: expired timers first, then the yield queue; a timer     *)
(* that has not expired returns at once, before the yield queue.  Equal    *)
(* expiry times are served in any order.                                   *)
Earliest == {e \in timerTree : \A f \in timerTree : e.at <= f.at}

TimerResume ==
  \E e \in Earliest :
    /\ e.at <= now
    /\ LoopGoes("timers", "timerBack")
    /\ cur' = e
    /\ Resume(Loop, e.co)
    /\ UNCHANGED <<now, timerTree, yieldQueue, ringVars, cnt, cntSeen, timeout, batch,
                   numGot, sqeVars, awaits, origin, poolVars>>

(* Mutant: the entry of the resumed coroutine stays in the tree. *)
TimerEraseNone ==
  /\ LoopGoes("timerBack", "timers")
  /\ cur' = None
  /\ UNCHANGED <<now, timerTree, yieldQueue, ringVars, cnt, cntSeen, timeout, batch, numGot,
                 run, sqeVars, coVars, poolVars>>

TimerErase ==                   \* _timerTree.erase(it)
  /\ LoopGoes("timerBack", "timers")
  /\ timerTree' = timerTree \ {cur} /\ cur' = None
  /\ UNCHANGED <<now, yieldQueue, ringVars, cnt, cntSeen, timeout, batch, numGot, run,
                 sqeVars, coVars, poolVars>>

TimerWait ==                    \* return it->first - nowTime
  /\ \E e \in Earliest : e.at > now /\ timeout' = e.at
  /\ LoopGoes("timers", "drive")
  /\ UNCHANGED <<now, timerVars, ringVars, cnt, cntSeen, batch, numGot, run, sqeVars, coVars,
                 poolVars>>

TimersDone ==
  /\ timerTree = {}
  /\ LoopGoes("timers", "yields")
  /\ UNCHANGED <<now, timerVars, ringVars, cnt, cntSeen, timeout, batch, numGot, run, sqeVars,
                 coVars, poolVars>>

YieldResume ==
  /\ yieldQueue # <<>>
  /\ LoopGoes("yields", "yieldBack")
  /\ Resume(Loop, Head(yieldQueue))
  /\ UNCHANGED <<now, timerVars, ringVars, cnt, cntSeen, timeout, batch, numGot, sqeVars,
                 awaits, origin, poolVars>>

YieldPop ==                     \* pop_front, after the resume
  /\ LoopGoes("yieldBack", "yields")
  /\ yieldQueue' = Tail(yieldQueue)
  /\ UNCHANGED <<now, timerTree, cur, ringVars, cnt, cntSeen, timeout, batch, numGot, run,
                 sqeVars, coVars, poolVars>>

YieldsDone ==                   \* return {}
  /\ yieldQueue = <<>>
  /\ LoopGoes("yields", "drive")
  /\ timeout' = None
  /\ UNCHANGED <<now, timerVars, ringVars, cnt, cntSeen, batch, numGot, run, sqeVars, coVars,
                 poolVars>>

(* run()'s three-way choice.                                               *)
Count(seq, x) == Cardinality({i \in DOMAIN seq : seq[i] = x})

SubmitAll == fly' = [o \in Op |-> fly[o] + Count(sq, o)] /\ sq' = <<>>

(* The kernel may complete operations in any order, so the order in the    *)
(* completion queue is not kept.                                           *)
Completed == {o \in Op : cq[o] > 0}
Size(bag) == Cardinality(UNION {{o} \X (1..bag[o]) : o \in DOMAIN bag})
NumCompleted == Size(cq)

Drive ==                        \* _eventDrive.run(timeout): submit, then wait
  /\ pend # 0
  /\ LoopGoes("drive", "ioWait")
  /\ SubmitAll
  /\ UNCHANGED <<now, timerVars, pend, cq, raced, cnt, cntSeen, timeout, batch, numGot, run,
                 sqeVars, coVars, poolVars>>

NoDrive ==                      \* sleep_for(*timeout), or ask the thread controller
  /\ pend = 0
  /\ LoopGoes("drive", IF timeout # None THEN "sleep" ELSE "thread")
  /\ UNCHANGED <<now, timerVars, ringVars, cnt, cntSeen, timeout, batch, numGot, run, sqeVars,
                 coVars, poolVars>>

(* Mutant: the timeout is not passed on. *)
TimedOutNever == FALSE

TimedOut == timeout # None /\ now >= timeout

WakeUp ==                       \* the sleep ends; -ETIME
  /\ TimedOut
  /\ \/ LoopGoes("sleep", "timers")
     \/ LoopGoes("ioWait", "timers") /\ Completed = {}
  /\ timeout' = None
  /\ UNCHANGED <<now, timerVars, ringVars, cnt, cntSeen, batch, numGot, run, sqeVars,
                 coVars, poolVars>>

Interrupted ==                  \* -EINTR
  /\ Completed = {}
  /\ LoopGoes("ioWait", "timers")
  /\ timeout' = None
  /\ UNCHANGED <<now, timerVars, ringVars, cnt, cntSeen, batch, numGot, run, sqeVars,
                 coVars, poolVars>>

(* All completions that are there, the null ones skipped.                  *)
Collect ==
  /\ Completed # {}
  /\ LoopGoes("ioWait", "sub")
  /\ numGot' = NumCompleted
  /\ batch' = [c \in Coroutine |-> cq[c]]
  /\ cq' = [o \in Op |-> 0] /\ timeout' = None
  /\ reg' = [reg EXCEPT ![Loop] = pend]
  /\ UNCHANGED <<now, timerVars, pend, sq, fly, raced, cnt, cntSeen, run, ring, seen,
                 op, coVars, poolVars>>

(* Mutant: completions without a coroutine are not subtracted. *)
SubtractTasks ==
  /\ LoopGoes("sub", "batch")
  /\ pend' = reg[Loop] - Size(batch)
  /\ numGot' = 0 /\ reg' = [reg EXCEPT ![Loop] = 0]
  /\ raced' = (raced \/ reg[Loop] # pend)
  /\ UNCHANGED <<now, timerVars, sq, fly, cq, cnt, cntSeen, timeout, batch, run,
                 ring, seen, op, coVars, poolVars>>

Subtract ==                     \* _numSqesPending -= numGot (a size_t; only compared to 0)
  /\ LoopGoes("sub", "batch")
  /\ pend' = reg[Loop] - numGot
  /\ numGot' = 0 /\ reg' = [reg EXCEPT ![Loop] = 0]
  /\ raced' = (raced \/ reg[Loop] # pend)
  /\ UNCHANGED <<now, timerVars, sq, fly, cq, cnt, cntSeen, timeout, batch, run,
                 ring, seen, op, coVars, poolVars>>

BatchResume ==
  /\ LoopGoes("batch", "batch")
  /\ \E c \in Coroutine :
       /\ batch[c] > 0
       /\ Resume(Loop, c)
       /\ batch' = [batch EXCEPT ![c] = @ - 1]
  /\ UNCHANGED <<now, timerVars, ringVars, cnt, cntSeen, timeout, numGot, sqeVars, awaits,
                 origin, poolVars>>

BatchDone ==
  /\ \A c \in Coroutine : batch[c] = 0
  /\ LoopGoes("batch", "timers")
  /\ UNCHANGED <<now, timerVars, ringVars, cnt, cntSeen, timeout, batch, numGot, run, sqeVars,
                 coVars, poolVars>>

(* ThreadLoop::isRun, under its mutex.                                     *)

(* Mutant: run() does not ask the thread controller. *)
NoThreadTaskAlways == TRUE

NoThreadTask == cnt = 0

Return ==
  /\ NoThreadTask
  /\ LoopGoes("thread", "idle")
  /\ UNCHANGED <<now, timerVars, ringVars, cnt, cntSeen, timeout, batch, numGot, run, sqeVars,
                 coVars, poolVars>>

ThreadWait ==
  /\ ~NoThreadTask
  /\ LoopGoes("thread", "threadWait")
  /\ cntSeen' = cnt
  /\ UNCHANGED <<now, timerVars, ringVars, cnt, timeout, batch, numGot, run, sqeVars, coVars,
                 poolVars>>

ThreadWake ==                   \* wait(lock, cnt > _threadTaskCnt)
  /\ cntSeen > cnt
  /\ cntSeen' = 0
  /\ LoopGoes("threadWait", "timers")
  /\ UNCHANGED <<now, timerVars, ringVars, cnt, timeout, batch, numGot, run, sqeVars,
                 coVars, poolVars>>

LoopStep ==
  \/ TimerResume \/ TimerErase \/ TimerWait \/ TimersDone
  \/ YieldResume \/ YieldPop \/ YieldsDone
  \/ Drive \/ NoDrive \/ WakeUp \/ Collect \/ Subtract \/ BatchResume \/ BatchDone
  \/ Return \/ ThreadWait \/ ThreadWake

-----------------------------------------------------------------------------
(* IoUring::getSqe and what follows it, by thread t for the operation of a *)
(* coroutine or a null one.  With the queue full it submits and waits for  *)
(* a completion.                                                           *)

SqeFrame == <<now, timerVars, cnt, cntSeen, loopVars, poolVars>>

SqeRead(t) ==                   \* the tail and the counter
  /\ Len(sq) < SqSize
  /\ InSqe(t, "get") \/ (InSqe(t, "full") /\ Completed # {})
  /\ ring' = [ring EXCEPT ![t] = "write"]
  /\ reg' = [reg EXCEPT ![t] = pend]
  /\ seen' = [seen EXCEPT ![t] = sq]
  /\ UNCHANGED <<SqeFrame, ringVars, run, op, coVars>>

SqeFull(t) ==
  /\ InSqe(t, "get") /\ Len(sq) = SqSize
  /\ ring' = [ring EXCEPT ![t] = "full"]
  /\ SubmitAll
  /\ UNCHANGED <<SqeFrame, pend, cq, raced, run, reg, seen, op, coVars>>

(* "Still failed to get sqe after wait": another thread has filled the     *)
(* queue again.  The exception goes to the coroutine, which runs on.       *)
StillFull(t) == InSqe(t, "full") /\ Completed # {} /\ Len(sq) = SqSize

SqeThrows(t) ==
  /\ StillFull(t) /\ op[t] # Nop
  /\ ring' = [ring EXCEPT ![t] = "out"] /\ op' = [op EXCEPT ![t] = None]
  /\ UNCHANGED <<SqeFrame, ringVars, run, reg, seen, coVars>>

(* An entry another thread wrote since the tail was read is overwritten.   *)
Written(t) ==
  IF Len(sq) > Len(seen[t]) THEN Append(SubSeq(sq, 1, Len(seen[t])), op[t])
  ELSE Append(sq, op[t])

SqeWrite(t) ==
  /\ InSqe(t, "write")
  /\ sq' = Written(t)
  /\ pend' = reg[t] + 1
  /\ raced' = (raced \/ reg[t] # pend \/ seen[t] # sq)
  /\ ring' = [ring EXCEPT ![t] = "out"]
  /\ op' = [op EXCEPT ![t] = None]
  /\ reg' = [reg EXCEPT ![t] = 0] /\ seen' = [seen EXCEPT ![t] = <<>>]
  /\ IF op[t] = Nop THEN UNCHANGED <<co, run>>
     ELSE /\ co' = [co EXCEPT ![op[t]] = "aio"]
          /\ run' = [run EXCEPT ![t] = None]
  /\ UNCHANGED <<SqeFrame, fly, cq, awaits, origin>>

SqeStep(t) == SqeRead(t) \/ SqeFull(t) \/ SqeThrows(t) \/ SqeWrite(t)

-----------------------------------------------------------------------------
(* The next move of the coroutine that thread t is running. *)

MovesOf(t) == IF t = Loop THEN LoopMoves ELSE WorkerMoves

Running(t, c) == ~Crashed /\ run[t] = c /\ ring[t] = "out" /\ co[c] = "running"

Where(t) ==
  IF t # Loop THEN "worker" ELSE IF lpc = "yieldBack" THEN "yield" ELSE "loop"

Awaits(t, c, what) ==
  /\ Running(t, c) /\ what \in MovesOf(t)
  /\ awaits[c] < MaxAwaits
  /\ awaits' = [awaits EXCEPT ![c] = @ + 1]
  /\ origin' = [origin EXCEPT ![c] = Where(t)]

Suspends(t, c, state) ==
  /\ co' = [co EXCEPT ![c] = state]
  /\ run' = [run EXCEPT ![t] = None]

AwaitTimer(t, c) ==             \* sleepFor(d)
  /\ Awaits(t, c, "timer") /\ Suspends(t, c, "timer")
  /\ \E d \in Durations :
       /\ now + d <= MaxTime
       /\ timerTree' = timerTree \cup {[at |-> now + d, co |-> c, n |-> awaits[c]]}
  /\ UNCHANGED <<now, cur, yieldQueue, ringVars, cnt, cntSeen, loopVars, sqeVars, poolVars>>

AwaitYield(t, c) ==
  /\ Awaits(t, c, "yield") /\ Suspends(t, c, "yield")
  /\ yieldQueue' = Append(yieldQueue, c)
  /\ UNCHANGED <<now, timerTree, cur, ringVars, cnt, cntSeen, loopVars, sqeVars, poolVars>>

AwaitAio(t, c) ==               \* makeAioTask, prep...: still running until the entry is written
  /\ Awaits(t, c, "aio")
  /\ ring' = [ring EXCEPT ![t] = "get"]
  /\ op' = [op EXCEPT ![t] = c]
  /\ UNCHANGED <<now, timerVars, ringVars, cnt, cntSeen, loopVars, run, reg, seen, co, poolVars>>

(* Mutant: a worker's coroutine that awaits again keeps the controller it had. *)
AwaitFutureUncounted(t, c) ==
  /\ Awaits(t, c, "future")
  /\ cnt' = (IF t = Loop THEN cnt + 1 ELSE cnt)
  /\ futures' = futures \cup {c}
  /\ co' = [co EXCEPT ![c] = "awaiting"]
  /\ UNCHANGED <<now, timerVars, ringVars, cntSeen, loopVars, run, sqeVars, wpc, wco>>

(* The constructor of _hx_Await: a controller is made and the continuation *)
(* handed to the pool ...                                                  *)
AwaitFuture(t, c) ==
  /\ Awaits(t, c, "future")
  /\ cnt' = cnt + 1
  /\ futures' = futures \cup {c}
  /\ co' = [co EXCEPT ![c] = "awaiting"]
  /\ UNCHANGED <<now, timerVars, ringVars, cntSeen, loopVars, run, sqeVars, wpc, wco>>

(* ... and await_suspend, which stores the coroutine for it.               *)
StoreCoroutine(t, c) ==
  /\ ~Crashed /\ run[t] = c /\ co[c] = "awaiting"
  /\ Suspends(t, c, "future")
  /\ UNCHANGED <<now, timerVars, ringVars, cnt, cntSeen, loopVars, sqeVars, awaits, origin,
                 poolVars>>

Finish(t, c) ==
  /\ Running(t, c) /\ "end" \in MovesOf(t)
  /\ Suspends(t, c, "done")
  /\ UNCHANGED <<now, timerVars, ringVars, cnt, cntSeen, loopVars, sqeVars, awaits, origin,
                 poolVars>>

CoroutineStep(t) ==
  \/ \E c \in Coroutine :
       \/ AwaitTimer(t, c) \/ AwaitYield(t, c) \/ AwaitAio(t, c)
       \/ AwaitFuture(t, c) \/ StoreCoroutine(t, c) \/ Finish(t, c)
  \/ SqeStep(t)

-----------------------------------------------------------------------------
(* The continuation of a future, on a worker of the pool. *)

Take(w, c) ==                   \* the future is ready: _res.set(t)
  /\ WorkerAt(w, "idle") /\ c \in futures
  /\ futures' = futures \ {c}
  /\ wpc' = [wpc EXCEPT ![w] = "resume"]
  /\ wco' = [wco EXCEPT ![w] = c]
  /\ UNCHANGED <<now, timerVars, ringVars, cnt, cntSeen, loopVars, run, sqeVars, coVars>>

ResumeOnWorker(w) ==            \* _coroutine.resume()
  /\ WorkerAt(w, "resume") /\ co[wco[w]] = "future"
  /\ Resume(w, wco[w])
  /\ wpc' = [wpc EXCEPT ![w] = "notify"]
  /\ UNCHANGED <<now, timerVars, ringVars, cnt, cntSeen, loopVars, sqeVars, awaits, origin,
                 futures, wco>>

ResumeNull(w) ==                \* of a handle that is not stored yet
  /\ WorkerAt(w, "resume") /\ co[wco[w]] = "awaiting"
  /\ wpc' = [wpc EXCEPT ![w] = "crashed"]
  /\ UNCHANGED <<now, timerVars, ringVars, cnt, cntSeen, loopVars, run, sqeVars, coVars,
                 futures, wco>>

NotifyLoop(w) ==                \* raii.notify(), under ThreadLoop's mutex
  /\ WorkerAt(w, "notify") /\ run[w] = None
  /\ cnt' = cnt - 1
  /\ wpc' = [wpc EXCEPT ![w] = "nop"]
  /\ ring' = [ring EXCEPT ![w] = "get"] /\ op' = [op EXCEPT ![w] = Nop]
  /\ UNCHANGED <<now, timerVars, ringVars, cntSeen, loopVars, run, reg, seen, coVars, futures,
                 wco>>

(* Mutant: prepNop does not submit. *)
PostNopUnsubmitted(w) ==
  /\ WorkerAt(w, "nop") /\ ring[w] = "out"
  /\ wpc' = [wpc EXCEPT ![w] = "idle"] /\ wco' = [wco EXCEPT ![w] = None]
  /\ UNCHANGED <<now, timerVars, ringVars, cnt, cntSeen, loopVars, run, sqeVars, coVars,
                 futures>>

PostNop(w) ==                   \* the end of prepNop: io_uring_submit
  /\ WorkerAt(w, "nop") /\ ring[w] = "out"
  /\ SubmitAll
  /\ wpc' = [wpc EXCEPT ![w] = "idle"] /\ wco' = [wco EXCEPT ![w] = None]
  /\ UNCHANGED <<now, timerVars, pend, cq, raced, cnt, cntSeen, loopVars, run, sqeVars, coVars,
                 futures>>

PostNopThrows(w) ==             \* into the continuation's future: nothing is submitted
  /\ WorkerAt(w, "nop") /\ StillFull(w)
  /\ ring' = [ring EXCEPT ![w] = "out"] /\ op' = [op EXCEPT ![w] = None]
  /\ wpc' = [wpc EXCEPT ![w] = "idle"] /\ wco' = [wco EXCEPT ![w] = None]
  /\ UNCHANGED <<now, timerVars, ringVars, cnt, cntSeen, loopVars, run, reg, seen, coVars,
                 futures>>

WorkerStep(w) ==
  \/ \E c \in Coroutine : Take(w, c)
  \/ ResumeOnWorker(w) \/ ResumeNull(w) \/ NotifyLoop(w) \/ PostNop(w)
  \/ PostNopThrows(w)

-----------------------------------------------------------------------------
(* The kernel and the clock. *)

Complete(o) ==
  /\ fly[o] > 0
  /\ fly' = [fly EXCEPT ![o] = @ - 1]
  /\ cq' = [cq EXCEPT ![o] = @ + 1]
  /\ UNCHANGED <<now, timerVars, pend, sq, raced, cnt, cntSeen, loopVars, run, sqeVars, coVars,
                 poolVars>>

Tick ==
  /\ now < MaxTime
  /\ now' = now + 1
  /\ UNCHANGED <<timerVars, ringVars, cnt, cntSeen, loopVars, run, sqeVars, coVars, poolVars>>

Next ==
  \/ \E c \in Coroutine : Start(c) \/ TrySync(c)
  \/ BeginRun \/ LoopStep \/ Interrupted
  \/ \E t \in Thread : CoroutineStep(t)
  \/ \E w \in Worker : WorkerStep(w)
  \/ \E o \in Op : Complete(o)
  \/ Tick

Spec == Init /\ [][Next]_vars

(* The loop's thread and the workers are run by the operating system, time *)
(* passes and a null operation completes.  An I/O operation need not       *)
(* complete, nobody has to start a coroutine or call run(), and a signal   *)
(* need not come.                                                          *)
Fairness ==
  /\ WF_vars(LoopStep)
  /\ WF_vars(BeginRun /\ lpc = "sync")
  /\ \A t \in Thread : WF_vars(CoroutineStep(t))
  /\ \A w \in Worker : WF_vars(WorkerStep(w))
  /\ WF_vars(Complete(Nop))
  /\ WF_vars(Tick)

FairSpec == Spec /\ Fairness

-----------------------------------------------------------------------------
(* Properties. *)

Suspended == {"timer", "yield", "aio", "future"}

(* What may resume c: its entry in the tree, its place in the yield queue, *)
(* its operation, its continuation.                                        *)
Sources(c) ==
    Cardinality({e \in timerTree : e.co = c /\ ~(lpc = "timerBack" /\ e = cur)})
  + Count(yieldQueue, c) - (IF lpc = "yieldBack" /\ Head(yieldQueue) = c THEN 1 ELSE 0)
  + Count(sq, c) + fly[c] + cq[c] + batch[c]
  + Cardinality({w \in Worker : wco[w] = c /\ wpc[w] = "resume"})
  + (IF c \in futures THEN 1 ELSE 0)

(* A suspended coroutine is due to be resumed by exactly one source, a     *)
(* running one by none, and it runs on one thread: it is neither lost nor  *)
(* resumed twice.  Only a race on the ring may lose an operation.          *)
OneSource ==
  \A c \in Coroutine :
    /\ co[c] \in Suspended => Sources(c) = 1 \/ (raced /\ co[c] = "aio" /\ Sources(c) = 0)
    /\ co[c] \in {"new", "running", "done"} => Sources(c) = 0
    /\ Cardinality({t \in Thread : run[t] = c}) = IF co[c] \in {"running", "awaiting"} THEN 1 ELSE 0

(* _numSqesPending is the number of entries that have not been collected,  *)
(* null ones included, unless two threads wrote it at once: run() neither  *)
(* ends too early nor waits for nothing.                                   *)
InRing == Len(sq) + Size(fly) + Size(cq)

PendingExact == ~raced => pend = InRing + (IF lpc = "sub" THEN numGot ELSE 0)

(* Every controller counts, from the constructor of the awaiter to the     *)
(* worker's notify, and none is left behind.                               *)
ThreadTasksExact ==
  cnt = Cardinality(futures) + Cardinality({w \in Worker : wpc[w] \in {"resume", "notify", "crashed"}})

(* When run() returns nothing is left to resume, but for two gaps: a timer *)
(* set by a coroutine resumed from the yield queue, and an operation       *)
(* started on a worker.                                                    *)
ReturnsIdle ==
  [][lpc = "thread" /\ lpc' = "idle" =>
       \A c \in Coroutine :
         \/ co[c] \in {"new", "done"}
         \/ co[c] = "timer" /\ origin[c] = "yield"
         \/ co[c] = "aio" /\ (origin[c] = "worker" \/ raced)]_vars

InRun == lpc \notin {"idle", "threw"}

(* A timer fires, whatever operations and futures are outstanding, unless  *)
(* it was set from the yield queue, which run() serves after it has looked *)
(* at the timers.                                                          *)
TimerFires ==
  \A c \in Coroutine :
    (co[c] = "timer" /\ origin[c] = "loop" /\ InRun) ~> (co[c] # "timer" \/ ~InRun \/ Crashed)

(* An operation prepared by a coroutine reaches the kernel, even when it   *)
(* was prepared on a worker while the loop's thread waits in the ring:     *)
(* that is what the null operation is for.                                 *)
OperationSubmitted ==
  \A c \in Coroutine :
    (Count(sq, c) > 0 /\ InRun) ~> (Count(sq, c) = 0 \/ ~InRun \/ Crashed)

(* When every coroutine has ended, run() returns.                          *)
Quiet == \A c \in Coroutine : co[c] \in {"new", "done"}

RunReturns == (InRun /\ Quiet /\ ~raced) ~> (~InRun \/ ~Quiet \/ raced \/ Crashed)

(* run() resumes whatever coroutines are suspended: it does not return     *)
(* with a timer pending.                                                   *)
RunLeavesNoTimer ==
  [][lpc = "thread" /\ lpc' = "idle" => \A c \in Coroutine : co[c] # "timer"]_vars

(* trySync after trySync finds the loop empty.                             *)
NoUnexpectedCall == lpc # "threw"

(* A worker resumes the coroutine that awaits the future.                  *)
ResumesStored == ~Crashed

=============================================================================
