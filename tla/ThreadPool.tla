----------------------------- MODULE ThreadPool -----------------------------
(***************************************************************************)
(* HX::container::ThreadPool (include/HXLibs/container/ThreadPool.hpp),    *)
(* with its SafeQueues and the readiness of the FutureResults it fills.    *)
(*                                                                         *)
(* Threads: every task has a submitting thread (addTask or thenTry); the   *)
(* workers; the manager of Model::AsyncCheck (check); and the owner, which *)
(* configures the pool, calls run() and finally destroys it.  A step is    *)
(* one access to shared memory: the SafeQueue operations are atomic (each  *)
(* takes the queue's own mutex), the worker's predicate, its re-check of   *)
(* _isRun, the CAS on _delCnt and the pop are separate steps under _mtx.   *)
(*                                                                         *)
(* A condition variable is the set of threads blocked in it: a worker      *)
(* whose predicate was false is first "block" (about to wait, still the    *)
(* owner of _mtx) and then "wait" (asleep, _mtx released, atomically).     *)
(* notify_one and notify_all only reach threads at "wait".                 *)
(***************************************************************************)
EXTENDS Integers, Sequences, FiniteSets

CONSTANTS
  Task,          \* every task ever handed to addTask
  Worker,        \* the thread ids the system can give to workers
  None,          \* no worker, no task
  VoidTask,      \* tasks whose function returns void (addTask's first branch)
  Pred,          \* Pred[t]: the task t is a thenTry continuation of, or None
  Modes,         \* the Model values run() is instantiated with
  HardwareConcurrency,  \* std::thread::hardware_concurrency()
  MinChoices,    \* values given to setMinThreadNum / setFixedThreadNum
  MaxChoices,    \* values given to setMaxThreadNum
  Decisions,     \* the integers a strategy may return
  Strategy(_)    \* run()'s strategy

ASSUME TaskAssumption ==
  /\ None \notin Task \cup Worker
  /\ IsFiniteSet(Worker)
  /\ VoidTask \subseteq Task
  /\ Pred \in [Task -> Task \cup {None}]
  /\ \A t \in VoidTask : Pred[t] = None      \* thenTry fills its future after the call

ASSUME SizeAssumption ==
  /\ HardwareConcurrency \in Nat
  /\ MinChoices \subseteq Nat /\ MaxChoices \subseteq Nat
  /\ Decisions \subseteq Int
  /\ Modes \subseteq {"FixedSizeAndNoCheck", "AsyncCheck"}

VARIABLES
  isRun, minThreadNum, maxThreadNum, runCnt, delCnt,    \* the atomics
  taskQueue, delIdQueue,      \* the SafeQueues
  workers,                    \* keys of the std::map of worker threads
  mtx,                        \* the worker that holds _mtx, or None
  wpc, task,                  \* per worker: where it is, the task it took
  opc, todo, sample,          \* the manager: where it is, loop count, ThreadPoolData
  main,                       \* the owner of the pool
  sub,                        \* per task: where its submission is
  result,                     \* per task: what its FutureResult holds
  finished,                   \* tasks whose function has returned or thrown
  submitted, started          \* history: tasks in order of emplace and of pop

poolVars == <<isRun, minThreadNum, maxThreadNum, runCnt, delCnt>>
taskVars == <<sub, result, finished, submitted, started>>
vars == <<poolVars, taskQueue, delIdQueue, workers, mtx, wpc, task, opc, todo,
          sample, main, taskVars>>

-----------------------------------------------------------------------------
InLoop == {"loop", "lock", "pred", "block", "wait", "checkRun", "checkDel",
           "pop", "pushDel", "inc", "call", "body", "dec"}
WorkerPc == InLoop \cup {"none", "exited"}
HoldsMtx == {"pred", "block", "checkRun", "checkDel", "pop", "pushDel"}
Counted == {"call", "body", "dec"}          \* between ++_runCnt and --_runCnt

Init ==
  /\ isRun = FALSE /\ runCnt = 0 /\ delCnt = 0
  /\ minThreadNum = 1 /\ maxThreadNum = HardwareConcurrency
  /\ taskQueue = <<>> /\ delIdQueue = <<>> /\ workers = {}
  /\ mtx = None
  /\ wpc = [w \in Worker |-> "none"] /\ task = [w \in Worker |-> None]
  /\ opc = "none" /\ todo = 0
  /\ sample = [taskNum |-> 0, runThreadNum |-> 0]
  /\ main = "config"
  /\ sub = [t \in Task |-> "idle"]
  /\ result = [t \in Task |-> "pending"]
  /\ finished = {} /\ submitted = <<>> /\ started = <<>>

-----------------------------------------------------------------------------
(* The condition variable. *)

Waiting == {w \in Worker : wpc[w] = "wait"}

NotifyOne ==
  IF Waiting = {} THEN wpc' = wpc
  ELSE \E w \in Waiting : wpc' = [wpc EXCEPT ![w] = "lock"]

NotifyAll == wpc' = [w \in Worker |-> IF w \in Waiting THEN "lock" ELSE wpc[w]]

-----------------------------------------------------------------------------
(* addTask, by the thread that submits t.  The pool is still alive: main   *)
(* has not begun ~ThreadPool.  A continuation is submitted by thenTry on   *)
(* the FutureResult that the predecessor's addTask returned.               *)

PoolAlive == main \in {"config", "make", "running"}

(* Mutant: a continuation queued before its predecessor. *)
MaySubmitAnyTime(t) == PoolAlive /\ sub[t] = "idle"

MaySubmit(t) ==
  /\ PoolAlive
  /\ sub[t] = "idle"
  /\ Pred[t] # None => sub[Pred[t]] = "returned"

Emplace(t) ==
  /\ MaySubmit(t)
  /\ taskQueue' = Append(taskQueue, t)
  /\ submitted' = Append(submitted, t)
  /\ sub' = [sub EXCEPT ![t] = "notify"]
  /\ UNCHANGED <<poolVars, delIdQueue, workers, mtx, wpc, task, opc, todo,
                 sample, main, result, finished, started>>

(* _cv.notify_one() with no lock held. *)
Notify(t) ==
  /\ sub[t] = "notify"
  /\ NotifyOne
  /\ sub' = [sub EXCEPT ![t] = "returned"]
  /\ UNCHANGED <<poolVars, taskQueue, delIdQueue, workers, mtx, task, opc, todo,
                 sample, main, result, finished, submitted, started>>

-----------------------------------------------------------------------------
(* The worker thread of makeWorker. *)

WorkerFrame == <<minThreadNum, maxThreadNum, isRun, workers, opc, todo, sample, main>>

WorkerGoes(w, from, to) ==
  /\ wpc[w] = from
  /\ wpc' = [wpc EXCEPT ![w] = to]

(* Mutant: waits without testing the predicate first. *)
LoopTestWaitsFirst(w) ==
  /\ WorkerGoes(w, "loop", IF isRun THEN "wait" ELSE "exited")
  /\ UNCHANGED <<WorkerFrame, runCnt, delCnt, taskQueue, delIdQueue, mtx, task, taskVars>>

LoopTest(w) ==                              \* while (_isRun)
  /\ WorkerGoes(w, "loop", IF isRun THEN "lock" ELSE "exited")
  /\ UNCHANGED <<WorkerFrame, runCnt, delCnt, taskQueue, delIdQueue, mtx, task, taskVars>>

Lock(w) ==                                  \* unique_lock, or re-lock in wait
  /\ mtx = None
  /\ WorkerGoes(w, "lock", "pred")
  /\ mtx' = w
  /\ UNCHANGED <<WorkerFrame, runCnt, delCnt, taskQueue, delIdQueue, task, taskVars>>

WakeCondition == taskQueue # <<>> \/ delCnt > 0 \/ ~isRun

(* The predicate's three reads are one step: while w holds _mtx nothing    *)
(* can make a disjunct that was true false again, and if all three were    *)
(* read false, they were false together at the first read.                 *)
TestPredicate(w) ==
  /\ WorkerGoes(w, "pred", IF WakeCondition THEN "checkRun" ELSE "block")
  /\ UNCHANGED <<WorkerFrame, runCnt, delCnt, taskQueue, delIdQueue, mtx, task, taskVars>>

Block(w) ==                                 \* release _mtx and sleep, atomically
  /\ WorkerGoes(w, "block", "wait")
  /\ mtx' = None
  /\ UNCHANGED <<WorkerFrame, runCnt, delCnt, taskQueue, delIdQueue, task, taskVars>>

SpuriousWake(w) ==                          \* the standard allows it
  /\ WorkerGoes(w, "wait", "lock")
  /\ UNCHANGED <<WorkerFrame, runCnt, delCnt, taskQueue, delIdQueue, mtx, task, taskVars>>

CheckRun(w) ==                              \* if (!_isRun) break;
  /\ WorkerGoes(w, "checkRun", IF isRun THEN "checkDel" ELSE "exited")
  /\ mtx' = IF isRun THEN mtx ELSE None
  /\ UNCHANGED <<WorkerFrame, runCnt, delCnt, taskQueue, delIdQueue, task, taskVars>>

(* Mutant: fetch_sub instead of the CAS loop. *)
TryDecrementUnguarded(w) ==
  /\ WorkerGoes(w, "checkDel", IF delCnt > 0 THEN "pushDel" ELSE "pop")
  /\ delCnt' = delCnt - 1
  /\ UNCHANGED <<WorkerFrame, runCnt, taskQueue, delIdQueue, mtx, task, taskVars>>

(* Mutant: one weak CAS, which may fail, and no loop. *)
TryDecrementNoRetry(w) ==
  /\ \/ /\ WorkerGoes(w, "checkDel", IF delCnt > 0 THEN "pushDel" ELSE "pop")
        /\ delCnt' = IF delCnt > 0 THEN delCnt - 1 ELSE delCnt
     \/ WorkerGoes(w, "checkDel", "pop") /\ delCnt' = delCnt
  /\ UNCHANGED <<WorkerFrame, runCnt, taskQueue, delIdQueue, mtx, task, taskVars>>

TryDecrement(w) ==                          \* tryDecrementIfPositive(_delCnt)
  /\ WorkerGoes(w, "checkDel", IF delCnt > 0 THEN "pushDel" ELSE "pop")
  /\ delCnt' = IF delCnt > 0 THEN delCnt - 1 ELSE delCnt
  /\ UNCHANGED <<WorkerFrame, runCnt, taskQueue, delIdQueue, mtx, task, taskVars>>

(* Mutant: no break after the id is queued. *)
PushDelIdNoBreak(w) ==
  /\ WorkerGoes(w, "pushDel", "loop")
  /\ delIdQueue' = Append(delIdQueue, w)
  /\ mtx' = None
  /\ UNCHANGED <<WorkerFrame, runCnt, delCnt, taskQueue, task, taskVars>>

PushDelId(w) ==                             \* and break, which unlocks
  /\ WorkerGoes(w, "pushDel", "exited")
  /\ delIdQueue' = Append(delIdQueue, w)
  /\ mtx' = None
  /\ UNCHANGED <<WorkerFrame, runCnt, delCnt, taskQueue, task, taskVars>>

(* Mutant: front() without pop(). *)
PopKeepsFront(w) ==
  /\ WorkerGoes(w, "pop", "inc")
  /\ task' = [task EXCEPT ![w] = Head(taskQueue)]
  /\ started' = Append(started, Head(taskQueue))
  /\ mtx' = None
  /\ UNCHANGED <<WorkerFrame, runCnt, delCnt, taskQueue, delIdQueue, sub, result, finished,
                 submitted>>

Pop(w) ==                                   \* frontAndPop, end of the locked block
  /\ WorkerGoes(w, "pop", "inc")
  /\ task' = [task EXCEPT ![w] = Head(taskQueue)]
  /\ taskQueue' = Tail(taskQueue)
  /\ started' = Append(started, Head(taskQueue))
  /\ mtx' = None
  /\ UNCHANGED <<WorkerFrame, runCnt, delCnt, delIdQueue, sub, result, finished, submitted>>

IncRun(w) ==
  /\ WorkerGoes(w, "inc", "call")
  /\ runCnt' = runCnt + 1
  /\ UNCHANGED <<WorkerFrame, delCnt, taskQueue, delIdQueue, mtx, task, taskVars>>

(* Mutant: the continuation does not wait. *)
CanRunAlways(t) == TRUE

(* Mutant: the continuation waits for a value only. *)
CanRunOnValue(t) == Pred[t] # None => result[Pred[t]] = "value"

(* A continuation first waits in self.get() for its predecessor's result.  *)
CanRun(t) == Pred[t] # None => result[Pred[t]] # "pending"

(* task->call() of a function with a result: the future is filled with     *)
(* what the function returned or threw.                                    *)
CallValue(w) ==
  LET t == task[w] IN
  /\ WorkerGoes(w, "call", "dec")
  /\ t \notin VoidTask
  /\ CanRun(t)
  /\ \E out \in {"value", "error"} : result' = [result EXCEPT ![t] = out]
  /\ finished' = finished \cup {t}
  /\ UNCHANGED <<WorkerFrame, runCnt, delCnt, taskQueue, delIdQueue, mtx, task,
                 sub, submitted, started>>

(* task->call() of a void function: setData comes first ...                *)
CallVoid(w) ==
  LET t == task[w] IN
  /\ WorkerGoes(w, "call", "body")
  /\ t \in VoidTask
  /\ result' = [result EXCEPT ![t] = "value"]
  /\ UNCHANGED <<WorkerFrame, runCnt, delCnt, taskQueue, delIdQueue, mtx, task,
                 sub, finished, submitted, started>>

(* ... and then the function, whose exception still becomes the result.    *)
VoidBody(w) ==
  LET t == task[w] IN
  /\ WorkerGoes(w, "body", "dec")
  /\ \E out \in {"value", "error"} : result' = [result EXCEPT ![t] = out]
  /\ finished' = finished \cup {t}
  /\ UNCHANGED <<WorkerFrame, runCnt, delCnt, taskQueue, delIdQueue, mtx, task,
                 sub, submitted, started>>

(* Mutant: --_runCnt skipped when the task threw. *)
DecRunUnlessThrown(w) ==
  /\ WorkerGoes(w, "dec", "loop")
  /\ runCnt' = IF result[task[w]] = "error" THEN runCnt ELSE runCnt - 1
  /\ task' = [task EXCEPT ![w] = None]
  /\ UNCHANGED <<WorkerFrame, delCnt, taskQueue, delIdQueue, mtx, taskVars>>

DecRun(w) ==
  /\ WorkerGoes(w, "dec", "loop")
  /\ runCnt' = runCnt - 1
  /\ task' = [task EXCEPT ![w] = None]
  /\ UNCHANGED <<WorkerFrame, delCnt, taskQueue, delIdQueue, mtx, taskVars>>

WorkerStep(w) ==
  \/ LoopTest(w) \/ Lock(w) \/ TestPredicate(w) \/ Block(w) \/ CheckRun(w)
  \/ TryDecrement(w) \/ PushDelId(w) \/ Pop(w) \/ IncRun(w) \/ CallValue(w)
  \/ CallVoid(w) \/ VoidBody(w) \/ DecRun(w)

-----------------------------------------------------------------------------
(* makeWorker and clearDelIdQueue, shared by the manager and the owner.    *)

(* One iteration of makeWorker: start a thread, put it in the map.  Only   *)
(* the caller reads the map, so the two are one step.                      *)
StartWorker(w) ==
  /\ wpc[w] = "none"
  /\ wpc' = [wpc EXCEPT ![w] = "loop"]
  /\ workers' = workers \cup {w}

(* One iteration of clearDelIdQueue: pop an id, find it in the map, join   *)
(* that thread (which must have ended), erase it.                          *)
JoinDeleted ==
  LET w == Head(delIdQueue) IN
  /\ delIdQueue # <<>>
  /\ w \in workers
  /\ wpc[w] = "exited"
  /\ delIdQueue' = Tail(delIdQueue)
  /\ workers' = workers \ {w}
  /\ wpc' = [wpc EXCEPT ![w] = "none"]

-----------------------------------------------------------------------------
(* check(), the manager thread of Model::AsyncCheck. *)

ManagerFrame == <<minThreadNum, maxThreadNum, isRun, runCnt, mtx, task, main,
                  taskQueue, taskVars>>

ManagerGoes(from, to) == opc = from /\ opc' = to

ManagerInit ==                  \* if (_workers.size() < _minThreadNum) makeWorker(...)
  /\ ManagerGoes("init", "initMake")
  /\ todo' = IF Cardinality(workers) < minThreadNum
             THEN minThreadNum - Cardinality(workers) ELSE 0
  /\ UNCHANGED <<ManagerFrame, delCnt, delIdQueue, workers, wpc, sample>>

ManagerMake(w) ==               \* an iteration of makeWorker's loop
  /\ opc \in {"initMake", "make"} /\ todo > 0
  /\ StartWorker(w)
  /\ todo' = todo - 1
  /\ UNCHANGED <<ManagerFrame, opc, delCnt, delIdQueue, sample>>

ManagerMade ==
  /\ todo = 0
  /\ \/ ManagerGoes("initMake", "while")
     \/ ManagerGoes("make", "clear")
  /\ UNCHANGED <<ManagerFrame, todo, delCnt, delIdQueue, workers, wpc, sample>>

ManagerTest ==                  \* while (_isRun)
  /\ ManagerGoes("while", IF isRun THEN "size" ELSE "exited")
  /\ UNCHANGED <<ManagerFrame, todo, delCnt, delIdQueue, workers, wpc, sample>>

ReadTaskSize ==
  /\ ManagerGoes("size", "running")
  /\ sample' = [sample EXCEPT !.taskNum = Len(taskQueue)]
  /\ UNCHANGED <<ManagerFrame, todo, delCnt, delIdQueue, workers, wpc>>

ReadRunCnt ==
  /\ ManagerGoes("running", "decide")
  /\ sample' = [sample EXCEPT !.runThreadNum = runCnt]
  /\ UNCHANGED <<ManagerFrame, todo, delCnt, delIdQueue, workers, wpc>>

(* What the strategy is shown: the sampled counts and, as they are read    *)
(* now, the limits and the size of the map, which only the manager changes.*)
StrategyData ==
  [minThreadNum |-> minThreadNum, maxThreadNum |-> maxThreadNum,
   taskNum |-> sample.taskNum, nowThreadNum |-> Cardinality(workers),
   runThreadNum |-> sample.runThreadNum,
   sleepThreadNum |-> Cardinality(workers) - sample.runThreadNum]

(* The decision add: make add workers, or set _delCnt to -add (an          *)
(* assignment, whatever is left of an earlier order) and notify -add times.*)
Decide ==
  \E add \in Decisions :
    /\ add = Strategy(StrategyData)
    /\ \/ add > 0 /\ ManagerGoes("decide", "make") /\ todo' = add /\ delCnt' = delCnt
       \/ add < 0 /\ ManagerGoes("decide", "notify") /\ todo' = -add /\ delCnt' = -add
       \/ add = 0 /\ ManagerGoes("decide", "clear") /\ todo' = 0 /\ delCnt' = delCnt
    /\ UNCHANGED <<ManagerFrame, delIdQueue, workers, wpc, sample>>

ManagerNotify ==                \* _cv.notify_one(), todo times, with no lock held
  /\ opc = "notify" /\ todo > 0
  /\ NotifyOne
  /\ todo' = todo - 1
  /\ opc' = IF todo = 1 THEN "clear" ELSE "notify"
  /\ UNCHANGED <<ManagerFrame, delCnt, delIdQueue, workers, sample>>

ManagerClear ==
  /\ opc = "clear"
  /\ JoinDeleted
  /\ UNCHANGED <<ManagerFrame, opc, todo, delCnt, sample>>

ManagerSleep ==                 \* nothing left to clear: sleep_for(checkTimer)
  /\ delIdQueue = <<>>
  /\ ManagerGoes("clear", "while")
  /\ sample' = [taskNum |-> 0, runThreadNum |-> 0]   \* the locals end their scope
  /\ UNCHANGED <<ManagerFrame, todo, delCnt, delIdQueue, workers, wpc>>

ManagerStep ==
  \/ ManagerInit \/ (\E w \in Worker : ManagerMake(w)) \/ ManagerMade \/ ManagerTest
  \/ ReadTaskSize \/ ReadRunCnt \/ Decide \/ ManagerNotify \/ ManagerClear
  \/ ManagerSleep

-----------------------------------------------------------------------------
(* The owner: the setters, run() and ~ThreadPool(). *)

OwnerFrame == <<runCnt, delCnt, taskQueue, mtx, task, sample, taskVars>>

SetThreadNum ==                 \* before run()
  /\ main = "config"
  /\ \/ \E n \in MinChoices : minThreadNum' = n /\ maxThreadNum' = maxThreadNum
     \/ \E n \in MaxChoices : maxThreadNum' = n /\ minThreadNum' = minThreadNum
  /\ UNCHANGED <<OwnerFrame, isRun, delIdQueue, workers, wpc, opc, todo, main>>

RunFixed ==                     \* makeWorker(_minThreadNum - 0) by the owner itself
  /\ "FixedSizeAndNoCheck" \in Modes
  /\ main = "config" /\ main' = "make"
  /\ isRun' = TRUE
  /\ todo' = minThreadNum
  /\ UNCHANGED <<OwnerFrame, minThreadNum, maxThreadNum, delIdQueue, workers, wpc, opc>>

RunAsync ==                     \* start the manager
  /\ "AsyncCheck" \in Modes
  /\ main = "config" /\ main' = "running"
  /\ isRun' = TRUE
  /\ opc' = "init"
  /\ UNCHANGED <<OwnerFrame, minThreadNum, maxThreadNum, delIdQueue, workers, wpc, todo>>

OwnerMake(w) ==
  /\ main = "make" /\ todo > 0
  /\ StartWorker(w)
  /\ todo' = todo - 1
  /\ UNCHANGED <<OwnerFrame, isRun, minThreadNum, maxThreadNum, delIdQueue, opc, main>>

OwnerMade ==
  /\ main = "make" /\ todo = 0
  /\ main' = "running"
  /\ UNCHANGED <<OwnerFrame, isRun, minThreadNum, maxThreadNum, delIdQueue, workers, wpc,
                 opc, todo>>

(* ~ThreadPool: _isRun = false.  No addTask is in progress any more.       *)
BeginDestroy ==
  /\ main = "running"
  /\ \A t \in Task : sub[t] # "notify"
  /\ main' = "joinManager"
  /\ isRun' = FALSE
  /\ UNCHANGED <<OwnerFrame, minThreadNum, maxThreadNum, delIdQueue, workers, wpc, opc, todo>>

JoinManager ==                  \* if it was started
  /\ main = "joinManager"
  /\ opc \in {"none", "exited"}
  /\ main' = "notifyAll"
  /\ UNCHANGED <<OwnerFrame, isRun, minThreadNum, maxThreadNum, delIdQueue, workers, wpc,
                 opc, todo>>

DestroyNotify ==                \* _cv.notify_all() with no lock held
  /\ main = "notifyAll"
  /\ NotifyAll
  /\ main' = "joinWorkers"
  /\ UNCHANGED <<OwnerFrame, isRun, minThreadNum, maxThreadNum, delIdQueue, workers, opc,
                 todo>>

(* Mutant: the workers are not joined. *)
JoinWorkersDetached ==
  /\ main = "joinWorkers"
  /\ main' = "clear"
  /\ UNCHANGED <<OwnerFrame, isRun, minThreadNum, maxThreadNum, delIdQueue, workers, wpc,
                 opc, todo>>

JoinWorkers ==                  \* for (auto& [_, t] : _workers) t->join();
  /\ main = "joinWorkers"
  /\ \A w \in workers : wpc[w] = "exited"
  /\ main' = "clear"
  /\ UNCHANGED <<OwnerFrame, isRun, minThreadNum, maxThreadNum, delIdQueue, workers, wpc,
                 opc, todo>>

(* if (!_delIdQueue.empty()) clearDelIdQueue(): every thread in the map    *)
(* has been joined, so join() throws and leaves a noexcept destructor.     *)
FinishDestroy ==
  /\ main = "clear"
  /\ main' = IF delIdQueue = <<>> THEN "destroyed" ELSE "terminated"
  /\ UNCHANGED <<OwnerFrame, isRun, minThreadNum, maxThreadNum, delIdQueue, workers, wpc,
                 opc, todo>>

DestroyStep == JoinManager \/ DestroyNotify \/ JoinWorkers \/ FinishDestroy

OwnerStep ==
  \/ SetThreadNum \/ RunFixed \/ RunAsync \/ (\E w \in Worker : OwnerMake(w))
  \/ OwnerMade \/ BeginDestroy \/ DestroyStep

-----------------------------------------------------------------------------
Next ==
  \/ \E t \in Task : Emplace(t) \/ Notify(t)
  \/ \E w \in Worker : WorkerStep(w) \/ SpuriousWake(w)
  \/ ManagerStep
  \/ OwnerStep

Spec == Init /\ [][Next]_vars

(* Every thread that can take a step takes one: the operating system runs  *)
(* each of them.  Nothing obliges a thread to submit a task, to call run() *)
(* or to destroy the pool, or the implementation to wake a thread          *)
(* spuriously; tasks and the strategy return.                              *)
Fairness ==
  /\ \A t \in Task : WF_vars(Notify(t))
  /\ \A w \in Worker : WF_vars(WorkerStep(w))
  /\ WF_vars(ManagerStep)
  /\ WF_vars((\E w \in Worker : OwnerMake(w)) \/ OwnerMade)
  /\ WF_vars(DestroyStep)

FairSpec == Spec /\ Fairness

-----------------------------------------------------------------------------
(* Properties. *)

Elements(seq) == {seq[i] : i \in 1..Len(seq)}

(* Every variable has its type.                                            *)
TypeOK ==
  /\ isRun \in BOOLEAN
  /\ minThreadNum \in Nat /\ maxThreadNum \in Nat
  /\ runCnt \in Int /\ delCnt \in Nat /\ todo \in Nat
  /\ taskQueue \in Seq(Task) /\ delIdQueue \in Seq(Worker)
  /\ workers \subseteq Worker
  /\ mtx \in Worker \cup {None}
  /\ wpc \in [Worker -> WorkerPc]
  /\ task \in [Worker -> Task \cup {None}]
  /\ opc \in {"none", "init", "initMake", "while", "size", "running", "decide", "make",
              "notify", "clear", "exited"}
  /\ sample \in [taskNum : Nat, runThreadNum : Int]
  /\ main \in {"config", "make", "running", "joinManager", "notifyAll", "joinWorkers",
               "clear", "destroyed", "terminated"}
  /\ sub \in [Task -> {"idle", "notify", "returned"}]
  /\ result \in [Task -> {"pending", "value", "error"}]
  /\ finished \subseteq Task
  /\ submitted \in Seq(Task) /\ started \in Seq(Task)

(* A worker that reaches frontAndPop finds a task: std::queue::front() on  *)
(* an empty queue is undefined.  It passed a predicate that may have been  *)
(* true for another reason, and took neither of the two exits since.       *)
PopsNonEmpty == \A w \in Worker : wpc[w] = "pop" => taskQueue # <<>>

(* Tasks are started in the order addTask queued them, each at most once,  *)
(* and none is lost between the queue and the workers.                     *)
StartedInOrder == submitted = started \o taskQueue

(* Every id a worker left in _delIdQueue is the key of one entry of the    *)
(* map, whose thread is past its loop: clearDelIdQueue never throws        *)
(* "iterator failure" and never blocks on a worker that is still working.  *)
DelIdsJoinable ==
  /\ \A i \in 1..Len(delIdQueue) :
       delIdQueue[i] \in workers /\ wpc[delIdQueue[i]] = "exited"
  /\ \A i, j \in 1..Len(delIdQueue) : delIdQueue[i] = delIdQueue[j] => i = j

(* _runCnt counts the workers inside ++_runCnt ... --_runCnt, and what the *)
(* manager sampled never exceeds the size of the map: sleepThreadNum,      *)
(* a difference of two uint32_t, does not wrap.                            *)
RunCntExact ==
  /\ runCnt = Cardinality({w \in Worker : wpc[w] \in Counted})
  /\ opc = "decide" => sample.runThreadNum <= Cardinality(workers)

(* The pool implements the executor its callers see: what SafeQueue holds  *)
(* is queued, and a started task runs until its function returned.         *)
Executor == INSTANCE FifoExecutor WITH
  NoTask <- None, queued <- taskQueue,
  running <- Elements(started) \ finished, done <- finished

ExecutorSpec == Executor!Spec

(* A worker blocked in a continuation's self.get() waits for a task that   *)
(* has left the queue and whose own future another worker will fill: no    *)
(* worker waits for a task that waits for a worker, whatever the number of *)
(* workers.                                                                *)
NoChainDeadlock ==
  \A w \in Worker :
    wpc[w] = "call" /\ ~CanRun(task[w]) =>
      \E v \in Worker \ {w} : task[v] = Pred[task[w]] /\ wpc[v] \in {"inc", "call"}

(* The destructor frees the queues, the mutex and the condition variable   *)
(* only when no thread the pool ever started is still in its loop.         *)
NoWorkerOutlivesPool ==
  main \in {"clear", "destroyed"} =>
    opc \in {"none", "exited"} /\ \A w \in Worker : wpc[w] \notin InLoop

(* The map never holds more than maxThreadNum threads under the default    *)
(* strategy, although a worker that has left its loop still counts.        *)
WithinMax == opc # "none" => Cardinality(workers) <= maxThreadNum

(* Every task a worker took runs to its end, a continuation included.      *)
StartedFinish ==
  \A t \in Task : (t \in Elements(started)) ~> (t \in finished /\ result[t] # "pending")

Awake(w) == wpc[w] \in InLoop \ {"block", "wait"}

(* A thread that is awake makes progress: with a fixed number of workers,  *)
(* as long as one is awake the backlog is drained, so that only a pool     *)
(* whose workers have all gone to wait can miss work; and once _isRun is   *)
(* false a worker that is not asleep ends, and so does the manager.        *)
AwakeDrains ==
  \A t \in Task :
    (t \in Elements(taskQueue) /\ \E w \in Worker : Awake(w)) ~>
      (t \in Elements(started) \/ ~isRun)
AwakeStop ==
  /\ \A w \in Worker :
       (main = "joinWorkers" /\ Awake(w)) ~> (wpc[w] \in {"exited", "none"})
  /\ (main = "joinManager") ~> (main # "joinManager")
AwakeProgress == AwakeDrains /\ AwakeStop

(* What the callers of addTask(...).get() rely on: a task whose addTask    *)
(* returned is run, as long as the pool is not destroyed.                  *)
EveryTaskRuns ==
  \A t \in Task :
    (sub[t] = "returned" /\ main = "running") ~> (t \in finished \/ main # "running")

(* The pool keeps minThreadNum threads once it has created them.           *)
KeepsMinThreads ==
  isRun /\ opc \notin {"none", "init", "initMake"} =>
    Cardinality({w \in Worker : wpc[w] \in InLoop}) >= minThreadNum

(* A continuation ends only after the task it continues has ended, so it   *)
(* knows whether that task threw.                                          *)
AfterPredecessor ==
  \A t \in finished : Pred[t] # None => Pred[t] \in finished

(* ~ThreadPool() is noexcept and ends normally.                            *)
DestructorCompletes == main # "terminated"

=============================================================================
