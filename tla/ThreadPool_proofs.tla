-------------------------- MODULE ThreadPool_proofs --------------------------
(***************************************************************************)
(* Proofs about ThreadPool, for any set of tasks, any finite set of thread *)
(* ids, any strategy and both models.                                      *)
(***************************************************************************)
EXTENDS ThreadPool, PoolStrategy, FiniteSetTheorems, SequenceTheorems, TLAPS

-----------------------------------------------------------------------------
(* Before run() there is no manager and no worker thread. *)
NoWorkerYet ==
  main = "config" => opc = "none" /\ workers = {} /\ \A w \in Worker : wpc[w] = "none"

(* A worker between its lock and its unlock is the owner of _mtx. *)
Locked == \A w \in Worker : wpc[w] \in HoldsMtx => mtx = w

(* What made the predicate true is still true when it is acted upon. *)
WokenForAReason ==
  \A w \in Worker :
    /\ wpc[w] = "checkRun" => WakeCondition
    /\ wpc[w] = "checkDel" => taskQueue # <<>> \/ delCnt > 0

(* A worker has a task exactly while it runs it. *)
HasTask ==
  \A w \in Worker : wpc[w] \in {"inc", "call", "body", "dec"} => task[w] \in Task

IInv == TypeOK /\ NoWorkerYet /\ Locked /\ WokenForAReason /\ PopsNonEmpty /\ HasTask

LEMMA InitIInv == Init => IInv
<1> SUFFICES ASSUME Init PROVE IInv
  OBVIOUS
<1>1e. isRun \in BOOLEAN
  BY DEF Init
<1>1. /\ minThreadNum \in Nat /\ maxThreadNum \in Nat
      /\ runCnt \in Int /\ delCnt \in Nat /\ todo \in Nat
  BY SizeAssumption DEF Init
<1>1d. sample \in [taskNum : Nat, runThreadNum : Int]
  BY DEF Init
<1>1c. wpc \in [Worker -> WorkerPc] /\ task \in [Worker -> Task \cup {None}]
  <2>1. "none" \in WorkerPc BY DEF WorkerPc
  <2>2. QED BY <2>1 DEF Init
<1>1a. /\ sub \in [Task -> {"idle", "notify", "returned"}]
       /\ result \in [Task -> {"pending", "value", "error"}]
  BY DEF Init
<1>1b. /\ taskQueue \in Seq(Task) /\ delIdQueue \in Seq(Worker)
       /\ submitted \in Seq(Task) /\ started \in Seq(Task)
  BY DEF Init
<1>2. NoWorkerYet /\ Locked /\ WokenForAReason /\ PopsNonEmpty /\ HasTask
  BY DEF Init, NoWorkerYet, Locked, WokenForAReason, PopsNonEmpty, HasTask, HoldsMtx
<1>3. TypeOK
  BY <1>1, <1>1a, <1>1b, <1>1c, <1>1d, <1>1e DEF Init, TypeOK
<1>4. QED BY <1>2, <1>3 DEF IInv

USE TaskAssumption, SizeAssumption

LEMMA SubmitStep ==
  ASSUME IInv, NEW t \in Task, Emplace(t) \/ Notify(t)
  PROVE  IInv'
<1> USE DEF IInv, TypeOK, NoWorkerYet, Locked, WokenForAReason, PopsNonEmpty, HasTask,
            HoldsMtx, WorkerPc, InLoop, WakeCondition
<1>1. CASE Emplace(t)
  BY <1>1 DEF Emplace, MaySubmit, PoolAlive, poolVars
<1>2. CASE Notify(t)
  <2>1. CASE Waiting = {}
    BY <1>2, <2>1 DEF Notify, NotifyOne, poolVars
  <2>2. ASSUME NEW w \in Waiting, wpc' = [wpc EXCEPT ![w] = "lock"] PROVE IInv'
    BY <1>2, <2>2 DEF Notify, Waiting, poolVars
  <2>3. QED BY <1>2, <2>1, <2>2 DEF Notify, NotifyOne
<1>3. QED BY <1>1, <1>2

LEMMA WorkerStepInv ==
  ASSUME IInv, NEW w \in Worker, WorkerStep(w) \/ SpuriousWake(w)
  PROVE  IInv'
<1> USE DEF IInv, TypeOK, NoWorkerYet, Locked, WokenForAReason, PopsNonEmpty, HasTask,
            HoldsMtx, WorkerPc, InLoop, WakeCondition, WorkerGoes, WorkerFrame, taskVars
<1>1. CASE LoopTest(w)      BY <1>1 DEF LoopTest
<1>2. CASE Lock(w)          BY <1>2 DEF Lock
<1>3. CASE TestPredicate(w) BY <1>3 DEF TestPredicate
<1>4. CASE Block(w)         BY <1>4 DEF Block
<1>5. CASE CheckRun(w)      BY <1>5 DEF CheckRun
<1>6. CASE TryDecrement(w)  BY <1>6 DEF TryDecrement
<1>7. CASE PushDelId(w)     BY <1>7 DEF PushDelId
<1>8. CASE Pop(w)
  <2>1. taskQueue # <<>> BY <1>8 DEF Pop
  <2>2. Head(taskQueue) \in Task /\ Tail(taskQueue) \in Seq(Task) BY <2>1
  <2>3. QED BY <1>8, <2>2 DEF Pop
<1>9. CASE IncRun(w)        BY <1>9 DEF IncRun
<1>10. CASE CallValue(w)    BY <1>10 DEF CallValue
<1>11. CASE CallVoid(w)     BY <1>11 DEF CallVoid
<1>12. CASE VoidBody(w)     BY <1>12 DEF VoidBody
<1>13. CASE DecRun(w)       BY <1>13 DEF DecRun
<1>14. CASE SpuriousWake(w) BY <1>14 DEF SpuriousWake
<1>15. QED
  BY <1>1, <1>2, <1>3, <1>4, <1>5, <1>6, <1>7, <1>8, <1>9, <1>10, <1>11, <1>12, <1>13,
     <1>14 DEF WorkerStep

LEMMA FiniteWorkers == ASSUME IInv PROVE Cardinality(workers) \in Nat
<1>1. workers \in SUBSET Worker /\ IsFiniteSet(Worker) BY DEF IInv, TypeOK
<1>2. IsFiniteSet(workers) BY <1>1, FS_Subset
<1>3. QED BY <1>2, FS_CardinalityType

LEMMA ManagerStepInv == ASSUME IInv, ManagerStep PROVE IInv'
<1> USE DEF IInv, TypeOK, NoWorkerYet, Locked, WokenForAReason, PopsNonEmpty, HasTask,
            HoldsMtx, WorkerPc, InLoop, WakeCondition, ManagerGoes, ManagerFrame, taskVars
<1>1. CASE ManagerInit
  <2>1. todo' \in Nat BY <1>1, FiniteWorkers DEF ManagerInit
  <2>2. QED BY <1>1, <2>1 DEF ManagerInit
<1>2. ASSUME NEW w \in Worker, ManagerMake(w) PROVE IInv'
  <2>1. todo' \in Nat BY <1>2 DEF ManagerMake
  <2>2. isRun' \in BOOLEAN /\ main # "config"
    BY <1>2 DEF ManagerMake, StartWorker
  <2>3. QED BY <1>2, <2>1, <2>2 DEF ManagerMake, StartWorker
<1>3. CASE ManagerMade      BY <1>3 DEF ManagerMade
<1>4. CASE ManagerTest      BY <1>4 DEF ManagerTest
<1>5. CASE ReadTaskSize     BY <1>5 DEF ReadTaskSize
<1>6. CASE ReadRunCnt       BY <1>6 DEF ReadRunCnt
<1>7. CASE Decide           BY <1>7 DEF Decide
<1>8. CASE ManagerNotify
  <2>1. CASE Waiting = {}
    BY <1>8, <2>1 DEF ManagerNotify, NotifyOne
  <2>2. ASSUME NEW w \in Waiting, wpc' = [wpc EXCEPT ![w] = "lock"] PROVE IInv'
    BY <1>8, <2>2 DEF ManagerNotify, Waiting
  <2>3. QED BY <1>8, <2>1, <2>2 DEF ManagerNotify, NotifyOne
<1>9. CASE ManagerClear     BY <1>9 DEF ManagerClear, JoinDeleted
<1>10. CASE ManagerSleep    BY <1>10 DEF ManagerSleep
<1>11. QED
  BY <1>1, <1>2, <1>3, <1>4, <1>5, <1>6, <1>7, <1>8, <1>9, <1>10 DEF ManagerStep

LEMMA OwnerStepInv == ASSUME IInv, OwnerStep PROVE IInv'
<1> USE DEF IInv, TypeOK, NoWorkerYet, Locked, WokenForAReason, PopsNonEmpty, HasTask,
            HoldsMtx, WorkerPc, InLoop, WakeCondition, OwnerFrame, taskVars
<1>1. CASE SetThreadNum     BY <1>1 DEF SetThreadNum
<1>2. CASE RunFixed         BY <1>2 DEF RunFixed
<1>3. CASE RunAsync         BY <1>3 DEF RunAsync
<1>4. CASE \E w \in Worker : OwnerMake(w)
  BY <1>4 DEF OwnerMake, StartWorker
<1>5. CASE OwnerMade        BY <1>5 DEF OwnerMade
<1>6. CASE BeginDestroy     BY <1>6 DEF BeginDestroy
<1>7. CASE JoinManager      BY <1>7 DEF JoinManager
<1>8. CASE DestroyNotify    BY <1>8 DEF DestroyNotify, NotifyAll, Waiting
<1>9. CASE JoinWorkers      BY <1>9 DEF JoinWorkers
<1>10. CASE FinishDestroy   BY <1>10 DEF FinishDestroy
<1>11. QED
  BY <1>1, <1>2, <1>3, <1>4, <1>5, <1>6, <1>7, <1>8, <1>9, <1>10
  DEF OwnerStep, DestroyStep

LEMMA IInvInductive == IInv /\ [Next]_vars => IInv'
<1> SUFFICES ASSUME IInv, [Next]_vars PROVE IInv'
  OBVIOUS
<1>1. CASE UNCHANGED vars
  BY <1>1 DEF vars, poolVars, taskVars, IInv, TypeOK, NoWorkerYet, Locked, WokenForAReason,
              PopsNonEmpty, HasTask, WakeCondition
<1>2. CASE Next
  BY <1>2, SubmitStep, WorkerStepInv, ManagerStepInv, OwnerStepInv DEF Next
<1>3. QED BY <1>1, <1>2

LEMMA IInvAlways == Spec => []IInv
  BY InitIInv, IInvInductive, PTL DEF Spec

(* Every variable of the pool keeps its type.                              *)
THEOREM TypeCorrect == Spec => []TypeOK
<1>1. IInv => TypeOK BY DEF IInv
<1>2. QED BY <1>1, IInvAlways, PTL

(* SafeQueue::frontAndPop is never called on an empty task queue.          *)
THEOREM NeverPopsEmpty == Spec => []PopsNonEmpty
<1>1. IInv => PopsNonEmpty BY DEF IInv
<1>2. QED BY <1>1, IInvAlways, PTL

-----------------------------------------------------------------------------
(* First in, first out. *)

LEMMA MoveHead ==
  ASSUME NEW S, NEW s \in Seq(S), NEW q \in Seq(S), q # <<>>
  PROVE  Append(s, Head(q)) \o Tail(q) = s \o q
<1>1. Head(q) \in S /\ Tail(q) \in Seq(S) BY HeadTailProperties
<1>2. Append(s, Head(q)) = s \o <<Head(q)>> BY <1>1, AppendIsConcat
<1>3. <<Head(q)>> \in Seq(S) BY <1>1
<1>4. (s \o <<Head(q)>>) \o Tail(q) = s \o (<<Head(q)>> \o Tail(q))
  BY <1>1, <1>3, ConcatAssociative
<1>5. <<Head(q)>> \o Tail(q) = q BY <1>1
<1>6. QED BY <1>2, <1>4, <1>5

(* Every step either leaves the three sequences alone, queues a task or    *)
(* takes the first one.                                                    *)
QueueStep ==
  \/ UNCHANGED <<taskQueue, submitted, started, sub>>
  \/ UNCHANGED <<taskQueue, submitted, started>> /\ \E t \in Task :
       sub[t] = "notify" /\ sub' = [sub EXCEPT ![t] = "returned"]
  \/ \E t \in Task : Emplace(t)
  \/ \E w \in Worker : wpc[w] = "pop" /\ Pop(w)

LEMMA OnlyQueueSteps == ASSUME IInv, [Next]_vars PROVE QueueStep
<1> USE DEF QueueStep, taskVars
<1>1. CASE UNCHANGED vars BY <1>1 DEF vars
<1>2. ASSUME NEW t \in Task, Emplace(t) \/ Notify(t) PROVE QueueStep
  BY <1>2 DEF Notify
<1>3. ASSUME NEW w \in Worker, WorkerStep(w) \/ SpuriousWake(w) PROVE QueueStep
  BY <1>3 DEF WorkerStep, LoopTest, Lock, TestPredicate, Block, CheckRun, TryDecrement,
      PushDelId, Pop, IncRun, CallValue, CallVoid, VoidBody, DecRun, SpuriousWake,
      WorkerGoes
<1>4. CASE ManagerStep
  BY <1>4 DEF ManagerStep, ManagerInit, ManagerMake, ManagerMade, ManagerTest,
      ReadTaskSize, ReadRunCnt, Decide, ManagerNotify, ManagerClear, ManagerSleep,
      ManagerFrame
<1>5. CASE OwnerStep
  BY <1>5 DEF OwnerStep, DestroyStep, SetThreadNum, RunFixed, RunAsync, OwnerMake,
      OwnerMade, BeginDestroy, JoinManager, DestroyNotify, JoinWorkers, FinishDestroy,
      OwnerFrame
<1>6. QED BY <1>1, <1>2, <1>3, <1>4, <1>5 DEF Next

LEMMA OrderStep ==
  ASSUME IInv, StartedInOrder, [Next]_vars
  PROVE  StartedInOrder'
<1> USE DEF StartedInOrder
<1>1. taskQueue \in Seq(Task) /\ started \in Seq(Task) BY DEF IInv, TypeOK
<1>2. CASE UNCHANGED <<taskQueue, submitted, started>> BY <1>2
<1>3. ASSUME NEW t \in Task, Emplace(t) PROVE StartedInOrder'
  <2>1. started \o taskQueue \in Seq(Task) /\ <<t>> \in Seq(Task)
    BY <1>1, ConcatProperties
  <2>2. Append(started \o taskQueue, t) = (started \o taskQueue) \o <<t>>
    BY <2>1, AppendIsConcat
  <2>3. Append(taskQueue, t) = taskQueue \o <<t>> BY <1>1, AppendIsConcat
  <2>4. (started \o taskQueue) \o <<t>> = started \o (taskQueue \o <<t>>)
    BY <1>1, <2>1, ConcatAssociative
  <2>5. QED BY <1>3, <2>2, <2>3, <2>4 DEF Emplace
<1>4. ASSUME NEW w \in Worker, wpc[w] = "pop", Pop(w) PROVE StartedInOrder'
  <2>1. taskQueue # <<>> BY <1>4 DEF IInv, PopsNonEmpty
  <2>2. Append(started, Head(taskQueue)) \o Tail(taskQueue) = started \o taskQueue
    BY <1>1, <2>1, MoveHead
  <2>3. QED BY <1>4, <2>2 DEF Pop
<1>5. QED BY <1>2, <1>3, <1>4, OnlyQueueSteps DEF QueueStep

(* Tasks are started in the order addTask queued them, and none is lost.   *)
THEOREM FirstInFirstOut == Spec => []StartedInOrder
<1>1. Init => StartedInOrder BY ConcatEmptySeq DEF Init, StartedInOrder
<1>2. IInv /\ StartedInOrder /\ [Next]_vars => StartedInOrder' BY OrderStep
<1>3. QED BY <1>1, <1>2, IInvAlways, PTL DEF Spec

-----------------------------------------------------------------------------
(* Every thread the pool started and has not joined is in the map.         *)
AliveInMap == \A w \in Worker : wpc[w] # "none" => w \in workers

(* From notify_all on the manager has ended, or never was.                 *)
ManagerJoined ==
  main \in {"notifyAll", "joinWorkers", "clear", "destroyed", "terminated"} =>
    opc \in {"none", "exited"}

JInv == AliveInMap /\ ManagerJoined /\ NoWorkerOutlivesPool /\ DelIdsJoinable

LEMMA InitJInv == Init => JInv
  BY DEF Init, JInv, AliveInMap, ManagerJoined, NoWorkerOutlivesPool, DelIdsJoinable

LEMMA SubmitStepJoin ==
  ASSUME IInv, JInv, NEW t \in Task, Emplace(t) \/ Notify(t)
  PROVE  JInv'
<1> USE DEF IInv, TypeOK, JInv, AliveInMap, ManagerJoined, NoWorkerOutlivesPool,
            DelIdsJoinable, WorkerPc, InLoop
<1>1. CASE Emplace(t) BY <1>1 DEF Emplace
<1>2. CASE Notify(t)
  <2>1. CASE Waiting = {} BY <1>2, <2>1 DEF Notify, NotifyOne
  <2>2. ASSUME NEW w \in Waiting, wpc' = [wpc EXCEPT ![w] = "lock"] PROVE JInv'
    BY <1>2, <2>2 DEF Notify, Waiting
  <2>3. QED BY <1>2, <2>1, <2>2 DEF Notify, NotifyOne
<1>3. QED BY <1>1, <1>2

(* A worker that goes on from its loop, other than by queueing its id.     *)
LEMMA WorkerGoesJoin ==
  ASSUME IInv, JInv, NEW w \in Worker, NEW from \in InLoop, NEW to \in WorkerPc \ {"none"},
         WorkerGoes(w, from, to), UNCHANGED <<workers, opc, main, delIdQueue>>
  PROVE  JInv'
<1> USE DEF IInv, TypeOK, JInv, WorkerPc, InLoop, WorkerGoes
<1>1. AliveInMap' BY DEF AliveInMap
<1>2. ManagerJoined' BY DEF ManagerJoined
<1>3. NoWorkerOutlivesPool' BY DEF AliveInMap, NoWorkerOutlivesPool
<1>4. DelIdsJoinable' BY DEF DelIdsJoinable
<1>5. QED BY <1>1, <1>2, <1>3, <1>4

LEMMA PushDelIdJoin ==
  ASSUME IInv, JInv, NEW w \in Worker, PushDelId(w)
  PROVE  JInv'
<1> USE DEF IInv, TypeOK, WorkerPc, InLoop, PushDelId, WorkerGoes, WorkerFrame
<1>1. w \in workers /\ \A i \in 1..Len(delIdQueue) : delIdQueue[i] # w
  BY DEF JInv, AliveInMap, DelIdsJoinable
<1>2. /\ Len(delIdQueue') = Len(delIdQueue) + 1
      /\ delIdQueue'[Len(delIdQueue) + 1] = w
      /\ \A i \in 1..Len(delIdQueue) : delIdQueue'[i] = delIdQueue[i]
  OBVIOUS
<1>3. DelIdsJoinable' BY <1>1, <1>2 DEF JInv, DelIdsJoinable
<1>4. AliveInMap' /\ ManagerJoined' /\ NoWorkerOutlivesPool'
  BY DEF JInv, AliveInMap, ManagerJoined, NoWorkerOutlivesPool
<1>5. QED BY <1>3, <1>4 DEF JInv

LEMMA WorkerStepJoin ==
  ASSUME IInv, JInv, NEW w \in Worker, WorkerStep(w) \/ SpuriousWake(w)
  PROVE  JInv'
<1>1. CASE PushDelId(w) BY <1>1, PushDelIdJoin
<1>2. CASE ~PushDelId(w)
  <2>1. UNCHANGED <<workers, opc, main, delIdQueue>>
    BY <1>2 DEF WorkerStep, LoopTest, Lock, TestPredicate, Block, CheckRun, TryDecrement,
       Pop, IncRun, CallValue, CallVoid, VoidBody, DecRun, SpuriousWake, WorkerFrame
  <2>2. \E from \in InLoop, to \in WorkerPc \ {"none"} : WorkerGoes(w, from, to)
    BY <1>2 DEF WorkerStep, LoopTest, Lock, TestPredicate, Block, CheckRun, TryDecrement,
       Pop, IncRun, CallValue, CallVoid, VoidBody, DecRun, SpuriousWake, WorkerPc, InLoop
  <2>3. QED BY <2>1, <2>2, WorkerGoesJoin
<1>3. QED BY <1>1, <1>2

LEMMA StartWorkerJoin ==
  ASSUME IInv, JInv, NEW w \in Worker, StartWorker(w), UNCHANGED <<main, delIdQueue>>,
         opc' = opc, opc \notin {"none", "exited"} \/ main = "make"
  PROVE  JInv'
BY DEF IInv, TypeOK, JInv, AliveInMap, ManagerJoined, NoWorkerOutlivesPool,
       DelIdsJoinable, WorkerPc, InLoop, StartWorker

LEMMA JoinDeletedJoin ==
  ASSUME IInv, JInv, JoinDeleted, UNCHANGED <<opc, main>>
  PROVE  JInv'
<1> USE DEF IInv, TypeOK, WorkerPc, InLoop, JoinDeleted
<1>1. /\ Len(delIdQueue') = Len(delIdQueue) - 1
      /\ \A i \in 1..Len(delIdQueue') : delIdQueue'[i] = delIdQueue[i + 1]
      /\ Head(delIdQueue) = delIdQueue[1] /\ Len(delIdQueue) >= 1
  OBVIOUS
<1>2. \A i \in 1..Len(delIdQueue') : delIdQueue'[i] # Head(delIdQueue)
  BY <1>1 DEF JInv, DelIdsJoinable
<1>3. DelIdsJoinable' BY <1>1, <1>2 DEF JInv, DelIdsJoinable
<1>4. AliveInMap' /\ ManagerJoined' /\ NoWorkerOutlivesPool'
  BY DEF JInv, AliveInMap, ManagerJoined, NoWorkerOutlivesPool
<1>5. QED BY <1>3, <1>4 DEF JInv

LEMMA ManagerStepJoin == ASSUME IInv, JInv, ManagerStep PROVE JInv'
<1> USE DEF IInv, TypeOK, JInv, AliveInMap, ManagerJoined, NoWorkerOutlivesPool,
            DelIdsJoinable, WorkerPc, InLoop, ManagerGoes, ManagerFrame
<1>1. CASE ManagerInit      BY <1>1 DEF ManagerInit
<1>2. ASSUME NEW w \in Worker, ManagerMake(w) PROVE JInv'
  <2>1. /\ StartWorker(w) /\ UNCHANGED <<main, delIdQueue>> /\ opc' = opc
        /\ opc \notin {"none", "exited"}
    BY <1>2 DEF ManagerMake
  <2>2. QED BY <2>1, StartWorkerJoin
<1>3. CASE ManagerMade      BY <1>3 DEF ManagerMade
<1>4. CASE ManagerTest      BY <1>4 DEF ManagerTest
<1>5. CASE ReadTaskSize     BY <1>5 DEF ReadTaskSize
<1>6. CASE ReadRunCnt       BY <1>6 DEF ReadRunCnt
<1>7. CASE Decide           BY <1>7 DEF Decide
<1>8. CASE ManagerNotify
  <2>1. CASE Waiting = {} BY <1>8, <2>1 DEF ManagerNotify, NotifyOne
  <2>2. ASSUME NEW w \in Waiting, wpc' = [wpc EXCEPT ![w] = "lock"] PROVE JInv'
    BY <1>8, <2>2 DEF ManagerNotify, Waiting
  <2>3. QED BY <1>8, <2>1, <2>2 DEF ManagerNotify, NotifyOne
<1>9. CASE ManagerClear
  <2>1. JoinDeleted /\ UNCHANGED <<opc, main>> BY <1>9 DEF ManagerClear
  <2>2. QED BY <2>1, JoinDeletedJoin
<1>10. CASE ManagerSleep    BY <1>10 DEF ManagerSleep
<1>11. QED
  BY <1>1, <1>2, <1>3, <1>4, <1>5, <1>6, <1>7, <1>8, <1>9, <1>10 DEF ManagerStep

LEMMA OwnerStepJoin == ASSUME IInv, JInv, OwnerStep PROVE JInv'
<1> USE DEF IInv, TypeOK, NoWorkerYet, JInv, AliveInMap, ManagerJoined,
            NoWorkerOutlivesPool, DelIdsJoinable, WorkerPc, InLoop, OwnerFrame
<1>1. CASE SetThreadNum     BY <1>1 DEF SetThreadNum
<1>2. CASE RunFixed         BY <1>2 DEF RunFixed
<1>3. CASE RunAsync         BY <1>3 DEF RunAsync
<1>4. ASSUME NEW w \in Worker, OwnerMake(w) PROVE JInv'
  <2>1. StartWorker(w) /\ UNCHANGED <<main, delIdQueue>> /\ opc' = opc /\ main = "make"
    BY <1>4 DEF OwnerMake
  <2>2. QED BY <2>1, StartWorkerJoin
<1>5. CASE OwnerMade        BY <1>5 DEF OwnerMade
<1>6. CASE BeginDestroy     BY <1>6 DEF BeginDestroy
<1>7. CASE JoinManager      BY <1>7 DEF JoinManager
<1>8. CASE DestroyNotify    BY <1>8 DEF DestroyNotify, NotifyAll, Waiting
<1>9. CASE JoinWorkers
  <2>1. \A w \in Worker : wpc[w] \in {"none", "exited"} BY <1>9 DEF JoinWorkers
  <2>2. \A w \in Worker : wpc[w] \notin InLoop BY <2>1
  <2>3. QED BY <1>9, <2>2 DEF JoinWorkers
<1>10. CASE FinishDestroy   BY <1>10 DEF FinishDestroy
<1>11. QED
  BY <1>1, <1>2, <1>3, <1>4, <1>5, <1>6, <1>7, <1>8, <1>9, <1>10
  DEF OwnerStep, DestroyStep

LEMMA JInvInductive == IInv /\ JInv /\ [Next]_vars => JInv'
<1> SUFFICES ASSUME IInv, JInv, [Next]_vars PROVE JInv'
  OBVIOUS
<1>1. CASE UNCHANGED vars
  BY <1>1 DEF vars, JInv, AliveInMap, ManagerJoined, NoWorkerOutlivesPool, DelIdsJoinable
<1>2. CASE Next
  BY <1>2, SubmitStepJoin, WorkerStepJoin, ManagerStepJoin, OwnerStepJoin DEF Next
<1>3. QED BY <1>1, <1>2

LEMMA JInvAlways == Spec => []JInv
  BY InitJInv, JInvInductive, IInvAlways, PTL DEF Spec

(* What clearDelIdQueue pops is in the map, has left its loop and is       *)
(* queued once: it neither throws "iterator failure" nor joins a thread    *)
(* that still works.                                                       *)
THEOREM DeletedIdsJoinable == Spec => []DelIdsJoinable
<1>1. JInv => DelIdsJoinable BY DEF JInv
<1>2. QED BY <1>1, JInvAlways, PTL

(* ~ThreadPool destroys the members after every thread it started ended.   *)
THEOREM NoThreadOutlives == Spec => []NoWorkerOutlivesPool
<1>1. JInv => NoWorkerOutlivesPool BY DEF JInv
<1>2. QED BY <1>1, JInvAlways, PTL
-----------------------------------------------------------------------------
(* The count of running workers. *)

CountedWorkers == {w \in Worker : wpc[w] \in Counted}

LEMMA CountedFinite ==
  /\ IsFiniteSet(CountedWorkers) /\ Cardinality(CountedWorkers) \in Nat
<1>1. CountedWorkers \in SUBSET Worker BY DEF CountedWorkers
<1>2. QED BY <1>1, FS_Subset, FS_CardinalityType

LEMMA InitRunCnt == Init => RunCntExact
<1> SUFFICES ASSUME Init PROVE RunCntExact
  OBVIOUS
<1>1. {w \in Worker : wpc[w] \in Counted} = {} BY DEF Init, Counted
<1>2. QED BY <1>1, FS_EmptySet DEF Init, RunCntExact

(* A step that moves no worker across ++_runCnt or --_runCnt.              *)
LEMMA SameCount ==
  ASSUME RunCntExact, runCnt' = runCnt,
         \A w \in Worker : wpc'[w] \in Counted <=> wpc[w] \in Counted,
         opc' = "decide" => opc = "decide" /\ sample' = sample /\ workers' = workers
  PROVE  RunCntExact'
<1>1. {w \in Worker : wpc'[w] \in Counted} = {w \in Worker : wpc[w] \in Counted}
  OBVIOUS
<1>2. QED BY <1>1 DEF RunCntExact

LEMMA WorkerStepRunCnt ==
  ASSUME IInv, RunCntExact, NEW w \in Worker, WorkerStep(w) \/ SpuriousWake(w)
  PROVE  RunCntExact'
<1>0. UNCHANGED <<opc, sample, workers>>
  BY DEF WorkerStep, LoopTest, Lock, TestPredicate, Block, CheckRun, TryDecrement,
     PushDelId, Pop, IncRun, CallValue, CallVoid, VoidBody, DecRun, SpuriousWake,
     WorkerFrame
<1>1. CASE IncRun(w)
  <2>1. w \notin CountedWorkers BY <1>1 DEF IncRun, WorkerGoes, CountedWorkers, Counted
  <2>2. CountedWorkers' = CountedWorkers \cup {w}
    BY <1>1 DEF IncRun, WorkerGoes, CountedWorkers, Counted, IInv, TypeOK
  <2>3. Cardinality(CountedWorkers') = Cardinality(CountedWorkers) + 1
    BY <2>1, <2>2, CountedFinite, FS_AddElement
  <2>4. runCnt' = Cardinality(CountedWorkers')
    BY <1>1, <2>3 DEF IncRun, RunCntExact, CountedWorkers
  <2>5. QED BY <1>0, <2>4 DEF RunCntExact, CountedWorkers
<1>2. CASE DecRun(w)
  <2>1. w \in CountedWorkers BY <1>2 DEF DecRun, WorkerGoes, CountedWorkers, Counted
  <2>2. CountedWorkers' = CountedWorkers \ {w}
    BY <1>2 DEF DecRun, WorkerGoes, CountedWorkers, Counted, IInv, TypeOK
  <2>3. Cardinality(CountedWorkers') = Cardinality(CountedWorkers) - 1
    BY <2>1, <2>2, CountedFinite, FS_RemoveElement
  <2>4. runCnt' = Cardinality(CountedWorkers')
    BY <1>2, <2>3 DEF DecRun, RunCntExact, CountedWorkers
  <2>5. QED BY <1>0, <2>4 DEF RunCntExact, CountedWorkers
<1>3. CASE ~IncRun(w) /\ ~DecRun(w)
  <2>1. runCnt' = runCnt
    BY <1>3 DEF WorkerStep, LoopTest, Lock, TestPredicate, Block, CheckRun, TryDecrement,
       PushDelId, Pop, CallValue, CallVoid, VoidBody, SpuriousWake
  <2>2. \E from, to \in WorkerPc :
          WorkerGoes(w, from, to) /\ (from \in Counted <=> to \in Counted)
    BY <1>3 DEF WorkerStep, LoopTest, Lock, TestPredicate, Block, CheckRun, TryDecrement,
       PushDelId, Pop, CallValue, CallVoid, VoidBody, SpuriousWake, WorkerPc, InLoop,
       Counted
  <2>3. \A v \in Worker : wpc'[v] \in Counted <=> wpc[v] \in Counted
    BY <2>2 DEF WorkerGoes, IInv, TypeOK
  <2>4. QED BY <1>0, <2>1, <2>3, SameCount
<1>4. QED BY <1>1, <1>2, <1>3

LEMMA NotifyOneCount ==
  ASSUME IInv, NotifyOne
  PROVE  \A w \in Worker : wpc'[w] \in Counted <=> wpc[w] \in Counted
BY DEF IInv, TypeOK, NotifyOne, Waiting, Counted

LEMMA StartWorkerCount ==
  ASSUME IInv, NEW v \in Worker, StartWorker(v)
  PROVE  \A w \in Worker : wpc'[w] \in Counted <=> wpc[w] \in Counted
BY DEF IInv, TypeOK, StartWorker, Counted

(* The workers being counted are in the map, so the sample is within it.   *)
LEMMA SampleWithinMap == ASSUME IInv, JInv, RunCntExact PROVE runCnt <= Cardinality(workers)
<1>1. CountedWorkers \in SUBSET workers
  BY DEF CountedWorkers, Counted, JInv, AliveInMap
<1>2. workers \in SUBSET Worker BY DEF IInv, TypeOK
<1>3. IsFiniteSet(workers) BY <1>2, FS_Subset
<1>4. Cardinality(CountedWorkers) <= Cardinality(workers) BY <1>1, <1>3, FS_Subset
<1>5. QED BY <1>4 DEF RunCntExact, CountedWorkers

LEMMA ManagerStepRunCnt ==
  ASSUME IInv, JInv, RunCntExact, ManagerStep
  PROVE  RunCntExact'
<1>1. runCnt' = runCnt
  BY DEF ManagerStep, ManagerInit, ManagerMake, ManagerMade, ManagerTest, ReadTaskSize,
     ReadRunCnt, Decide, ManagerNotify, ManagerClear, ManagerSleep, ManagerFrame
<1>2. \A w \in Worker : wpc'[w] \in Counted <=> wpc[w] \in Counted
  <2>1. CASE wpc' = wpc BY <2>1
  <2>2. CASE ManagerNotify BY <2>2, NotifyOneCount DEF ManagerNotify
  <2>3. CASE \E v \in Worker : ManagerMake(v) BY <2>3, StartWorkerCount DEF ManagerMake
  <2>4. CASE ManagerClear
    BY <2>4 DEF ManagerClear, JoinDeleted, Counted, IInv, TypeOK
  <2>5. QED
    BY <2>1, <2>2, <2>3, <2>4 DEF ManagerStep, ManagerInit, ManagerMade, ManagerTest,
       ReadTaskSize, ReadRunCnt, Decide, ManagerSleep, ManagerFrame
<1>3. CASE ReadRunCnt
  <2>1. wpc' = wpc /\ workers' = workers /\ sample'.runThreadNum = runCnt
    BY <1>3 DEF ReadRunCnt, IInv, TypeOK
  <2>2. QED BY <1>1, <2>1, SampleWithinMap DEF RunCntExact
<1>4. CASE ~ReadRunCnt
  <2>1. opc' # "decide"
    BY <1>4 DEF ManagerStep, ManagerInit, ManagerMake, ManagerMade, ManagerTest,
       ReadTaskSize, Decide, ManagerNotify, ManagerClear, ManagerSleep, ManagerGoes
  <2>2. QED BY <1>1, <1>2, <2>1, SameCount
<1>5. QED BY <1>3, <1>4

(* A manager that samples runs in a pool the owner makes no workers for.   *)
OneMaker == main = "make" => opc = "none"

LEMMA OneMakerAlways == Spec => []OneMaker
<1>1. Init => OneMaker BY DEF Init, OneMaker
<1>2. IInv /\ OneMaker /\ [Next]_vars => OneMaker'
  <2> SUFFICES ASSUME IInv, OneMaker, [Next]_vars PROVE OneMaker'
    OBVIOUS
  <2> USE DEF OneMaker
  <2>1. CASE UNCHANGED vars BY <2>1 DEF vars
  <2>2. ASSUME NEW t \in Task, Emplace(t) \/ Notify(t) PROVE OneMaker'
    BY <2>2 DEF Emplace, Notify
  <2>3. ASSUME NEW w \in Worker, WorkerStep(w) \/ SpuriousWake(w) PROVE OneMaker'
    BY <2>3 DEF WorkerStep, LoopTest, Lock, TestPredicate, Block, CheckRun, TryDecrement,
       PushDelId, Pop, IncRun, CallValue, CallVoid, VoidBody, DecRun, SpuriousWake,
       WorkerFrame
  <2>4. CASE ManagerStep
    BY <2>4 DEF ManagerStep, ManagerInit, ManagerMake, ManagerMade, ManagerTest,
       ReadTaskSize, ReadRunCnt, Decide, ManagerNotify, ManagerClear, ManagerSleep,
       ManagerFrame, ManagerGoes
  <2>5. CASE OwnerStep
    BY <2>5 DEF OwnerStep, DestroyStep, SetThreadNum, RunFixed, RunAsync, OwnerMake,
       OwnerMade, BeginDestroy, JoinManager, DestroyNotify, JoinWorkers, FinishDestroy,
       IInv, NoWorkerYet
  <2>6. QED BY <2>1, <2>2, <2>3, <2>4, <2>5 DEF Next
<1>3. QED BY <1>1, <1>2, IInvAlways, PTL DEF Spec

LEMMA OwnerStepRunCnt ==
  ASSUME IInv, OneMaker, RunCntExact, OwnerStep
  PROVE  RunCntExact'
<1>1. runCnt' = runCnt /\ sample' = sample
  BY DEF OwnerStep, DestroyStep, SetThreadNum, RunFixed, RunAsync, OwnerMake, OwnerMade,
     BeginDestroy, JoinManager, DestroyNotify, JoinWorkers, FinishDestroy, OwnerFrame
<1>2. \A w \in Worker : wpc'[w] \in Counted <=> wpc[w] \in Counted
  <2>1. CASE wpc' = wpc BY <2>1
  <2>2. CASE \E v \in Worker : OwnerMake(v) BY <2>2, StartWorkerCount DEF OwnerMake
  <2>3. CASE DestroyNotify
    BY <2>3 DEF DestroyNotify, NotifyAll, Waiting, Counted, IInv, TypeOK
  <2>4. QED
    BY <2>1, <2>2, <2>3 DEF OwnerStep, DestroyStep, SetThreadNum, RunFixed, RunAsync,
       OwnerMade, BeginDestroy, JoinManager, JoinWorkers, FinishDestroy, OwnerFrame
<1>3. opc' = "decide" => opc = "decide" /\ workers' = workers
  BY DEF OwnerStep, DestroyStep, SetThreadNum, RunFixed, RunAsync, OwnerMake, OwnerMade,
     BeginDestroy, JoinManager, DestroyNotify, JoinWorkers, FinishDestroy, OneMaker
<1>4. QED BY <1>1, <1>2, <1>3, SameCount

LEMMA RunCntInductive ==
  IInv /\ JInv /\ OneMaker /\ RunCntExact /\ [Next]_vars => RunCntExact'
<1> SUFFICES ASSUME IInv, JInv, OneMaker, RunCntExact, [Next]_vars PROVE RunCntExact'
  OBVIOUS
<1>1. CASE UNCHANGED vars BY <1>1, SameCount DEF vars, poolVars
<1>2. ASSUME NEW t \in Task, Emplace(t) \/ Notify(t) PROVE RunCntExact'
  <2>1. UNCHANGED <<runCnt, opc, sample, workers>>
    BY <1>2 DEF Emplace, Notify, poolVars
  <2>2. \A w \in Worker : wpc'[w] \in Counted <=> wpc[w] \in Counted
    BY <1>2, NotifyOneCount DEF Emplace, Notify
  <2>3. QED BY <2>1, <2>2, SameCount
<1>3. QED
  BY <1>1, <1>2, WorkerStepRunCnt, ManagerStepRunCnt, OwnerStepRunCnt DEF Next

(* _runCnt is the number of workers between ++_runCnt and --_runCnt, and   *)
(* the manager's workerSize - runCnt does not wrap.                        *)
THEOREM RunCountExact == Spec => []RunCntExact
  BY InitRunCnt, RunCntInductive, IInvAlways, JInvAlways, OneMakerAlways, PTL DEF Spec

-----------------------------------------------------------------------------
(***************************************************************************)
(* thenTry chains cannot block a pool: a worker that waits in a            *)
(* continuation waits for a task that another worker is running.  The      *)
(* argument: a task is queued after the one it continues, tasks leave the  *)
(* queue in order, and one that left it without a result is with a worker. *)
(***************************************************************************)

(* A task whose addTask was called has been queued.                        *)
WasQueued ==
  \A t \in Task : sub[t] # "idle" => \E j \in 1..Len(submitted) : submitted[j] = t

(* A task is queued after the one it continues.                            *)
PredFirst ==
  \A i \in 1..Len(submitted) :
    Pred[submitted[i]] # None => \E j \in 1..(i - 1) : submitted[j] = Pred[submitted[i]]

NotItsOwnPred == \A i \in 1..Len(submitted) : Pred[submitted[i]] # submitted[i]

(* What a worker runs has been taken from the queue.                       *)
TakenFromQueue ==
  \A w \in Worker : wpc[w] \in {"inc", "call", "body", "dec"} =>
    \E i \in 1..Len(started) : started[i] = task[w]

(* A task that left the queue and has no result yet is with a worker.      *)
PendingRuns ==
  \A i \in 1..Len(started) : result[started[i]] = "pending" =>
    \E v \in Worker : task[v] = started[i] /\ wpc[v] \in {"inc", "call"}

QueueInv == WasQueued /\ PredFirst /\ NotItsOwnPred
CInv == QueueInv /\ TakenFromQueue /\ PendingRuns

LEMMA InitCInv == Init => CInv
  BY DEF Init, CInv, QueueInv, WasQueued, PredFirst, NotItsOwnPred, TakenFromQueue, PendingRuns

LEMMA EmplaceQueueInv ==
  ASSUME IInv, CInv, NEW t \in Task, Emplace(t)
  PROVE  QueueInv'
<1>1. submitted \in Seq(Task) /\ sub \in [Task -> {"idle", "notify", "returned"}]
  BY DEF IInv, TypeOK
<1>2. /\ Len(submitted') = Len(submitted) + 1
      /\ submitted'[Len(submitted) + 1] = t
      /\ \A i \in 1..Len(submitted) : submitted'[i] = submitted[i]
  BY <1>1 DEF Emplace
<1>2a. Len(submitted) \in Nat BY <1>1
<1>3. sub[t] = "idle" /\ (Pred[t] # None => sub[Pred[t]] = "returned")
  BY DEF Emplace, MaySubmit
<1>4. Pred[t] # None => \E j \in 1..Len(submitted) : submitted[j] = Pred[t]
  BY <1>3 DEF CInv, QueueInv, WasQueued
<1>5. WasQueued'
  <2> SUFFICES ASSUME NEW u \in Task, sub'[u] # "idle"
               PROVE  \E j \in 1..Len(submitted') : submitted'[j] = u
    BY DEF WasQueued
  <2>1. CASE u = t BY <1>2, <1>2a, <2>1
  <2>2. CASE u # t
    <3>1. sub[u] # "idle" BY <1>1, <2>2 DEF Emplace
    <3>2. QED BY <1>2, <1>2a, <3>1 DEF CInv, QueueInv, WasQueued
  <2>3. QED BY <2>1, <2>2
<1>6. PredFirst'
  <2> SUFFICES ASSUME NEW i \in 1..Len(submitted'), Pred[submitted'[i]] # None
               PROVE  \E j \in 1..(i - 1) : submitted'[j] = Pred[submitted'[i]]
    BY DEF PredFirst
  <2>1. CASE i = Len(submitted) + 1 BY <1>2, <1>2a, <1>4, <2>1
  <2>2. CASE i \in 1..Len(submitted)
    <3>1. PICK j \in 1..(i - 1) : submitted[j] = Pred[submitted[i]]
      BY <1>2, <2>2 DEF CInv, QueueInv, PredFirst
    <3>2. j \in 1..Len(submitted) BY <2>2, <3>1, <1>2a
    <3>3. QED BY <1>2, <2>2, <3>1, <3>2
  <2>3. QED BY <1>2, <1>2a, <2>1, <2>2
<1>7. NotItsOwnPred'
  <2>1. Pred[t] # t BY <1>3
  <2>2. QED BY <1>2, <1>2a, <2>1 DEF CInv, QueueInv, NotItsOwnPred
<1>8. QED BY <1>5, <1>6, <1>7 DEF QueueInv

LEMMA SameQueueInv ==
  ASSUME CInv, submitted' = submitted,
         \A t \in Task : sub'[t] # "idle" => sub[t] # "idle"
  PROVE  QueueInv'
BY DEF CInv, QueueInv, WasQueued, PredFirst, NotItsOwnPred

(* Steps that leave what was started, and what the workers that run it     *)
(* hold, alone.                                                            *)
LEMMA SameRunning ==
  ASSUME CInv, UNCHANGED <<started, result, task>>,
         \A w \in Worker : /\ wpc'[w] \in {"inc", "call"} <=> wpc[w] \in {"inc", "call"}
                           /\ wpc'[w] \in {"body", "dec"} => wpc[w] \in {"body", "dec"}
  PROVE  TakenFromQueue' /\ PendingRuns'
<1>1. TakenFromQueue' BY DEF CInv, TakenFromQueue
<1>2. PendingRuns' BY DEF CInv, PendingRuns
<1>3. QED BY <1>1, <1>2

LEMMA PopChain ==
  ASSUME IInv, CInv, NEW w \in Worker, Pop(w)
  PROVE  TakenFromQueue' /\ PendingRuns'
<1> USE DEF IInv, TypeOK
<1>1. wpc[w] = "pop" /\ taskQueue # <<>> BY DEF Pop, WorkerGoes, PopsNonEmpty
<1>2. Head(taskQueue) \in Task BY <1>1
<1>3. /\ Len(started') = Len(started) + 1
      /\ started'[Len(started) + 1] = Head(taskQueue)
      /\ \A i \in 1..Len(started) : started'[i] = started[i]
      /\ Len(started) \in Nat
  BY <1>2 DEF Pop
<1>4. task'[w] = Head(taskQueue) /\ wpc'[w] = "inc"
  BY <1>1, <1>2 DEF Pop, WorkerGoes
<1>5. \A v \in Worker \ {w} : task'[v] = task[v] /\ wpc'[v] = wpc[v]
  BY DEF Pop, WorkerGoes
<1>6. TakenFromQueue'
  <2> SUFFICES ASSUME NEW v \in Worker, wpc'[v] \in {"inc", "call", "body", "dec"}
               PROVE  \E i \in 1..Len(started') : started'[i] = task'[v]
    BY DEF TakenFromQueue
  <2>1. CASE v = w BY <1>3, <1>4, <2>1
  <2>2. CASE v # w
    <3>1. task'[v] = task[v] /\ wpc[v] \in {"inc", "call", "body", "dec"} BY <1>5, <2>2
    <3>2. PICK i \in 1..Len(started) : started[i] = task[v]
      BY <3>1 DEF CInv, TakenFromQueue
    <3>3. i \in 1..Len(started') /\ started'[i] = task'[v] BY <1>3, <3>1, <3>2
    <3>4. QED BY <3>3
  <2>3. QED BY <2>1, <2>2
<1>7. PendingRuns'
  <2> SUFFICES ASSUME NEW i \in 1..Len(started'), result'[started'[i]] = "pending"
               PROVE  \E v \in Worker : task'[v] = started'[i] /\ wpc'[v] \in {"inc", "call"}
    BY DEF PendingRuns
  <2>1. CASE i = Len(started) + 1
    <3>1. started'[i] = task'[w] BY <1>3, <1>4, <2>1
    <3>2. wpc'[w] \in {"inc", "call"} BY <1>4
    <3>3. QED BY <3>1, <3>2
  <2>2. CASE i \in 1..Len(started)
    <3>1. started'[i] = started[i] /\ result[started[i]] = "pending"
      BY <1>3, <2>2 DEF Pop
    <3>2. PICK v \in Worker : task[v] = started[i] /\ wpc[v] \in {"inc", "call"}
      BY <2>2, <3>1 DEF CInv, PendingRuns
    <3>3. v # w BY <1>1, <3>2
    <3>4. QED BY <1>5, <3>1, <3>2, <3>3
  <2>3. i = Len(started) + 1 \/ i \in 1..Len(started) BY <1>3
  <2>4. QED BY <2>1, <2>2, <2>3
<1>8. QED BY <1>6, <1>7

(* A worker that fills the future of its task, and goes on.                *)
LEMMA FillChain ==
  ASSUME IInv, CInv, NEW w \in Worker, NEW from \in {"call", "body"}, NEW to \in {"body", "dec"},
         WorkerGoes(w, from, to), NEW out \in {"value", "error"},
         result' = [result EXCEPT ![task[w]] = out], UNCHANGED <<started, task>>
  PROVE  TakenFromQueue' /\ PendingRuns'
<1> USE DEF IInv, TypeOK, WorkerGoes
<1>1. task[w] \in Task BY DEF HasTask
<1>2. TakenFromQueue' BY DEF CInv, TakenFromQueue
<1>3. PendingRuns'
  <2> SUFFICES ASSUME NEW i \in 1..Len(started), result'[started[i]] = "pending"
               PROVE  \E v \in Worker : task[v] = started[i] /\ wpc'[v] \in {"inc", "call"}
    BY DEF PendingRuns
  <2>1. started[i] # task[w] /\ result[started[i]] = "pending"
    BY <1>1
  <2>2. PICK v \in Worker : task[v] = started[i] /\ wpc[v] \in {"inc", "call"}
    BY <2>1 DEF CInv, PendingRuns
  <2>3. QED BY <2>1, <2>2
<1>4. QED BY <1>2, <1>3

LEMMA WorkerStepChain ==
  ASSUME IInv, CInv, NEW w \in Worker, WorkerStep(w) \/ SpuriousWake(w)
  PROVE  CInv'
<1>0. QueueInv'
  <2>1. UNCHANGED <<submitted, sub>>
    BY DEF WorkerStep, LoopTest, Lock, TestPredicate, Block, CheckRun, TryDecrement,
       PushDelId, Pop, IncRun, CallValue, CallVoid, VoidBody, DecRun, SpuriousWake, taskVars
  <2>2. QED BY <2>1, SameQueueInv
<1>1. CASE Pop(w) BY <1>0, <1>1, PopChain DEF CInv
<1>2. CASE CallValue(w) BY <1>0, <1>2, FillChain DEF CallValue, CInv
<1>3. CASE CallVoid(w) BY <1>0, <1>3, FillChain DEF CallVoid, CInv
<1>4. CASE VoidBody(w) BY <1>0, <1>4, FillChain DEF VoidBody, CInv
<1>5. CASE DecRun(w)
  <2>1. /\ wpc[w] = "dec" /\ wpc'[w] = "loop" /\ UNCHANGED <<started, result>>
        /\ \A v \in Worker \ {w} : task'[v] = task[v] /\ wpc'[v] = wpc[v]
    BY <1>5 DEF DecRun, WorkerGoes, IInv, TypeOK, taskVars
  <2>2. TakenFromQueue' BY <2>1 DEF CInv, TakenFromQueue
  <2>3. PendingRuns' BY <2>1 DEF CInv, PendingRuns
  <2>4. QED BY <1>0, <2>2, <2>3 DEF CInv
<1>6. CASE ~(Pop(w) \/ CallValue(w) \/ CallVoid(w) \/ VoidBody(w) \/ DecRun(w))
  <2>1. UNCHANGED <<started, result, task>>
    BY <1>6 DEF WorkerStep, LoopTest, Lock, TestPredicate, Block, CheckRun, TryDecrement,
       PushDelId, IncRun, SpuriousWake, taskVars
  <2>2. \E from \in WorkerPc, to \in WorkerPc \ {"body", "dec"} :
          /\ WorkerGoes(w, from, to)
          /\ to \in {"inc", "call"} <=> from \in {"inc", "call"}
    BY <1>6 DEF WorkerStep, LoopTest, Lock, TestPredicate, Block, CheckRun, TryDecrement,
       PushDelId, IncRun, SpuriousWake, WorkerPc, InLoop
  <2>3. \A v \in Worker : /\ wpc'[v] \in {"inc", "call"} <=> wpc[v] \in {"inc", "call"}
                          /\ wpc'[v] \in {"body", "dec"} => wpc[v] \in {"body", "dec"}
    BY <2>2 DEF WorkerGoes, IInv, TypeOK
  <2>4. QED BY <1>0, <2>1, <2>3, SameRunning DEF CInv
<1>7. QED BY <1>1, <1>2, <1>3, <1>4, <1>5, <1>6

(* The other threads move workers only where they run no task.             *)
LEMMA OthersLeaveRunning ==
  ASSUME IInv, [Next]_vars, ~\E w \in Worker : WorkerStep(w) \/ SpuriousWake(w)
  PROVE  /\ UNCHANGED <<started, result, task>>
         /\ \A w \in Worker :
              /\ wpc'[w] \in {"inc", "call"} <=> wpc[w] \in {"inc", "call"}
              /\ wpc'[w] \in {"body", "dec"} => wpc'[w] = wpc[w]
<1>1. UNCHANGED <<started, result, task>>
  BY DEF Next, vars, Emplace, Notify, ManagerStep, ManagerInit, ManagerMake, ManagerMade,
     ManagerTest, ReadTaskSize, ReadRunCnt, Decide, ManagerNotify, ManagerClear,
     ManagerSleep, ManagerFrame, OwnerStep, DestroyStep, SetThreadNum, RunFixed, RunAsync,
     OwnerMake, OwnerMade, BeginDestroy, JoinManager, DestroyNotify, JoinWorkers,
     FinishDestroy, OwnerFrame, taskVars
<1>2. \/ wpc' = wpc \/ NotifyOne \/ NotifyAll \/ JoinDeleted
      \/ \E w \in Worker : StartWorker(w)
  BY DEF Next, vars, Emplace, Notify, ManagerStep, ManagerInit, ManagerMake, ManagerMade,
     ManagerTest, ReadTaskSize, ReadRunCnt, Decide, ManagerNotify, ManagerClear,
     ManagerSleep, OwnerStep, DestroyStep, SetThreadNum, RunFixed, RunAsync,
     OwnerMake, OwnerMade, BeginDestroy, JoinManager, DestroyNotify, JoinWorkers,
     FinishDestroy
<1>3. wpc \in [Worker -> WorkerPc] BY DEF IInv, TypeOK
<1>4. CASE wpc' = wpc BY <1>1, <1>4
<1>5. CASE NotifyOne BY <1>1, <1>3, <1>5 DEF NotifyOne, Waiting
<1>6. CASE NotifyAll BY <1>1, <1>3, <1>6 DEF NotifyAll, Waiting
<1>7. CASE JoinDeleted BY <1>1, <1>3, <1>7 DEF JoinDeleted
<1>8. CASE \E w \in Worker : StartWorker(w) BY <1>1, <1>3, <1>8 DEF StartWorker
<1>9. QED BY <1>2, <1>4, <1>5, <1>6, <1>7, <1>8

LEMMA CInvInductive == IInv /\ CInv /\ [Next]_vars => CInv'
<1> SUFFICES ASSUME IInv, CInv, [Next]_vars PROVE CInv'
  OBVIOUS
<1>1. CASE \E w \in Worker : WorkerStep(w) \/ SpuriousWake(w)
  BY <1>1, WorkerStepChain
<1>2. CASE ~\E w \in Worker : WorkerStep(w) \/ SpuriousWake(w)
  <2>1. TakenFromQueue' /\ PendingRuns' BY <1>2, OthersLeaveRunning, SameRunning
  <2>2. QueueInv'
    <3>1. CASE \E t \in Task : Emplace(t) BY <3>1, EmplaceQueueInv
    <3>2. CASE UNCHANGED <<submitted, sub>> BY <3>2, SameQueueInv
    <3>3. ASSUME NEW t \in Task, Notify(t) PROVE QueueInv'
      <4>1. submitted' = submitted /\ \A u \in Task : sub'[u] # "idle" => sub[u] # "idle"
        BY <3>3 DEF Notify, IInv, TypeOK
      <4>2. QED BY <4>1, SameQueueInv
    <3>4. \/ UNCHANGED <<submitted, sub>>
          \/ \E t \in Task : Emplace(t) \/ Notify(t)
      BY <1>2 DEF Next, vars, ManagerStep, ManagerInit, ManagerMake, ManagerMade,
         ManagerTest, ReadTaskSize, ReadRunCnt, Decide, ManagerNotify, ManagerClear,
         ManagerSleep, ManagerFrame, OwnerStep, DestroyStep, SetThreadNum, RunFixed,
         RunAsync, OwnerMake, OwnerMade, BeginDestroy, JoinManager, DestroyNotify,
         JoinWorkers, FinishDestroy, OwnerFrame, taskVars
    <3>5. QED BY <3>1, <3>2, <3>3, <3>4
  <2>3. QED BY <2>1, <2>2 DEF CInv
<1>3. QED BY <1>1, <1>2

LEMMA ChainFollows ==
  ASSUME IInv, CInv, StartedInOrder
  PROVE  NoChainDeadlock
<1> SUFFICES ASSUME NEW w \in Worker, wpc[w] = "call", ~CanRun(task[w])
             PROVE  \E v \in Worker \ {w} : task[v] = Pred[task[w]] /\ wpc[v] \in {"inc", "call"}
  BY DEF NoChainDeadlock
<1>1. started \in Seq(Task) /\ taskQueue \in Seq(Task) BY DEF IInv, TypeOK
<1>2. PICK i \in 1..Len(started) : started[i] = task[w] BY DEF CInv, TakenFromQueue
<1>3. /\ Len(submitted) = Len(started) + Len(taskQueue)
      /\ \A k \in 1..Len(started) : submitted[k] = started[k]
  BY <1>1, ConcatProperties DEF StartedInOrder
<1>3a. Len(started) \in Nat /\ Len(taskQueue) \in Nat BY <1>1
<1>4. Pred[task[w]] # None /\ result[Pred[task[w]]] = "pending" BY DEF CanRun
<1>5. i \in 1..Len(submitted) /\ submitted[i] = task[w] BY <1>2, <1>3, <1>3a
<1>6. PICK j \in 1..(i - 1) : submitted[j] = Pred[task[w]]
  BY <1>4, <1>5 DEF CInv, QueueInv, PredFirst
<1>7. j \in 1..Len(started) BY <1>2, <1>3a, <1>6
<1>8. started[j] = Pred[task[w]] BY <1>3, <1>6, <1>7
<1>9. PICK v \in Worker : task[v] = started[j] /\ wpc[v] \in {"inc", "call"}
  BY <1>4, <1>7, <1>8 DEF CInv, PendingRuns
<1>10. v # w
  <2>1. Pred[task[w]] # task[w] BY <1>5 DEF CInv, QueueInv, NotItsOwnPred
  <2>2. QED BY <1>8, <1>9, <2>1
<1>11. QED BY <1>8, <1>9, <1>10

(* A worker blocked in a continuation waits for a task another worker runs. *)
THEOREM ChainsDoNotBlock == Spec => []NoChainDeadlock
  BY InitCInv, CInvInductive, ChainFollows, IInvAlways, FirstInFirstOut, PTL DEF Spec

-----------------------------------------------------------------------------
(***************************************************************************)
(* The pool implements FifoExecutor, as long as no task continues a void   *)
(* task, whose future is ready before the task has run.                    *)
(***************************************************************************)

NoVoidChain == \A t \in Task : Pred[t] \notin VoidTask

Running == {"inc", "call", "body"}

(* A task is queued once, and only by its own addTask.                     *)
QueuedOnce ==
  /\ \A i \in 1..Len(submitted) : sub[submitted[i]] # "idle"
  /\ \A i, j \in 1..Len(submitted) : submitted[i] = submitted[j] => i = j

(* A task is run by one worker, and is not finished before.                *)
OneRunner ==
  /\ \A v, w \in Worker :
       wpc[v] \in Running /\ wpc[w] \in Running /\ task[v] = task[w] => v = w
  /\ \A w \in Worker : wpc[w] \in Running => task[w] \notin finished

(* Only what was started is finished; only a void task has a result before *)
(* it is finished.                                                         *)
FinishedStarted == finished \subseteq Elements(started)
FinishedFilled ==
  \A t \in Task \ VoidTask : result[t] # "pending" => t \in finished

BodyIsVoid == \A w \in Worker : wpc[w] = "body" => task[w] \in VoidTask

RInv == QueuedOnce /\ OneRunner /\ FinishedStarted /\ FinishedFilled /\ BodyIsVoid

Known == IInv /\ CInv /\ StartedInOrder

LEMMA InitRInv == Init => RInv
  BY DEF Init, RInv, QueuedOnce, OneRunner, FinishedStarted, FinishedFilled, BodyIsVoid, Running,
         Elements

(* The started tasks come first in submitted, the queued ones after them.  *)
LEMMA Prefix ==
  ASSUME IInv, StartedInOrder
  PROVE  /\ Len(started) \in Nat /\ Len(taskQueue) \in Nat
         /\ Len(submitted) = Len(started) + Len(taskQueue)
         /\ \A k \in 1..Len(started) : submitted[k] = started[k]
         /\ \A k \in 1..Len(taskQueue) : submitted[Len(started) + k] = taskQueue[k]
<1>1. started \in Seq(Task) /\ taskQueue \in Seq(Task) BY DEF IInv, TypeOK
<1>2. QED BY <1>1, ConcatProperties DEF StartedInOrder

(* The task at the front of the queue has not been started.                *)
LEMMA HeadIsNew ==
  ASSUME Known, RInv, taskQueue # <<>>
  PROVE  Head(taskQueue) \in Task /\ Head(taskQueue) \notin Elements(started)
<1>1. taskQueue \in Seq(Task) BY DEF Known, IInv, TypeOK
<1>2. Head(taskQueue) = taskQueue[1] /\ Len(taskQueue) >= 1 /\ Head(taskQueue) \in Task
  BY <1>1
<1>3. submitted[Len(started) + 1] = Head(taskQueue) BY <1>2, Prefix DEF Known
<1>4. \A k \in 1..Len(started) : submitted[k] # submitted[Len(started) + 1]
  BY <1>2, Prefix DEF Known, RInv, QueuedOnce
<1>5. QED BY <1>2, <1>3, <1>4, Prefix DEF Known, Elements

LEMMA StartedGrows ==
  ASSUME Known, RInv, taskQueue # <<>>, started' = Append(started, Head(taskQueue))
  PROVE  Elements(started)' = Elements(started) \cup {Head(taskQueue)}
<1>1. started \in Seq(Task) /\ Head(taskQueue) \in Task
  BY HeadIsNew DEF Known, IInv, TypeOK
<1>2. /\ Len(started') = Len(started) + 1 /\ Len(started) \in Nat
      /\ started'[Len(started) + 1] = Head(taskQueue)
      /\ \A i \in 1..Len(started) : started'[i] = started[i]
  BY <1>1
<1>3. QED BY <1>2 DEF Elements

-----------------------------------------------------------------------------
(* RInv is inductive. *)

LEMMA EmplaceR ==
  ASSUME Known, RInv, NEW t \in Task, Emplace(t)
  PROVE  RInv'
<1>1. submitted \in Seq(Task) /\ sub \in [Task -> {"idle", "notify", "returned"}]
  BY DEF Known, IInv, TypeOK
<1>2. /\ Len(submitted') = Len(submitted) + 1 /\ Len(submitted) \in Nat
      /\ submitted'[Len(submitted) + 1] = t
      /\ \A i \in 1..Len(submitted) : submitted'[i] = submitted[i]
  BY <1>1 DEF Emplace
<1>3. \A i \in 1..Len(submitted) : submitted[i] \in Task /\ sub[submitted[i]] # "idle"
  BY <1>1 DEF RInv, QueuedOnce
<1>4. sub[t] = "idle" /\ sub'[t] = "notify" /\ \A u \in Task \ {t} : sub'[u] = sub[u]
  BY <1>1 DEF Emplace, MaySubmit
<1>5. \A i \in 1..Len(submitted) : submitted[i] # t BY <1>3, <1>4
<1>6. QueuedOnce'
  <2>1. \A i \in 1..Len(submitted') : sub'[submitted'[i]] # "idle"
    BY <1>2, <1>3, <1>4, <1>5
  <2>2. \A i, j \in 1..Len(submitted') : submitted'[i] = submitted'[j] => i = j
    BY <1>2, <1>5 DEF RInv, QueuedOnce
  <2>3. QED BY <2>1, <2>2 DEF QueuedOnce
<1>7. UNCHANGED <<wpc, task, finished, started, result>> BY DEF Emplace
<1>8. QED
  BY <1>6, <1>7 DEF RInv, OneRunner, FinishedStarted, FinishedFilled, BodyIsVoid, Elements

(* Steps that start, fill and finish nothing.                              *)
LEMMA SameR ==
  ASSUME RInv, UNCHANGED <<submitted, started, result, finished>>,
         \A t \in Task : sub[t] # "idle" => sub'[t] # "idle",
         \A i \in 1..Len(submitted) : submitted[i] \in Task,
         \A w \in Worker : wpc'[w] \in Running => wpc[w] \in Running /\ task'[w] = task[w],
         \A w \in Worker : wpc'[w] = "body" => wpc[w] = "body"
  PROVE  RInv'
<1>1. QueuedOnce' BY DEF RInv, QueuedOnce
<1>2. OneRunner' BY DEF RInv, OneRunner
<1>3. BodyIsVoid' BY DEF RInv, BodyIsVoid, Running
<1>4. QED BY <1>1, <1>2, <1>3 DEF RInv, FinishedStarted, FinishedFilled, Elements

LEMMA PopR ==
  ASSUME Known, RInv, NEW w \in Worker, Pop(w)
  PROVE  RInv'
<1> USE DEF Known, IInv, TypeOK
<1>1. wpc[w] = "pop" /\ taskQueue # <<>> BY DEF Pop, WorkerGoes, PopsNonEmpty
<1>2. Head(taskQueue) \notin Elements(started) BY <1>1, HeadIsNew
<1>3. Elements(started)' = Elements(started) \cup {Head(taskQueue)}
  BY <1>1, StartedGrows DEF Pop
<1>4. task'[w] = Head(taskQueue) /\ wpc'[w] = "inc"
  BY <1>1 DEF Pop, WorkerGoes
<1>5. \A v \in Worker \ {w} : task'[v] = task[v] /\ wpc'[v] = wpc[v]
  BY DEF Pop, WorkerGoes
<1>6. UNCHANGED <<submitted, sub, result, finished>> BY DEF Pop
<1>7. \A v \in Worker : wpc[v] \in Running => task[v] \in Elements(started)
  BY DEF CInv, TakenFromQueue, Running, Elements
<1>8. OneRunner'
  <2>1. \A v \in Worker \ {w} : wpc'[v] \in Running => task'[v] # task'[w]
    BY <1>2, <1>4, <1>5, <1>7
  <2>2. task'[w] \notin finished BY <1>2, <1>4 DEF RInv, FinishedStarted
  <2>3. \A v \in Worker : wpc'[v] \in Running => task'[v] \notin finished'
    BY <1>5, <1>6, <2>2 DEF RInv, OneRunner
  <2>4. \A u, v \in Worker :
          wpc'[u] \in Running /\ wpc'[v] \in Running /\ task'[u] = task'[v] => u = v
    BY <1>5, <2>1 DEF RInv, OneRunner
  <2>5. QED BY <2>3, <2>4 DEF OneRunner
<1>8a. BodyIsVoid' BY <1>4, <1>5 DEF RInv, BodyIsVoid
<1>9. QueuedOnce' /\ FinishedStarted' /\ FinishedFilled'
  BY <1>3, <1>6 DEF RInv, QueuedOnce, FinishedStarted, FinishedFilled
<1>10. QED BY <1>8, <1>8a, <1>9 DEF RInv

(* A worker whose task returned: its future is filled, it is finished.     *)
LEMMA FinishR ==
  ASSUME Known, RInv, NEW w \in Worker, NEW from \in {"call", "body"},
         WorkerGoes(w, from, "dec"), NEW out \in {"value", "error"},
         result' = [result EXCEPT ![task[w]] = out],
         finished' = finished \cup {task[w]},
         UNCHANGED <<submitted, sub, started, task>>
  PROVE  RInv'
<1> USE DEF Known, IInv, TypeOK, WorkerGoes
<1>1. task[w] \in Task BY DEF HasTask
<1>2. task[w] \in Elements(started)
  BY DEF CInv, TakenFromQueue, Elements
<1>3. wpc[w] \in Running /\ wpc'[w] \notin Running BY DEF Running
<1>4. \A v \in Worker \ {w} : wpc'[v] = wpc[v] OBVIOUS
<1>5. \A v \in Worker : wpc'[v] \in Running => wpc[v] \in Running /\ task[v] # task[w]
  BY <1>3, <1>4 DEF RInv, OneRunner
<1>6. OneRunner' BY <1>5 DEF RInv, OneRunner
<1>7. FinishedStarted' BY <1>2 DEF RInv, FinishedStarted, Elements
<1>8. FinishedFilled' BY <1>1 DEF RInv, FinishedFilled
<1>9. QueuedOnce' /\ BodyIsVoid' BY DEF RInv, QueuedOnce, BodyIsVoid
<1>10. QED BY <1>6, <1>7, <1>8, <1>9 DEF RInv

LEMMA CallVoidR ==
  ASSUME Known, RInv, NEW w \in Worker, CallVoid(w)
  PROVE  RInv'
<1> USE DEF Known, IInv, TypeOK, WorkerGoes, CallVoid
<1>1. \A v \in Worker : wpc'[v] \in Running => wpc[v] \in Running BY DEF Running
<1>2. OneRunner' BY <1>1 DEF RInv, OneRunner
<1>3. \A t \in Task \ VoidTask : result'[t] = result[t] OBVIOUS
<1>4. QueuedOnce' /\ FinishedStarted' /\ FinishedFilled'
  BY <1>3 DEF RInv, QueuedOnce, FinishedStarted, FinishedFilled, Elements
<1>5. BodyIsVoid' BY DEF RInv, BodyIsVoid
<1>6. QED BY <1>2, <1>4, <1>5 DEF RInv

LEMMA WorkerStepR ==
  ASSUME Known, RInv, NEW w \in Worker, WorkerStep(w) \/ SpuriousWake(w)
  PROVE  RInv'
<1>1. CASE Pop(w) BY <1>1, PopR
<1>2. CASE CallValue(w) BY <1>2, FinishR DEF CallValue
<1>3. CASE CallVoid(w) BY <1>3, CallVoidR
<1>4. CASE VoidBody(w) BY <1>4, FinishR DEF VoidBody
<1>5. CASE ~(Pop(w) \/ CallValue(w) \/ CallVoid(w) \/ VoidBody(w))
  <2>1. UNCHANGED <<submitted, sub, started, result, finished>>
    BY <1>5 DEF WorkerStep, LoopTest, Lock, TestPredicate, Block, CheckRun, TryDecrement,
       PushDelId, IncRun, DecRun, SpuriousWake, taskVars
  <2>2. CASE DecRun(w)
    <3>1. \A v \in Worker : /\ wpc'[v] \in Running => wpc[v] \in Running /\ task'[v] = task[v]
                            /\ wpc'[v] = "body" => wpc[v] = "body"
      BY <2>2 DEF DecRun, WorkerGoes, Running, Known, IInv, TypeOK
    <3>2. \A i \in 1..Len(submitted) : submitted[i] \in Task
      BY DEF Known, IInv, TypeOK
    <3>3. QED BY <2>1, <3>1, <3>2, SameR
  <2>3. CASE ~DecRun(w)
    <3>1. task' = task
      BY <1>5, <2>3 DEF WorkerStep, LoopTest, Lock, TestPredicate, Block, CheckRun,
         TryDecrement, PushDelId, IncRun, SpuriousWake
    <3>2. \E from \in WorkerPc, to \in WorkerPc \ {"body"} :
            WorkerGoes(w, from, to) /\ (to \in Running => from \in Running)
      BY <1>5, <2>3 DEF WorkerStep, LoopTest, Lock, TestPredicate, Block, CheckRun,
         TryDecrement, PushDelId, IncRun, SpuriousWake, WorkerPc, InLoop, Running
    <3>3. \A v \in Worker : /\ wpc'[v] \in Running => wpc[v] \in Running
                            /\ wpc'[v] = "body" => wpc[v] = "body"
      BY <3>2 DEF WorkerGoes, Known, IInv, TypeOK
    <3>4. \A i \in 1..Len(submitted) : submitted[i] \in Task
      BY DEF Known, IInv, TypeOK
    <3>5. QED BY <2>1, <3>1, <3>3, <3>4, SameR
  <2>4. QED BY <2>2, <2>3
<1>6. QED BY <1>1, <1>2, <1>3, <1>4, <1>5

(* What the threads that run no task leave alone.                          *)
LEMMA OthersR ==
  ASSUME IInv, [Next]_vars, ~\E w \in Worker : WorkerStep(w) \/ SpuriousWake(w)
  PROVE  /\ UNCHANGED <<started, result, task, finished>>
         /\ \A w \in Worker : /\ wpc'[w] \in Running => wpc[w] \in Running
                              /\ wpc'[w] = "body" => wpc[w] = "body"
         /\ \/ UNCHANGED <<submitted, taskQueue, sub>>
            \/ \E t \in Task : Emplace(t)
            \/ /\ UNCHANGED <<submitted, taskQueue>>
               /\ \A t \in Task : sub[t] # "idle" => sub'[t] # "idle"
<1>1. finished' = finished
  BY DEF Next, vars, Emplace, Notify, ManagerStep, ManagerInit, ManagerMake, ManagerMade,
     ManagerTest, ReadTaskSize, ReadRunCnt, Decide, ManagerNotify, ManagerClear,
     ManagerSleep, ManagerFrame, OwnerStep, DestroyStep, SetThreadNum, RunFixed, RunAsync,
     OwnerMake, OwnerMade, BeginDestroy, JoinManager, DestroyNotify, JoinWorkers,
     FinishDestroy, OwnerFrame, taskVars
<1>2. \A w \in Worker : /\ wpc'[w] \in Running => wpc[w] \in Running
                        /\ wpc'[w] = "body" => wpc[w] = "body"
  <2>1. \A w \in Worker : /\ wpc'[w] \in {"inc", "call"} <=> wpc[w] \in {"inc", "call"}
                          /\ wpc'[w] \in {"body", "dec"} => wpc'[w] = wpc[w]
    BY OthersLeaveRunning
  <2>2. QED BY <2>1 DEF Running
<1>3. CASE \E t \in Task : Notify(t)
  <2>1. UNCHANGED <<submitted, taskQueue>>
        /\ \A t \in Task : sub[t] # "idle" => sub'[t] # "idle"
    BY <1>3 DEF Notify, IInv, TypeOK
  <2>2. QED BY <1>1, <1>2, <2>1, OthersLeaveRunning
<1>4. CASE ~\E t \in Task : Notify(t)
  <2>1. UNCHANGED <<submitted, taskQueue, sub>> \/ \E t \in Task : Emplace(t)
    BY <1>4 DEF Next, vars, ManagerStep, ManagerInit, ManagerMake, ManagerMade,
       ManagerTest, ReadTaskSize, ReadRunCnt, Decide, ManagerNotify, ManagerClear,
       ManagerSleep, ManagerFrame, OwnerStep, DestroyStep, SetThreadNum, RunFixed,
       RunAsync, OwnerMake, OwnerMade, BeginDestroy, JoinManager, DestroyNotify,
       JoinWorkers, FinishDestroy, OwnerFrame, taskVars
  <2>2. QED BY <1>1, <1>2, <2>1, OthersLeaveRunning
<1>5. QED BY <1>3, <1>4

LEMMA RInvInductive == Known /\ RInv /\ [Next]_vars => RInv'
<1> SUFFICES ASSUME Known, RInv, [Next]_vars PROVE RInv'
  OBVIOUS
<1>1. CASE \E w \in Worker : WorkerStep(w) \/ SpuriousWake(w) BY <1>1, WorkerStepR
<1>2. CASE \E t \in Task : Emplace(t) BY <1>2, EmplaceR
<1>3. CASE /\ ~\E w \in Worker : WorkerStep(w) \/ SpuriousWake(w)
           /\ ~\E t \in Task : Emplace(t)
  <2>1. \A i \in 1..Len(submitted) : submitted[i] \in Task BY DEF Known, IInv, TypeOK
  <2>2. QED BY <1>3, <2>1, OthersR, SameR DEF Known
<1>4. QED BY <1>1, <1>2, <1>3

-----------------------------------------------------------------------------
(* Every step of the pool is a step of the executor, or none. *)

LEMMA ExecutorInit == Init => Executor!Init
  BY DEF Init, Executor!Init, Elements

LEMMA EmplaceSubmits ==
  ASSUME Known, RInv, NEW t \in Task, Emplace(t)
  PROVE  Executor!Submit(t)
<1>1. submitted \in Seq(Task) /\ taskQueue \in Seq(Task) /\ started \in Seq(Task)
  BY DEF Known, IInv, TypeOK
<1>2. ASSUME NEW k \in 1..Len(submitted)
      PROVE  submitted[k] \in Elements(taskQueue) \cup Elements(started)
  <2>1. CASE k \in 1..Len(started) BY <2>1, Prefix DEF Known, Elements
  <2>2. CASE k \notin 1..Len(started)
    <3>1. PICK j \in 1..Len(taskQueue) : k = Len(started) + j
      <4>1. k - Len(started) \in 1..Len(taskQueue) BY <2>2, Prefix DEF Known
      <4>2. k = Len(started) + (k - Len(started)) BY Prefix DEF Known
      <4>3. QED BY <4>1, <4>2
    <3>2. submitted[k] = taskQueue[j] BY <3>1, Prefix DEF Known
    <3>3. QED BY <3>2 DEF Elements
  <2>3. QED BY <2>1, <2>2
<1>2a. \A u \in Elements(taskQueue) \cup Elements(started) :
         \E k \in 1..Len(submitted) : submitted[k] = u
  <2>1. \A i \in 1..Len(taskQueue) : Len(started) + i \in 1..Len(submitted)
    BY Prefix DEF Known
  <2>2. \A i \in 1..Len(started) : i \in 1..Len(submitted)
    BY Prefix DEF Known
  <2>3. QED BY <2>1, <2>2, Prefix DEF Known, Elements
<1>3. Executor!Accepted = Elements(taskQueue) \cup Elements(started)
  <2>1. DOMAIN taskQueue = 1..Len(taskQueue) BY <1>1
  <2>2. QED BY <2>1 DEF Executor!Accepted, Elements, RInv, FinishedStarted
<1>4. t \notin Executor!Accepted
  BY <1>2a, <1>3 DEF Emplace, MaySubmit, RInv, QueuedOnce
<1>5. Pred[t] # None => Pred[t] \in Executor!Accepted
  <2> SUFFICES ASSUME Pred[t] # None PROVE Pred[t] \in Executor!Accepted
    OBVIOUS
  <2>1. Pred[t] \in Task /\ sub[Pred[t]] = "returned" BY DEF Emplace, MaySubmit
  <2>2. QED BY <1>2, <1>3, <2>1 DEF Known, CInv, QueueInv, WasQueued
<1>6. UNCHANGED <<started, finished>> BY DEF Emplace
<1>7. QED BY <1>4, <1>5, <1>6 DEF Executor!Submit, Emplace, Elements

LEMMA PopStarts ==
  ASSUME Known, RInv, NEW w \in Worker, Pop(w)
  PROVE  Executor!Start
<1>1. taskQueue # <<>> BY DEF Pop, WorkerGoes, Known, IInv, PopsNonEmpty
<1>2. Elements(started)' = Elements(started) \cup {Head(taskQueue)}
  BY <1>1, StartedGrows DEF Pop
<1>3. Head(taskQueue) \notin finished BY <1>1, HeadIsNew DEF RInv, FinishedStarted
<1>4. finished' = finished /\ taskQueue' = Tail(taskQueue) BY DEF Pop
<1>5. (Elements(started) \ finished)' = (Elements(started) \ finished) \cup {Head(taskQueue)}
  BY <1>2, <1>3, <1>4
<1>6. QED BY <1>1, <1>4, <1>5 DEF Executor!Start

LEMMA CallFinishes ==
  ASSUME NoVoidChain, Known, RInv, NEW w \in Worker, CallValue(w) \/ VoidBody(w)
  PROVE  \E t \in Task : Executor!Finish(t)
<1> DEFINE t == task[w]
<1>1. t \in Task /\ wpc[w] \in Running
  BY DEF CallValue, VoidBody, WorkerGoes, Known, IInv, HasTask, Running
<1>2. t \in Elements(started) \ finished
  BY <1>1 DEF Known, CInv, TakenFromQueue, RInv, OneRunner, Elements, Running
<1>3. finished' = finished \cup {t} /\ UNCHANGED <<started, taskQueue>>
  BY DEF CallValue, VoidBody
<1>4. Pred[t] # None => Pred[t] \in finished
  <2> SUFFICES ASSUME Pred[t] # None PROVE Pred[t] \in finished
    OBVIOUS
  <2>1. CASE CallValue(w)
    <3>1. Pred[t] \in Task \ VoidTask BY <1>1 DEF NoVoidChain
    <3>2. result[Pred[t]] # "pending" BY <2>1 DEF CallValue, CanRun
    <3>3. QED BY <3>1, <3>2 DEF RInv, FinishedFilled
  <2>2. CASE VoidBody(w)
    <3>1. t \in VoidTask BY <2>2 DEF VoidBody, WorkerGoes, RInv, BodyIsVoid
    <3>2. QED BY <3>1
  <2>3. QED BY <2>1, <2>2
<1>5. Executor!Finish(t) BY <1>2, <1>3, <1>4 DEF Executor!Finish, Elements
<1>6. QED BY <1>1, <1>5

LEMMA StepRefines ==
  NoVoidChain /\ Known /\ RInv /\ [Next]_vars => [Executor!Next]_(Executor!executorVars)
<1> SUFFICES ASSUME NoVoidChain, Known, RInv, [Next]_vars
             PROVE  [Executor!Next]_(Executor!executorVars)
  OBVIOUS
<1> USE DEF Executor!Next, Executor!executorVars
<1>1. ASSUME NEW t \in Task, Emplace(t) PROVE Executor!Next
  BY <1>1, EmplaceSubmits
<1>2. ASSUME NEW w \in Worker, Pop(w) PROVE Executor!Next
  BY <1>2, PopStarts
<1>3. ASSUME NEW w \in Worker, CallValue(w) \/ VoidBody(w) PROVE Executor!Next
  BY <1>3, CallFinishes
<1>4. CASE \E w \in Worker : /\ WorkerStep(w) \/ SpuriousWake(w)
                             /\ ~(Pop(w) \/ CallValue(w) \/ VoidBody(w))
  <2>1. UNCHANGED <<taskQueue, started, finished>>
    BY <1>4 DEF WorkerStep, LoopTest, Lock, TestPredicate, Block, CheckRun, TryDecrement,
       PushDelId, IncRun, CallVoid, DecRun, SpuriousWake, taskVars
  <2>2. QED BY <2>1 DEF Elements
<1>5. CASE /\ ~\E w \in Worker : WorkerStep(w) \/ SpuriousWake(w)
           /\ ~\E t \in Task : Emplace(t)
  <2>1. UNCHANGED <<taskQueue, started, finished>> BY <1>5, OthersR DEF Known
  <2>2. QED BY <2>1 DEF Elements
<1>6. QED BY <1>1, <1>2, <1>3, <1>4, <1>5

(* The pool implements the first-in first-out executor that the callers of *)
(* addTask and thenTry see, if no task continues a void task.              *)
THEOREM PoolIsAnExecutor == ASSUME NoVoidChain PROVE Spec => ExecutorSpec
<1>1. Spec => [](Known /\ RInv)
  <2>1. Spec => []Known
    BY InitCInv, CInvInductive, IInvAlways, FirstInFirstOut, PTL DEF Spec, Known
  <2>2. QED BY <2>1, InitRInv, RInvInductive, PTL DEF Spec
<1>2. NoVoidChain /\ Known /\ RInv /\ [Next]_vars => [Executor!Next]_(Executor!executorVars)
  BY StepRefines
<1>3. QED
  BY NoVoidChain, <1>1, <1>2, ExecutorInit, PTL DEF Spec, ExecutorSpec, Executor!Spec

-----------------------------------------------------------------------------
(***************************************************************************)
(* The map of workers stays within maxThreadNum, whatever the manager      *)
(* sampled and however stale the sample is when it acts.                   *)
(***************************************************************************)

(* The limits the setters leave.                                           *)
MinLimits == MinChoices \cup {1}
MaxLimits == MaxChoices \cup {HardwareConcurrency}

Data == [minThreadNum : MinLimits, maxThreadNum : MaxLimits, taskNum : Nat,
         nowThreadNum : Nat, runThreadNum : Nat, sleepThreadNum : Nat]

(* The setters are not asked for a minimum above the maximum.              *)
LimitsInOrder == \A m \in MinLimits, n \in MaxLimits : m <= n

(* From any counts that are possible the strategy asks for no more workers *)
(* than there is room for.                                                 *)
GrowsWithinMax ==
  \A d \in Data :
    d.nowThreadNum <= d.maxThreadNum /\ d.runThreadNum <= d.nowThreadNum
      /\ d.sleepThreadNum = d.nowThreadNum - d.runThreadNum =>
    \A add \in Decisions : add = Strategy(d) => add <= d.maxThreadNum - d.nowThreadNum

Sizes ==
  /\ minThreadNum \in MinLimits /\ maxThreadNum \in MaxLimits
  /\ opc # "none" => main \notin {"config", "make"}
  /\ opc = "init" => workers = {}
  /\ sample.runThreadNum \in Nat
  /\ opc \in {"initMake", "make"} => Cardinality(workers) + todo <= maxThreadNum

MInv == Sizes /\ WithinMax

(* What the manager's invariant rests on.                                  *)
Base == IInv /\ JInv /\ RunCntExact

LEMMA InitMInv == Init => MInv
BY DEF Init, MInv, Sizes, WithinMax, MinLimits, MaxLimits

LEMMA LimitsTyped == MinLimits \subseteq Nat /\ MaxLimits \subseteq Nat
BY DEF MinLimits, MaxLimits, SizeAssumption

LEMMA WorkersFinite ==
  ASSUME IInv PROVE IsFiniteSet(workers) /\ Cardinality(workers) \in Nat
<1>1. workers \in SUBSET Worker BY DEF IInv, TypeOK
<1>2. IsFiniteSet(Worker) BY DEF TaskAssumption
<1>3. QED BY <1>1, <1>2, FS_Subset, FS_CardinalityType

LEMMA StartGrows ==
  ASSUME IInv, JInv, NEW w \in Worker, StartWorker(w)
  PROVE  Cardinality(workers') <= Cardinality(workers) + 1 /\ Cardinality(workers') \in Nat
<1>1. workers' = workers \cup {w} BY DEF StartWorker
<1>2. IsFiniteSet(workers) /\ Cardinality(workers) \in Nat BY WorkersFinite
<1>3. Cardinality(workers \cup {w}) \in {Cardinality(workers), Cardinality(workers) + 1}
  BY <1>2, FS_AddElement
<1>4. QED BY <1>1, <1>2, <1>3

LEMMA JoinShrinks ==
  ASSUME IInv, JoinDeleted
  PROVE  Cardinality(workers') <= Cardinality(workers) /\ Cardinality(workers') \in Nat
<1>1. \E w : workers' = workers \ {w} BY DEF JoinDeleted
<1>2. PICK w : workers' = workers \ {w} BY <1>1
<1>3. IsFiniteSet(workers) /\ Cardinality(workers) \in Nat BY WorkersFinite
<1>4. Cardinality(workers \ {w}) \in {Cardinality(workers), Cardinality(workers) - 1}
  BY <1>3, FS_RemoveElement
<1>5. IsFiniteSet(workers \ {w}) BY <1>3, FS_RemoveElement
<1>6. Cardinality(workers \ {w}) \in Nat BY <1>5, FS_CardinalityType
<1>7. QED BY <1>2, <1>3, <1>4, <1>6

LEMMA SameSizes ==
  ASSUME MInv, UNCHANGED <<minThreadNum, maxThreadNum, opc, main, workers, sample, todo>>
  PROVE  MInv'
BY DEF MInv, Sizes, WithinMax

LEMMA DecideWithinMax ==
  ASSUME LimitsInOrder, GrowsWithinMax, Base, MInv, Decide
  PROVE  MInv'
<1>1. PICK add \in Decisions :
        /\ add = Strategy(StrategyData)
        /\ \/ add > 0 /\ opc' = "make" /\ todo' = add
           \/ add < 0 /\ opc' = "notify" /\ todo' = -add
           \/ add = 0 /\ opc' = "clear" /\ todo' = 0
  BY DEF Decide, ManagerGoes
<1>2. /\ UNCHANGED <<minThreadNum, maxThreadNum, main, workers, sample>> /\ opc = "decide"
      /\ add \in Int
  BY SizeAssumption DEF Decide, ManagerGoes, ManagerFrame, SizeAssumption
<1>3. Cardinality(workers) \in Nat BY WorkersFinite DEF Base
<1>4. sample.runThreadNum <= Cardinality(workers) BY <1>2 DEF Base, RunCntExact
<1>5. Cardinality(workers) <= maxThreadNum BY <1>2 DEF MInv, WithinMax
<1>6. /\ StrategyData \in Data
      /\ StrategyData.nowThreadNum = Cardinality(workers)
      /\ StrategyData.runThreadNum = sample.runThreadNum
      /\ StrategyData.sleepThreadNum = Cardinality(workers) - sample.runThreadNum
      /\ StrategyData.maxThreadNum = maxThreadNum
  BY <1>3, <1>4 DEF StrategyData, Data, MInv, Sizes, Base, IInv, TypeOK
<1>7. add <= maxThreadNum - Cardinality(workers) BY <1>1, <1>4, <1>5, <1>6 DEF GrowsWithinMax
<1>8. maxThreadNum \in Nat BY LimitsTyped DEF MInv, Sizes
<1>9. opc' = "make" => Cardinality(workers) + todo' <= maxThreadNum
  BY <1>1, <1>2, <1>3, <1>7, <1>8
<1>10. opc' \in {"make", "notify", "clear"} BY <1>1
<1>11. Sizes' BY <1>2, <1>9, <1>10 DEF MInv, Sizes
<1>12. WithinMax' BY <1>2, <1>5 DEF WithinMax
<1>13. QED BY <1>11, <1>12 DEF MInv

LEMMA ManagerWithinMax ==
  ASSUME LimitsInOrder, GrowsWithinMax, Base, MInv, ManagerStep
  PROVE  MInv'
<1> USE DEF MInv
<1>1. /\ Cardinality(workers) \in Nat /\ todo \in Nat
      /\ minThreadNum \in Nat /\ maxThreadNum \in Nat /\ minThreadNum <= maxThreadNum
  BY WorkersFinite, LimitsTyped DEF Base, IInv, TypeOK, Sizes, LimitsInOrder
<1>2. UNCHANGED <<minThreadNum, maxThreadNum, main>>
  BY DEF ManagerStep, ManagerInit, ManagerMake, ManagerMade, ManagerTest, ReadTaskSize,
     ReadRunCnt, Decide, ManagerNotify, ManagerClear, ManagerSleep, ManagerFrame
<1>3. CASE ManagerInit
  <2>1. opc = "init" /\ opc' = "initMake" /\ UNCHANGED <<workers, sample>>
    BY <1>3 DEF ManagerInit, ManagerGoes
  <2>2. todo' = (IF 0 < minThreadNum THEN minThreadNum - 0 ELSE 0) /\ Cardinality(workers) = 0
    BY <1>3, <2>1, FS_EmptySet DEF ManagerInit, Sizes
  <2>3. Cardinality(workers) + todo' <= maxThreadNum BY <1>1, <2>2
  <2>4. QED BY <1>1, <1>2, <2>1, <2>2, <2>3 DEF Sizes, WithinMax
<1>4. ASSUME NEW w \in Worker, ManagerMake(w) PROVE MInv'
  <2>1. /\ opc \in {"initMake", "make"} /\ todo > 0 /\ todo' = todo - 1 /\ StartWorker(w)
        /\ UNCHANGED <<opc, sample>>
    BY <1>4 DEF ManagerMake
  <2>2. Cardinality(workers') <= Cardinality(workers) + 1 /\ Cardinality(workers') \in Nat
    BY <2>1, StartGrows DEF Base
  <2>3. Cardinality(workers) + todo <= maxThreadNum BY <2>1 DEF Sizes
  <2>4. Cardinality(workers') + todo' <= maxThreadNum BY <1>1, <2>1, <2>2, <2>3
  <2>5. Cardinality(workers') <= maxThreadNum BY <1>1, <2>1, <2>2, <2>4
  <2>6. QED BY <1>2, <2>1, <2>4, <2>5 DEF Sizes, WithinMax
<1>5. CASE ManagerMade \/ ManagerTest \/ ReadTaskSize \/ ManagerNotify \/ ManagerSleep
  <2>1. /\ opc # "none" /\ opc' \notin {"none", "init", "initMake", "make"} /\ workers' = workers
        /\ sample'.runThreadNum \in {sample.runThreadNum, 0}
    BY <1>5 DEF ManagerMade, ManagerTest, ReadTaskSize, ManagerNotify, ManagerSleep, ManagerGoes,
       Base, IInv, TypeOK
  <2>2. QED BY <1>2, <2>1 DEF Sizes, WithinMax
<1>6. CASE ReadRunCnt
  <2>1. /\ opc = "running" /\ opc' = "decide" /\ workers' = workers
        /\ sample' = [sample EXCEPT !.runThreadNum = runCnt]
    BY <1>6 DEF ReadRunCnt, ManagerGoes
  <2>2. runCnt \in Nat
    <3>1. IsFiniteSet(CountedWorkers) BY CountedFinite DEF Base
    <3>2. runCnt = Cardinality(CountedWorkers) BY DEF Base, RunCntExact, CountedWorkers
    <3>3. QED BY <3>1, <3>2, FS_CardinalityType
  <2>3. sample'.runThreadNum = runCnt BY <2>1 DEF Base, IInv, TypeOK
  <2>4. QED BY <1>2, <2>1, <2>2, <2>3 DEF Sizes, WithinMax
<1>7. CASE Decide BY <1>7, DecideWithinMax
<1>8. CASE ManagerClear
  <2>1. opc = "clear" /\ JoinDeleted /\ UNCHANGED <<opc, sample, todo>> BY <1>8 DEF ManagerClear
  <2>2. Cardinality(workers') <= Cardinality(workers) /\ Cardinality(workers') \in Nat
    BY <2>1, JoinShrinks DEF Base
  <2>3. Cardinality(workers) <= maxThreadNum BY <2>1 DEF WithinMax
  <2>4. Cardinality(workers') <= maxThreadNum BY <1>1, <2>2, <2>3
  <2>5. QED BY <1>2, <2>1, <2>4 DEF Sizes, WithinMax
<1>9. QED BY <1>3, <1>4, <1>5, <1>6, <1>7, <1>8 DEF ManagerStep

LEMMA OwnerWithinMax == ASSUME Base, MInv, OwnerStep PROVE MInv'
<1> USE DEF MInv
<1>1. CASE SetThreadNum
  <2>1. /\ minThreadNum' \in MinLimits /\ maxThreadNum' \in MaxLimits /\ opc = "none"
        /\ UNCHANGED <<opc, main, workers, sample, todo>>
    BY <1>1 DEF SetThreadNum, OwnerFrame, Sizes, MinLimits, MaxLimits
  <2>2. QED BY <2>1 DEF Sizes, WithinMax
<1>2. CASE RunFixed
  <2>1. /\ main = "config" /\ main' = "make"
        /\ UNCHANGED <<opc, minThreadNum, maxThreadNum, workers, sample>>
    BY <1>2 DEF RunFixed, OwnerFrame
  <2>2. QED BY <2>1 DEF Sizes, WithinMax
<1>3. CASE RunAsync
  <2>1. /\ main = "config" /\ main' = "running" /\ opc' = "init"
        /\ UNCHANGED <<minThreadNum, maxThreadNum, workers, sample>>
    BY <1>3 DEF RunAsync, OwnerFrame
  <2>2. workers' = {} /\ Cardinality(workers') = 0
    BY <2>1, FS_EmptySet DEF Base, IInv, NoWorkerYet
  <2>3. maxThreadNum \in Nat BY DEF Base, IInv, TypeOK
  <2>4. QED BY <2>1, <2>2, <2>3 DEF Sizes, WithinMax
<1>4. ASSUME NEW w \in Worker, OwnerMake(w) PROVE MInv'
  <2>1. /\ main = "make" /\ UNCHANGED <<opc, main, minThreadNum, maxThreadNum, sample>>
    BY <1>4 DEF OwnerMake, OwnerFrame
  <2>2. opc = "none" BY <2>1 DEF Sizes
  <2>3. QED BY <2>1, <2>2 DEF Sizes, WithinMax
<1>5. CASE OwnerMade \/ BeginDestroy \/ DestroyStep
  <2>1. /\ UNCHANGED <<opc, minThreadNum, maxThreadNum, sample, workers, todo>>
        /\ main' \notin {"config", "make"}
    BY <1>5 DEF OwnerMade, BeginDestroy, DestroyStep, JoinManager, DestroyNotify, JoinWorkers,
       FinishDestroy, OwnerFrame
  <2>2. QED BY <2>1 DEF Sizes, WithinMax
<1>6. QED BY <1>1, <1>2, <1>3, <1>4, <1>5 DEF OwnerStep

LEMMA MInvInductive ==
  ASSUME LimitsInOrder, GrowsWithinMax, Base, MInv, [Next]_vars PROVE MInv'
<1>1. CASE UNCHANGED vars BY <1>1, SameSizes DEF vars, poolVars
<1>2. CASE \E t \in Task : Emplace(t) \/ Notify(t)
  BY <1>2, SameSizes DEF Emplace, Notify, poolVars
<1>3. CASE \E w \in Worker : WorkerStep(w) \/ SpuriousWake(w)
  BY <1>3, SameSizes DEF WorkerStep, SpuriousWake, LoopTest, Lock, TestPredicate, Block, CheckRun,
     TryDecrement, PushDelId, Pop, IncRun, CallValue, CallVoid, VoidBody, DecRun, WorkerFrame
<1>4. CASE ManagerStep BY <1>4, ManagerWithinMax
<1>5. CASE OwnerStep BY <1>5, OwnerWithinMax
<1>6. QED BY <1>1, <1>2, <1>3, <1>4, <1>5 DEF Next

(* A pool that sizes itself never holds more than maxThreadNum threads,    *)
(* under any strategy that never asks for more than there is room for: a   *)
(* stale sample and workers that are leaving do not add up to one too many.*)
THEOREM MapWithinMax ==
  ASSUME LimitsInOrder, GrowsWithinMax PROVE Spec => []WithinMax
<1>1. Base /\ MInv /\ [Next]_vars => MInv' BY MInvInductive
<1>2. Spec => []Base BY IInvAlways, JInvAlways, RunCountExact, PTL DEF Base
<1>3. MInv => WithinMax BY DEF MInv
<1>4. QED BY <1>1, <1>2, <1>3, InitMInv, PTL DEF Spec

-----------------------------------------------------------------------------
(* The default strategy is one.  With fewer threads than minThreadNum the  *)
(* wrapped difference is a negative int, so that it grows by what is       *)
(* missing, and minThreadNum is not above maxThreadNum.                    *)

LEMMA WrapNot ==
  ASSUME NEW m \in Nat \ {0}, NEW a \in Nat, a < m PROVE a % m = a
OBVIOUS

LEMMA WrapOnce ==
  ASSUME NEW m \in Nat \ {0}, NEW a \in Int, a < 0, -m <= a PROVE a % m = a + m
OBVIOUS

LEMMA DefaultGrowsWithinMax ==
  ASSUME LimitsInOrder, \A n \in MaxLimits : n < IntLimit,
         NEW d \in Data, d.nowThreadNum <= d.maxThreadNum, d.runThreadNum <= d.nowThreadNum,
         d.sleepThreadNum = d.nowThreadNum - d.runThreadNum
  PROVE  DefaultStrategy(d) <= d.maxThreadNum - d.nowThreadNum
<1>1. /\ d.minThreadNum \in Nat /\ d.maxThreadNum \in Nat /\ d.nowThreadNum \in Nat
      /\ d.sleepThreadNum \in Nat /\ d.taskNum \in Nat /\ d.runThreadNum \in Nat
      /\ d.minThreadNum <= d.maxThreadNum /\ d.maxThreadNum < IntLimit
  BY LimitsTyped DEF Data, LimitsInOrder
<1>2. IntLimit \in Nat \ {0} /\ 2 * IntLimit \in Nat \ {0} BY IntLimitAssumption DEF IntLimitAssumption
<1> DEFINE lo == d.minThreadNum
           hi == d.maxThreadNum
           now == d.nowThreadNum
           asleep == d.sleepThreadNum
           m == 2 * IntLimit
<1>3. /\ lo \in Nat /\ hi \in Nat /\ now \in Nat /\ asleep \in Nat /\ lo <= hi /\ hi < m /\ hi < IntLimit
      /\ now <= hi /\ asleep <= now /\ m \in Nat \ {0} /\ m = 2 * IntLimit
  BY <1>1, <1>2
<1>4. GrowBy(d) = SmallerOf(MinusU32(hi, now), IF asleep > 0 THEN 0 ELSE 2)
      /\ ShrinkBy(d) = LargerOf(asleep \div 4, MinusU32(now, lo))
  BY DEF GrowBy, ShrinkBy
<1>5. \/ DefaultStrategy(d) = -ToInt(ShrinkBy(d))
      \/ DefaultStrategy(d) = 0
      \/ DefaultStrategy(d) = ToInt(GrowBy(d))
  BY DEF DefaultStrategy
<1> HIDE DEF lo, hi, now, asleep, m
<1>6. MinusU32(hi, now) = hi - now
  <2>1. hi - now \in Nat /\ hi - now < m BY <1>3
  <2>2. (hi - now) % m = hi - now BY <1>3, <2>1, WrapNot
  <2>3. QED BY <1>3, <2>2 DEF MinusU32
<1>7. ToInt(GrowBy(d)) <= hi - now
  <2>1. GrowBy(d) \in Nat /\ GrowBy(d) <= hi - now BY <1>3, <1>4, <1>6 DEF SmallerOf
  <2>2. ToInt(GrowBy(d)) <= GrowBy(d) BY <1>2, <2>1 DEF ToInt
  <2>3. ToInt(GrowBy(d)) \in Int BY <1>2, <2>1 DEF ToInt
  <2>4. QED BY <1>3, <2>1, <2>2, <2>3
<1>8. -ToInt(ShrinkBy(d)) <= hi - now
  <2> DEFINE quarter == asleep \div 4
  <2>1. quarter \in Nat /\ quarter < IntLimit BY <1>2, <1>3
  <2>2. CASE now >= lo
    <3>1. now - lo \in Nat /\ now - lo < m BY <1>3, <2>2
    <3>2. (now - lo) % m = now - lo BY <1>3, <3>1, WrapNot
    <3>3. MinusU32(now, lo) = now - lo BY <1>3, <3>2 DEF MinusU32
    <3> HIDE DEF quarter
    <3>4. ShrinkBy(d) \in {quarter, now - lo} BY <1>4, <3>3 DEF LargerOf, quarter
    <3>5. ShrinkBy(d) \in Nat /\ ShrinkBy(d) < IntLimit BY <1>2, <1>3, <2>1, <3>1, <3>4
    <3>6. ToInt(ShrinkBy(d)) \in Nat BY <3>5 DEF ToInt
    <3>7. QED BY <1>3, <3>6
  <2>3. CASE now < lo
    <3>1. now - lo \in Int /\ now - lo < 0 /\ -m <= now - lo BY <1>3, <2>3
    <3>2. (now - lo) % m = (now - lo) + m BY <1>3, <3>1, WrapOnce
    <3>3. MinusU32(now, lo) = (now - lo) + m BY <1>3, <3>2 DEF MinusU32
    <3> HIDE DEF quarter
    <3>4. ShrinkBy(d) \in {quarter, (now - lo) + m} BY <1>4, <3>3 DEF LargerOf, quarter
    <3>5. CASE ShrinkBy(d) < IntLimit
      <4>1. ToInt(ShrinkBy(d)) \in Nat BY <1>3, <2>1, <3>1, <3>4, <3>5 DEF ToInt
      <4>2. QED BY <1>3, <4>1
    <3>6. CASE ~(ShrinkBy(d) < IntLimit)
      <4>1. ShrinkBy(d) = (now - lo) + m BY <2>1, <3>4, <3>6
      <4>2. ToInt(ShrinkBy(d)) = ((now - lo) + m) - m BY <1>3, <3>6, <4>1 DEF ToInt
      <4>3. ToInt(ShrinkBy(d)) = now - lo BY <1>3, <4>2
      <4>4. QED BY <1>3, <4>3
    <3>7. QED BY <3>5, <3>6
  <2>4. QED BY <1>3, <2>2, <2>3
<1>9. QED BY <1>3, <1>5, <1>7, <1>8 DEF hi, now

(* The pool under ThreadPoolDefaultStrategy, with limits that int holds.   *)
THEOREM DefaultWithinMax ==
  ASSUME LimitsInOrder, \A n \in MaxLimits : n < IntLimit,
         \A d \in Data : Strategy(d) = DefaultStrategy(d)
  PROVE  Spec => []WithinMax
<1>1. GrowsWithinMax
  <2> SUFFICES ASSUME NEW d \in Data,
                      d.nowThreadNum <= d.maxThreadNum, d.runThreadNum <= d.nowThreadNum,
                      d.sleepThreadNum = d.nowThreadNum - d.runThreadNum
               PROVE  Strategy(d) <= d.maxThreadNum - d.nowThreadNum
    BY DEF GrowsWithinMax
  <2>1. DefaultStrategy(d) <= d.maxThreadNum - d.nowThreadNum BY DefaultGrowsWithinMax
  <2>2. QED BY <2>1
<1>2. QED BY <1>1, MapWithinMax

=============================================================================
