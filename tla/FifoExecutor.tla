---------------------------- MODULE FifoExecutor ----------------------------
(***************************************************************************)
(* What HX::container::ThreadPool promises the callers of addTask and      *)
(* thenTry, without threads: tasks are accepted in some order, started in  *)
(* that order, each once, and a continuation ends only after the task it   *)
(* continues.  It promises no progress: the pool may be destroyed with     *)
(* tasks still queued.                                                     *)
(***************************************************************************)
EXTENDS Sequences

CONSTANTS Task, Pred, NoTask

VARIABLES queued, running, done

executorVars == <<queued, running, done>>

Accepted == {queued[i] : i \in DOMAIN queued} \cup running \cup done

Init == queued = <<>> /\ running = {} /\ done = {}

Submit(t) ==
  /\ t \notin Accepted
  /\ Pred[t] # NoTask => Pred[t] \in Accepted
  /\ queued' = Append(queued, t)
  /\ UNCHANGED <<running, done>>

Start ==
  /\ queued # <<>>
  /\ running' = running \cup {Head(queued)}
  /\ queued' = Tail(queued)
  /\ UNCHANGED done

Finish(t) ==
  /\ t \in running
  /\ Pred[t] # NoTask => Pred[t] \in done
  /\ running' = running \ {t}
  /\ done' = done \cup {t}
  /\ UNCHANGED queued

Next == Start \/ \E t \in Task : Submit(t) \/ Finish(t)

Spec == Init /\ [][Next]_executorVars

=============================================================================
