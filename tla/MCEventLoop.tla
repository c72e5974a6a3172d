----------------------------- MODULE MCEventLoop -----------------------------
(***************************************************************************)
(* Two coroutines on a loop, and one pool worker for the futures they      *)
(* await.                                                                  *)
(***************************************************************************)
EXTENDS EventLoop, TLC

CONSTANTS c1, c2, w1, w2

MCCoroutine == {c1, c2}
MCWorker == {w1}
MCTwoWorkers == {w1, w2}
MCEntry == {"start", "trySync"}
MCTrySync == {"trySync"}
MCStart == {"start"}
MCTimerFuture == {"timer", "future", "end"}
MCAioEnd == {"aio", "end"}
MCNoFuture == {"timer", "yield", "aio", "end"}
MCFuture == {"future", "end"}
MCEnd == {"end"}
MCOnWorker == {"aio", "future", "end"}
MCSymmetry == Permutations(MCCoroutine) \cup Permutations(MCTwoWorkers)
==============================================================================
