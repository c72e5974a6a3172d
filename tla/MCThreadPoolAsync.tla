------------------------- MODULE MCThreadPoolAsync --------------------------
(***************************************************************************)
(* The self-sizing pool under the default strategy: a manager that starts  *)
(* one worker, may grow to MaxChoices and shrinks again, and two tasks.    *)
(***************************************************************************)
EXTENDS ThreadPool, PoolStrategy, TLC

CONSTANTS t1, t2, w1, w2, w3, w4

MCTask == {t1, t2}
MCWorker == {w1, w2, w3, w4}
MCPred == (t1 :> None) @@ (t2 :> None)
MCVoid == {t2}
MCModes == {"AsyncCheck"}
MCDecisions == -3..3
MCSymmetry == Permutations(MCWorker)
=============================================================================
