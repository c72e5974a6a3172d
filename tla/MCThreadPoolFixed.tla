------------------------- MODULE MCThreadPoolFixed --------------------------
(***************************************************************************)
(* A pool of constant size, the model HttpClient and the tests use: at     *)
(* most two workers and three tasks, one with a result, its thenTry        *)
(* continuation and one that returns void.                                 *)
(***************************************************************************)
EXTENDS ThreadPool, TLC

CONSTANTS t1, t2, t3, w1, w2

MCTask == {t1, t2, t3}
MCWorker == {w1, w2}
MCVoid == {t3}
MCPred == (t1 :> None) @@ (t2 :> t1) @@ (t3 :> None)
MCPredVoid == (t1 :> None) @@ (t2 :> t3) @@ (t3 :> None)   \* continues the void task
MCModes == {"FixedSizeAndNoCheck"}
MCNoStrategy(data) == 0
=============================================================================
