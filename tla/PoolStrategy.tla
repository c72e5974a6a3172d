---------------------------- MODULE PoolStrategy ----------------------------
(***************************************************************************)
(* The sizing policy of the thread pool: ThreadPoolDefaultStrategy of      *)
(* include/HXLibs/container/ThreadPool.hpp, a pure function from the       *)
(* counts the manager thread sampled to the number of workers to add       *)
(* (positive) or to delete (negative).  The arithmetic keeps what the C++  *)
(* types do: the fields are uint32_t, so a difference of two wraps; the    *)
(* comparison is done on size_t, which holds them all; the result is int.  *)
(***************************************************************************)
EXTENDS Integers

CONSTANT IntLimit       \* 2^31 in the code: int ends below it, uint32_t below twice it

ASSUME IntLimitAssumption == IntLimit \in Nat \ {0}

(* A difference of two uint32_t wraps. *)
MinusU32(a, b) == (a - b) % (2 * IntLimit)

(* static_cast<int> of a size_t that came from a uint32_t. *)
ToInt(n) == IF n < IntLimit THEN n ELSE n - 2 * IntLimit

LargerOf(a, b) == IF a >= b THEN a ELSE b
SmallerOf(a, b) == IF a <= b THEN a ELSE b

(* How many workers to delete when most of them sleep. *)
ShrinkBy(d) == LargerOf(d.sleepThreadNum \div 4,
                        MinusU32(d.nowThreadNum, d.minThreadNum))

(* Mutant: maxThreadNum is ignored. *)
GrowByUnlimited(d) == IF d.sleepThreadNum > 0 THEN 0 ELSE 2

(* How many workers to add when the backlog is above minThreadNum. *)
GrowBy(d) == SmallerOf(MinusU32(d.maxThreadNum, d.nowThreadNum),
                       IF d.sleepThreadNum > 0 THEN 0 ELSE 2)

DefaultStrategy(d) ==
  IF d.taskNum <= d.minThreadNum
  THEN IF d.sleepThreadNum > d.runThreadNum THEN -ToInt(ShrinkBy(d)) ELSE 0
  ELSE ToInt(GrowBy(d))

=============================================================================
