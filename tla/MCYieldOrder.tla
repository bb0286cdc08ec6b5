----------------------------- MODULE MCYieldOrder -----------------------------
(***************************************************************************)
(* Three cooperative threads and one semaphore, no timeouts.               *)
(***************************************************************************)
EXTENDS YieldOrder

CONSTANTS a, b, c, sem

MCThreads == {a, b, c}
MCQueues  == {sem}
MCNobody  == {}
MCCounts  == [s \in MCQueues |-> 1]
===============================================================================
