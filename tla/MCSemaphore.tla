----------------------------- MODULE MCSemaphore -----------------------------
(***************************************************************************)
(* One semaphore, three threads: two that take with a timeout, one that    *)
(* sleeps and takes without one.                                           *)
(***************************************************************************)
EXTENDS SemaphoreRefinement

CONSTANTS a, b, c, sem

MCThreads     == {a, b, c}
MCQueues      == {sem}
MCAutoStart   == {a, b, c}
MCCooperative == {a}
MCSleepers    == {c}
MCTimedTakers == {a, b}
AllThreads    == {a, b, c}     \* every thread sleeps and takes with a timeout
MCLimit       == [s \in MCQueues |-> 2]
MCInitial     == [s \in MCQueues |-> 3]
==============================================================================
