------------------------------ MODULE YieldOrder ------------------------------
(***************************************************************************)
(* The order in which threads run after a k_yield(): the semaphores of     *)
(* Semaphore, with a history variable that remembers who was ahead of a    *)
(* thread that yielded.                                                    *)
(***************************************************************************)
EXTENDS Semaphore

VARIABLE
  ahead           \* thread -> the threads that were READY when it last yielded
                  \* and have stayed READY without running since (history)

YieldInit == Init /\ ahead = [t \in Threads |-> {}]

YieldNext ==
  /\ Next
  /\ ahead' = [t \in Threads |->
       ((IF k_yield(t) THEN Ready(k) ELSE ahead[t]) \cap Ready(k')) \ {t, k'.current}]

YieldSpec == YieldInit /\ [][YieldNext]_<<vars, ahead>>

\* A thread that yields is placed at the end of the run queue: when it runs again,
\* every thread that was ready when it yielded, and still is, has run.
RunsAfterTheOthers ==
  [][\A t \in Threads : (k.current # t /\ k'.current = t)
                          => ahead[t] \cap Ready(k') = {}]_<<vars, ahead>>
===============================================================================
