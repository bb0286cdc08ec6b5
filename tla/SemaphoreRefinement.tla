------------------------- MODULE SemaphoreRefinement -------------------------
(***************************************************************************)
(* The semaphores on the kernel implement SemaphoreAbs: the line of an     *)
(* abstract semaphore is read off the pointers of the wait queue, and the  *)
(* outcome of a wait off the flags that z_pend_current_on returns.         *)
(***************************************************************************)
EXTENDS Semaphore

\* How the wait of t on q ended, until it returns.
Outcome(s, q, t) ==
  IF s.on[t] = q /\ s.state[t] # "PENDING" THEN PendResult(s, t) ELSE "none"

Abs == INSTANCE SemaphoreAbs WITH
         Sems <- Queues,
         units <- count,
         line <- [q \in Queues |-> Line(k, q)],
         outcome <- [q \in Queues |-> [t \in Threads |-> Outcome(k, q, t)]]

\* The semaphores on the kernel implement the first-in first-out semaphores of
\* SemaphoreAbs.
Implements == Abs!Spec
==============================================================================
