------------------------------- MODULE Waiters -------------------------------
(***************************************************************************)
(* What the kernel objects with a wait queue share: who calls them, and    *)
(* how something is handed to a thread that waits (kernel.c).              *)
(***************************************************************************)
EXTENDS Kernel

CONSTANTS
  ISR,            \* the interrupt handlers, as a caller
  MAX_TIMEOUT     \* bound on the timeouts (ticks)

ASSUME WaitersAssumption == ISR \notin Threads /\ MAX_TIMEOUT \in Nat

VARIABLE swap_data  \* thread -> thread.swap_data

Callers == Threads \cup {ISR}

Calls(c) == IF c = ISR THEN InterruptsEnabled ELSE Running(c)

Timeouts(c) ==
  IF c = ISR THEN {K_NO_WAIT} ELSE (0 .. MAX_TIMEOUT) \cup {K_FOREVER}

\* z_unpend_first_and_swap when a thread waits on q: it is woken up with v in its
\* swap_data.
z_unpend_first_and_swap(q, v) ==
  /\ k' = z_unpend_first_thread(k, q)
  /\ swap_data' = [swap_data EXCEPT ![FirstPending(k, q)] = v]

\* z_cancel_all_pending, up to its loop (CancelStep).
z_cancel_all_pending(c, q) ==
  /\ Calls(c)
  /\ ctx' = [in |-> "cancel", q |-> q]
  /\ UNCHANGED <<k, swap_data>>

\* Its end, with which the service that called it returns.
CancelEnd(q) ==
  /\ ctx = [in |-> "cancel", q |-> q]
  /\ DLIST_EMPTY(k.wq, q)
  /\ ctx' = InThread
  /\ UNCHANGED <<k, swap_data>>

\* The thread that waited on q returns from z_pend_current_on.  Nothing reads its
\* swap_data before it is written again: it is forgotten here.
PendReturn(t, q) ==
  /\ Returning(t)
  /\ k.on[t] = q
  /\ k' = Returned(k, t)
  /\ swap_data' = [swap_data EXCEPT ![t] = NULL]
  /\ UNCHANGED ctx

\* A thread that was handed something and has not returned with it yet.
HandedOver(q) ==
  {t \in Threads : /\ k.on[t] = q
                   /\ k.state[t] # "PENDING"
                   /\ PendResult(k, t) = "OK"}
==============================================================================
