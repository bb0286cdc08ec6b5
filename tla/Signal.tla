-------------------------------- MODULE Signal --------------------------------
(***************************************************************************)
(* The signal (signal.c): a state that stays raised until the application  *)
(* clears it, and the threads that wait for it.  The value that is raised  *)
(* is left out.                                                            *)
(***************************************************************************)
EXTENDS Waiters

CONSTANT SIGNAL   \* the wait queue of the signal, which names it

ASSUME SignalAssumption == SIGNAL \in Queues

VARIABLE signaled \* sig.flags has K_POLL_STATE_SIGNALED

SignalInit == signaled = FALSE

\* k_signal_raise that wakes up one thread only.
k_signal_raise_WakesOne(c) ==
  /\ Calls(c)
  /\ signaled' = TRUE
  /\ k' = z_unpend_first_thread(k, SIGNAL)
  /\ UNCHANGED <<ctx, swap_data>>

\* Up to the loop that wakes up all the threads.
k_signal_raise(c) ==
  /\ Calls(c)
  /\ signaled' = TRUE
  /\ ctx' = [in |-> "drain", q |-> SIGNAL]
  /\ UNCHANGED <<k, swap_data>>

k_signal_raise_end ==
  /\ ctx = [in |-> "drain", q |-> SIGNAL]
  /\ DLIST_EMPTY(k.wq, SIGNAL)
  /\ ctx' = InThread
  /\ UNCHANGED <<k, swap_data, signaled>>

k_poll_signal(c, timeout) ==
  /\ Calls(c)
  /\ k' = IF signaled THEN k ELSE z_pend_current_on(k, SIGNAL, timeout)
  /\ UNCHANGED <<ctx, swap_data, signaled>>

k_poll_signal_return(t) == PendReturn(t, SIGNAL) /\ UNCHANGED signaled

k_poll_cancel_wait(c) == z_cancel_all_pending(c, SIGNAL) /\ UNCHANGED signaled

K_SIGNAL_SET_UNREADY(c) ==
  /\ Calls(c)
  /\ signaled' = FALSE
  /\ UNCHANGED <<k, ctx, swap_data>>

\* The services of the signal, called by U, and their ends.
SignalNext(U) ==
  \/ \E c \in U :
       \/ \E n \in Timeouts(c) : k_poll_signal(c, n)
       \/ k_signal_raise(c) \/ k_poll_cancel_wait(c) \/ K_SIGNAL_SET_UNREADY(c)
  \/ \E t \in Threads : k_poll_signal_return(t)
  \/ k_signal_raise_end
  \/ CancelEnd(SIGNAL) /\ UNCHANGED signaled
===============================================================================
