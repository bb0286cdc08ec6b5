------------------------------ MODULE Scheduler ------------------------------
(***************************************************************************)
(* Threads that yield, sleep, lock the scheduler, change priority, and     *)
(* create, start, abort and join each other, under a preemptive tick.      *)
(*                                                                         *)
(* k_thread_start() and k_thread_abort() read the state of their target    *)
(* before they disable the interrupts: the test and the effect are two     *)
(* steps, and pc[t] remembers the call between them.                       *)
(***************************************************************************)
EXTENDS Kernel

CONSTANTS
  Sleepers,       \* threads that call k_sleep()
  Lockers,        \* threads that call k_sched_lock() and k_sched_unlock()
  PrioPairs,      \* <<t, u>>: t may call k_thread_set_priority(u)
  StartPairs,     \* <<t, u>>: t may call k_thread_start(u)
  AbortPairs,     \* <<t, u>>: t may call k_thread_abort(u)
  CreatePairs,    \* <<t, u>>: t may call k_thread_create(u)
  JoinPairs,      \* <<t, u>>: t may call k_thread_join(u)
  JoinQueue,      \* thread -> the head of its join_waitqueue
  MAX_TIMEOUT     \* bound on the timeouts (ticks)

ASSUME SchedulerAssumption ==
  /\ Sleepers \subseteq Threads
  /\ Lockers \subseteq Threads
  /\ PrioPairs \cup StartPairs \cup AbortPairs \cup CreatePairs \cup JoinPairs
       \subseteq Threads \X Threads
  /\ JoinQueue \in [Threads -> Queues]
  /\ \A t, u \in Threads : JoinQueue[t] = JoinQueue[u] => t = u
  /\ MAX_TIMEOUT \in Nat

VARIABLES
  pc              \* the call in progress between its test and its effect

vars == <<k, ctx, pc>>

User == [call |-> "none", target |-> NULL]

Timeouts == (0 .. MAX_TIMEOUT) \cup {K_FOREVER}

Free(t) == Running(t) /\ pc[t] = User

-------------------------------------------------------------------------------
k_thread_create(t, u, prio) ==
  /\ Free(t)
  /\ <<t, u>> \in CreatePairs
  /\ k.state[u] = "STOPPED"       \* the caller owns a thread that does not run
  /\ k' = [k EXCEPT !.expired = @ \ {u}, !.canceled = @ \ {u},
                    !.wakeup = @ \ {u}, !.locked = @ \ {u},
                    !.coop = IF prio = "COOP" THEN @ \cup {u} ELSE @ \ {u},
                    !.wq = dlist_init(@, JoinQueue[u]),
                    !.on = [@ EXCEPT ![u] = NULL]]
  /\ pc' = [pc EXCEPT ![u] = User]
  /\ UNCHANGED ctx

\* The test of k_thread_start, made with the interrupts enabled ...
k_thread_start_test(t, u) ==
  /\ Free(t)
  /\ <<t, u>> \in StartPairs
  /\ k.state[u] = "STOPPED"
  /\ pc' = [pc EXCEPT ![t] = [call |-> "start", target |-> u]]
  /\ UNCHANGED <<k, ctx>>

\* ... and its effect.
k_thread_start(t) ==
  /\ Running(t)
  /\ pc[t].call = "start"
  /\ k' = z_schedule(k, pc[t].target)
  /\ pc' = [pc EXCEPT ![t] = User]
  /\ UNCHANGED ctx

k_thread_abort_test(t, u) ==
  /\ Free(t)
  /\ <<t, u>> \in AbortPairs
  /\ k.state[u] # "STOPPED"
  /\ pc' = [pc EXCEPT ![t] = [call |-> "abort", target |-> u]]
  /\ UNCHANGED <<k, ctx>>

\* Up to the loop that wakes up the threads that joined the target.
k_thread_abort(t) ==
  LET thread == pc[t].target
  IN  /\ Running(t)
      /\ pc[t].call = "abort"
      /\ k' = [z_suspend(k, thread) EXCEPT
                 !.state = [@ EXCEPT ![thread] = "STOPPED"]]
      /\ ctx' = [in |-> "drain", q |-> JoinQueue[thread]]
      /\ UNCHANGED pc

\* After the loop: a thread that stopped itself gives up the CPU.
k_thread_abort_end ==
  LET t == k.current
  IN  /\ ctx.in = "drain"
      /\ DLIST_EMPTY(k.wq, ctx.q)
      /\ k' = IF pc[t].target = t THEN z_scheduler(k) ELSE k
      /\ ctx' = InThread
      /\ pc' = [pc EXCEPT ![t] = User]

\* k_thread_join that waits although the thread has stopped.
k_thread_join_NoTest(t, u, timeout) ==
  /\ Free(t)
  /\ <<t, u>> \in JoinPairs
  /\ k' = z_pend_current_on(k, JoinQueue[u], timeout)
  /\ UNCHANGED <<ctx, pc>>

k_thread_join(t, u, timeout) ==
  /\ Free(t)
  /\ <<t, u>> \in JoinPairs
  /\ k' = IF k.state[u] = "STOPPED" THEN k
          ELSE z_pend_current_on(k, JoinQueue[u], timeout)
  /\ UNCHANGED <<ctx, pc>>

k_thread_join_return(t) ==
  /\ Returning(t)
  /\ k' = Returned(k, t)
  /\ UNCHANGED <<ctx, pc>>

k_thread_set_priority(t, u, prio) ==
  /\ Free(t)
  /\ <<t, u>> \in PrioPairs
  /\ k' = [k EXCEPT !.coop = IF prio = "COOP" THEN @ \cup {u} ELSE @ \ {u}]
  /\ UNCHANGED <<ctx, pc>>

-------------------------------------------------------------------------------
Init == /\ KernelInit
        /\ pc = [t \in Threads |-> User]

\* What one thread does.
Thread(t) ==
  \/ /\ \/ Free(t) /\ k_yield(t)
        \/ Free(t) /\ t \in Sleepers /\ \E n \in Timeouts \ {K_FOREVER} : k_sleep(t, n)
        \/ Free(t) /\ t \in Lockers /\ (k_sched_lock(t) \/ k_sched_unlock(t))
     /\ UNCHANGED pc
  \/ k_thread_start(t)
  \/ k_thread_abort(t)
  \/ k_thread_join_return(t)
  \/ \E u \in Threads :
       \/ k_thread_start_test(t, u)
       \/ k_thread_abort_test(t, u)
       \/ \E n \in Timeouts : k_thread_join(t, u, n)
       \/ \E prio \in {"COOP", "PREEMPT"} :
            k_thread_create(t, u, prio) \/ k_thread_set_priority(t, u, prio)

Interrupt == (Tick \/ k_yield_from_isr) /\ UNCHANGED pc

Next ==
  \/ \E t \in Threads : Thread(t)
  \/ DrainStep /\ UNCHANGED pc
  \/ k_thread_abort_end
  \/ Interrupt

Spec == Init /\ [][Next]_vars

-------------------------------------------------------------------------------
(* Properties *)

\* The type invariant.
TypeOK ==
  /\ KernelTypeOK
  /\ pc \in [Threads -> [call : {"none", "start", "abort"},
                         target : Threads \cup {NULL}]]

\* k_thread_join: no thread waits for a thread that has already stopped, which
\* would be forever (the test and the wait are under one irq_lock, and
\* k_thread_abort wakes all the waiting threads).
NoLostJoin ==
  ctx = InThread =>
    \A u \in Threads : k.state[u] = "STOPPED" => Waiting(k, JoinQueue[u]) = {}
===============================================================================
